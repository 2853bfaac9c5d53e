----------------------------- MODULE DurableLog -----------------------------
(***************************************************************************)
(* What recording through the SDK promises, with no buffers, connections,  *)
(* retries, lost replies or crashes: each generation of a client has a log *)
(* of what it accepted; custody receives the records of a log one by one,  *)
(* in order, each once; and whoever flushes is promised only what is       *)
(* there.                                                                  *)
(***************************************************************************)
EXTENDS Naturals, Sequences

CONSTANTS
  Generations,  (* lives of the client                                      *)
  Payloads

VARIABLES
  admitted,  (* per generation: the payloads accepted, in order             *)
  custody,   (* the records stored, in order                                *)
  promised   (* per generation: how many records are confirmed              *)

logVars == <<admitted, custody, promised>>

LogInit ==
    /\ admitted = [g \in Generations |-> <<>>]
    /\ custody = <<>>
    /\ promised = [g \in Generations |-> 0]

InCustody(g, n) ==
    \E id \in DOMAIN custody :
        custody[id].generation = g /\ custody[id].sequence = n

Admit(g, payload) ==
    /\ admitted' = [admitted EXCEPT ![g] = Append(@, payload)]
    /\ UNCHANGED <<custody, promised>>

(* The first record of the log that is not in custody yet. *)
StoreNext(g) ==
    \E n \in DOMAIN admitted[g] :
        /\ ~InCustody(g, n)
        /\ \A m \in 1 .. n - 1 : InCustody(g, m)
        /\ custody' = Append(custody,
             [generation |-> g, sequence |-> n, bytes |-> admitted[g][n]])
        /\ UNCHANGED <<admitted, promised>>

Promise(g) ==
    /\ InCustody(g, promised[g] + 1)
    /\ promised' = [promised EXCEPT ![g] = @ + 1]
    /\ UNCHANGED <<admitted, custody>>

LogNext ==
    \E g \in Generations :
        \/ \E payload \in Payloads : Admit(g, payload)
        \/ StoreNext(g)
        \/ Promise(g)

LogSpec == LogInit /\ [][LogNext]_logVars
=============================================================================
