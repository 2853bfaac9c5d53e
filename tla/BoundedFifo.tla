----------------------------- MODULE BoundedFifo -----------------------------
(***************************************************************************)
(* What the admission queue promises its callers, with no locks, scans or  *)
(* threads: a queue of Capacity records whose charge lasts until the       *)
(* consumer's lease ends.  Tickets number the successful admissions.       *)
(***************************************************************************)
EXTENDS Naturals, Sequences, FiniteSets

CONSTANTS Payloads,   (* what a record can hold                       *)
          Capacity,   (* records that may be charged at one time      *)
          LastTicket  (* admissions are refused at this ticket        *)

VARIABLES queue,      (* the admitted records not yet leased, in order *)
          out,        (* the leased records                            *)
          issued,     (* tickets issued so far                         *)
          closed      (* admission has stopped                         *)

fifoVars == <<queue, out, issued, closed>>

FifoInit == queue = <<>> /\ out = {} /\ issued = 0 /\ closed = FALSE

Admit(payload) ==
    /\ ~closed
    /\ issued < LastTicket
    /\ Len(queue) + Cardinality(out) < Capacity
    /\ queue' = Append(queue, [ticket |-> issued, payload |-> payload])
    /\ issued' = issued + 1
    /\ UNCHANGED <<out, closed>>

LeaseFirst ==
    /\ queue # <<>>
    /\ queue' = Tail(queue)
    /\ out' = out \union {Head(queue)}
    /\ UNCHANGED <<issued, closed>>

Return(record) ==
    /\ out' = out \ {record}
    /\ UNCHANGED <<queue, issued, closed>>

Close == closed' = TRUE /\ UNCHANGED <<queue, out, issued>>

FifoNext ==
    \/ \E payload \in Payloads : Admit(payload)
    \/ LeaseFirst
    \/ \E record \in out : Return(record)
    \/ Close

FifoSpec == FifoInit /\ [][FifoNext]_fifoVars
=============================================================================
