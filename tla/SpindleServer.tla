---------------------------- MODULE SpindleServer ----------------------------
(***************************************************************************)
(* fabric::spindle::Daemon: the loop that accepts connections, serves each *)
(* once per tick and polls one of its sources, against clients that send   *)
(* their one request in parts, hang up, do not read, or take too long.     *)
(*                                                                         *)
(* A client makes one connection.  Frames, replies and the socket buffers  *)
(* are abstracted to what the loop tells apart: whether a read finds       *)
(* nothing, a part, a whole frame or a bad one, and whether a write takes  *)
(* all of the reply.  Every read and write of one connection in one tick   *)
(* is one step, the request's transaction included (module Custody).       *)
(***************************************************************************)
EXTENDS Naturals, Sequences, FiniteSets

CONSTANTS
  Clients,
  Foreign,         (* clients of another user                               *)
  Requests,        (* [kind, id, body]; of kinds other than submit, 0 and 0 *)
  MaxConnections,  (* Config::max_connections                               *)
  SourceCount,     (* files, journal and host                               *)
  Wrap,            (* next_source is in 0..Wrap-1: 2^64                     *)
  None

VARIABLES
  backlog,      (* clients that are connected and not accepted              *)
  sent,         (* per client: what the daemon finds when it reads          *)
  asked,        (* per client: its request, once it is whole                *)
  gone,         (* clients that have hung up                                *)
  got,          (* per client: the reply, "closed", or None                 *)
  phase,        (* where the daemon is in its loop                          *)
  budget,       (* accepts left in this tick                                *)
  index,        (* connections left to serve in this tick                   *)
  connections,  (* the clients it is connected to, in its order             *)
  out,          (* per client: the reply that is not written yet, or None   *)
  expired,      (* clients whose deadline has passed                        *)
  stopping,
  next_source,
  served,       (* clients served in this tick (of the model only)          *)
  rows,         (* <<id, body>> of what is stored                           *)
  health

clients == <<backlog, sent, asked, gone, got>>
loop == <<phase, budget, index, connections, out, stopping, served>>
serverVars == <<clients, loop, expired, next_source, rows, health>>

Kinds == {"submit", "reserved", "status", "read", "stop", "unknown", "garbage"}
Replies == {"receipt", "status", "records", "stopped", "error"}

ServerInit ==
    /\ backlog = <<>>
    /\ sent = [c \in Clients |-> "unconnected"]
    /\ asked = [c \in Clients |-> None]
    /\ gone = {}
    /\ got = [c \in Clients |-> None]
    /\ phase = "accept"
    /\ budget = MaxConnections
    /\ index = 0
    /\ connections = <<>>
    /\ out = [c \in Clients |-> None]
    /\ expired = {}
    /\ stopping = FALSE
    /\ next_source = 0
    /\ served = {}
    /\ rows = {}
    /\ health = [ingestion |-> 0, retries |-> 0, refusals |-> 0, errors |-> 0]

Connected == {connections[i] : i \in DOMAIN connections}

-----------------------------------------------------------------------------
(* Clients *)

Connect(c) ==
    /\ sent[c] = "unconnected"
    /\ phase # "ended"
    /\ sent' = [sent EXCEPT ![c] = "nothing"]
    /\ backlog' = Append(backlog, c)
    /\ UNCHANGED <<asked, gone, got, loop, expired, next_source, rows, health>>

SendPart(c) ==
    /\ sent[c] = "nothing"
    /\ c \notin gone
    /\ \E what \in {"part", "bad"} : sent' = [sent EXCEPT ![c] = what]
    /\ UNCHANGED <<backlog, asked, gone, got, loop, expired, next_source, rows,
                   health>>

SendAll(c) ==
    /\ sent[c] \in {"nothing", "part"}
    /\ c \notin gone
    /\ sent' = [sent EXCEPT ![c] = "whole"]
    /\ \E r \in Requests : asked' = [asked EXCEPT ![c] = r]
    /\ UNCHANGED <<backlog, gone, got, loop, expired, next_source, rows, health>>

HangUp(c) ==
    /\ sent[c] # "unconnected"
    /\ got[c] = None
    /\ gone' = gone \union {c}
    /\ UNCHANGED <<backlog, sent, asked, got, loop, expired, next_source, rows,
                   health>>

(* The clock passes the deadline of a connection. *)
Expire(c) ==
    /\ c \in Connected \ expired
    /\ expired' = expired \union {c}
    /\ UNCHANGED <<clients, loop, next_source, rows, health>>

-----------------------------------------------------------------------------
(* Daemon::tick, accepting *)

Counting(field) == [health EXCEPT ![field] = @ + 1]

Accept ==
    /\ phase = "accept" /\ ~stopping
    /\ budget > 0 /\ backlog # <<>>
    /\ budget' = budget - 1
    /\ backlog' = SubSeq(backlog, 2, Len(backlog))
    /\ LET c == backlog[1]
       IN IF Len(connections) >= MaxConnections \/ c \in Foreign
          THEN /\ health' = Counting("refusals")
               /\ got' = [got EXCEPT ![c] = "closed"]
               /\ UNCHANGED connections
          ELSE /\ connections' = Append(connections, c)
               /\ UNCHANGED <<health, got>>
    /\ UNCHANGED <<sent, asked, gone, phase, index, out, expired, stopping,
                   next_source, served, rows>>

(* Accepting fails for another reason than that nobody waits: run returns, *)
(* and what is connected is closed.                                        *)
AcceptFails ==
    /\ phase = "accept" /\ ~stopping /\ budget > 0
    /\ phase' = "ended"
    /\ connections' = <<>>
    /\ index' = 0
    /\ out' = [c \in Clients |-> None]
    /\ got' = [c \in Clients |-> IF c \in Connected THEN "closed" ELSE got[c]]
    /\ UNCHANGED <<backlog, sent, asked, gone, budget, expired, stopping,
                   next_source, served, rows, health>>

EndAccept ==
    /\ phase = "accept"
    /\ stopping \/ budget = 0 \/ backlog = <<>>
    /\ phase' = "serve"
    /\ index' = Len(connections)
    /\ budget' = MaxConnections
    /\ UNCHANGED <<clients, connections, served, out, expired, stopping,
                   next_source, rows, health>>

-----------------------------------------------------------------------------
(* Daemon::tick, serving one connection *)

(* Vec::swap_remove *)
SwapRemove(s, i) == SubSeq([s EXCEPT ![i] = s[Len(s)]], 1, Len(s) - 1)

(* Faulty variant: a connection that is kept goes to the front. *)
SettleInFront(c, keep) ==
    LET rest == SwapRemove(connections, index)
    IN /\ connections' = IF keep THEN <<c>> \o rest ELSE rest
       /\ index' = index - 1
       /\ served' = served \union {c}
       /\ UNCHANGED <<backlog, sent, asked, gone, phase, budget, expired,
                      next_source>>

(* The connection is put back at the end, or dropped. *)
Settle(c, keep) ==
    LET rest == SwapRemove(connections, index)
    IN /\ connections' = IF keep THEN Append(rest, c) ELSE rest
       /\ index' = index - 1
       /\ served' = served \union {c}
       /\ UNCHANGED <<backlog, sent, asked, gone, phase, budget, expired,
                      next_source>>

Drop(c, reply) ==
    /\ Settle(c, FALSE)
    /\ got' = [got EXCEPT ![c] = reply]
    /\ out' = [out EXCEPT ![c] = None]

Keep(c) == Settle(c, TRUE) /\ UNCHANGED <<got, out>>

Serving(c) ==
    /\ phase = "serve"
    /\ index > 0
    /\ c = connections[index]

(* Faulty variant: a connection past its deadline is kept. *)
RefuseLateKeeping(c) ==
    /\ Serving(c)
    /\ c \in expired
    /\ Keep(c)
    /\ UNCHANGED <<stopping, rows, health>>

RefuseLate(c) ==
    /\ Serving(c)
    /\ c \in expired
    /\ health' = Counting("refusals")
    /\ Drop(c, "closed")
    /\ UNCHANGED <<stopping, rows>>

(* Nothing or not all to read, or a reply that still cannot be written. *)
WaitForClient(c) ==
    /\ Serving(c)
    /\ c \notin expired \union gone
    /\ out[c] # None \/ sent[c] \in {"nothing", "part"}
    /\ Keep(c)
    /\ UNCHANGED <<stopping, rows, health>>

(* A bad length, or the client is gone: an error is counted. *)
FailClient(c) ==
    /\ Serving(c)
    /\ c \notin expired
    /\ \/ sent[c] = "bad"
       \/ c \in gone /\ (sent[c] # "whole" \/ out[c] # None)
    /\ health' = Counting("errors")
    /\ Drop(c, "closed")
    /\ UNCHANGED <<stopping, rows>>

(* The rest of a reply is written: progress ends with "reply complete". *)
FinishReply(c) ==
    /\ Serving(c)
    /\ c \notin expired \union gone
    /\ out[c] # None
    /\ health' = Counting("errors")
    /\ Drop(c, out[c])
    /\ UNCHANGED <<stopping, rows>>

Stored(id) == {row \in rows : row[1] = id}

(* Faulty variant: what was stored before is not told apart. *)
SubmitUncounted(r, reply) ==
    /\ reply = "receipt"
    /\ Stored(r.id) \subseteq {<<r.id, r.body>>}
    /\ rows' = rows \union {<<r.id, r.body>>}
    /\ health' = Counting("ingestion")

(* Store::submit: stored, stored before, or refused for any reason, also   *)
(* after the commit became durable.                                        *)
SubmitRequest(r, reply) ==
    \/ /\ reply = "receipt"
       /\ IF Stored(r.id) = {}
          THEN /\ rows' = rows \union {<<r.id, r.body>>}
               /\ health' = Counting("ingestion")
          ELSE /\ <<r.id, r.body>> \in rows
               /\ UNCHANGED rows
               /\ health' = [health EXCEPT !.ingestion = @ + 1,
                                           !.retries = @ + 1]
    \/ /\ reply = "error"
       /\ health' = Counting("refusals")
       /\ \/ UNCHANGED rows
          \/ Stored(r.id) = {} /\ rows' = rows \union {<<r.id, r.body>>}

(* Daemon::handle *)
Handle(r, reply) ==
    \/ r.kind = "submit" /\ SubmitRequest(r, reply) /\ UNCHANGED stopping
    \/ /\ r.kind = "reserved" /\ reply = "error"
       /\ health' = Counting("refusals")
       /\ UNCHANGED <<rows, stopping>>
    \/ /\ r.kind = "garbage" /\ reply = "error"
       /\ health' = Counting("errors")
       /\ UNCHANGED <<rows, stopping>>
    \/ /\ <<r.kind, reply>> \in {<<"status", "status">>, <<"read", "records">>,
                                 <<"read", "error">>, <<"unknown", "error">>}
       /\ UNCHANGED <<rows, stopping, health>>
    \/ /\ r.kind = "stop" /\ reply = "stopped"
       /\ stopping' = TRUE
       /\ UNCHANGED <<rows, health>>

(* The request is handled, whether its client still waits or not, and the  *)
(* reply written, in part or not at all.                                   *)
Answer(c) ==
    /\ Serving(c)
    /\ c \notin expired
    /\ sent[c] = "whole" /\ out[c] = None
    /\ \E reply \in Replies :
         /\ Handle(asked[c], reply)
         /\ \/ c \in gone /\ Drop(c, "closed")
            \/ c \notin gone /\ Drop(c, reply)
            \/ /\ c \notin gone
               /\ Settle(c, TRUE)
               /\ out' = [out EXCEPT ![c] = reply]
               /\ UNCHANGED got

Serve(c) ==
    \/ RefuseLate(c) \/ WaitForClient(c) \/ FailClient(c) \/ FinishReply(c)
    \/ Answer(c)

EndServe ==
    /\ phase = "serve"
    /\ index = 0
    /\ phase' = "poll"
    /\ served' = {}
    /\ UNCHANGED <<clients, budget, index, connections, out, stopping, expired,
                   next_source, rows, health>>

(* One source is polled; the loop goes on while it is not stopping or has  *)
(* connections.                                                            *)
Poll ==
    /\ phase = "poll"
    /\ next_source' = IF stopping \/ SourceCount = 0 THEN next_source
                      ELSE (next_source + 1) % Wrap
    /\ phase' = IF stopping /\ connections = <<>> THEN "ended" ELSE "accept"
    /\ UNCHANGED <<clients, budget, index, connections, out, stopping, served,
                   expired, rows, health>>

-----------------------------------------------------------------------------
Tick ==
    \/ Accept \/ AcceptFails \/ EndAccept
    \/ \E c \in Clients : Serve(c)
    \/ EndServe \/ Poll

ServerNext ==
    \/ Tick
    \/ \E c \in Clients :
         Connect(c) \/ SendPart(c) \/ SendAll(c) \/ HangUp(c) \/ Expire(c)

ServerSpec == ServerInit /\ [][ServerNext]_serverVars

-----------------------------------------------------------------------------
(* The loop that swaps connections out and pushes them back serves each    *)
(* connection once per tick: those not served yet are the first ones.      *)
EachServedOnce ==
    phase = "serve" =>
        \A i \in DOMAIN connections : (connections[i] \in served) = (i > index)

(* A client with a receipt has its bytes stored, and no reply reaches a    *)
(* client that asked for something else.                                   *)
RepliesAreTrue ==
    \A c \in Clients :
        LET reply == IF out[c] # None THEN out[c] ELSE got[c]
        IN /\ reply = "receipt" =>
                asked[c].kind = "submit"
                /\ Stored(asked[c].id) = {<<asked[c].id, asked[c].body>>}
           /\ reply = "stopped" => asked[c].kind = "stop" /\ stopping

(* Health tells the rows that clients stored: ingestion without retries,   *)
(* but for refusals of what became durable all the same.                   *)
HealthCountsRows ==
    LET told == health.ingestion - health.retries
    IN told <= Cardinality(rows) /\ Cardinality(rows) <= told + health.refusals

(* Once a stop is answered no connection is accepted and no source polled. *)
StopIsFinal ==
    stopping => /\ stopping'
                /\ \A i \in DOMAIN connections' : connections'[i] \in Connected
                /\ next_source' = next_source

(* Nothing of a client is stored once its deadline has passed. *)
LateIsNotStored == rows' # rows => connections[index] \notin expired

(* A client keeps a connection, or the daemon from ending after a stop.    *)
KeptByClients ==
    Connected # {} \/ (stopping /\ phase # "ended")

(* It is the turn of source s, unless the daemon goes to its end. *)
TurnOf(s) == stopping \/ phase = "ended" \/ next_source % SourceCount = s
=============================================================================
