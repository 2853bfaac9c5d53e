------------------------------ MODULE Delivery ------------------------------
(***************************************************************************)
(* Client, connections, daemon and custody together: SdkClient with a real *)
(* receiver in place of the one that answers anything.                     *)
(*                                                                         *)
(* Every attempt of the worker is a connection of its own with one frame   *)
(* and one reply.  The client gives an attempt up at its deadline; what it *)
(* had written stays in the socket, and the daemon may still handle it, in *)
(* any order with what came later.  The daemon runs one handler at a time  *)
(* and its store is a Ledger, so handling a frame is one step: the process *)
(* may end before or after it.  Either process may crash and start again;  *)
(* a new client has a new generation, a UUID the kernel draws.  Rows of    *)
(* other producers are left out: no identity of theirs is one of these.    *)
(***************************************************************************)
EXTENDS SdkClient

CONSTANT MaxFaults  (* bound of this model: faults in one behaviour         *)


Generations == 1 .. MaxFaults + 1

(* An encoded observation: its identity (the producer is the same) and Data. *)
Frame == [generation : Generations, sequence : Nat, bytes : Payloads]

(* The connection of the attempt under way: the client has written its     *)
(* frame, and waits for a reply, or for the end of the stream, or has it.  *)
Link == [frame : Frame, replied : BOOLEAN, answer : Receipt \union {None}]

ASSUME DeliveryAssumption == MaxFaults \in Nat /\ None \notin Link

VARIABLES
  generation,  (* of the client that is running                             *)
  past,        (* history: log and frontier of every client that has died   *)
  link,        (* the attempt's connection, or None                         *)
  left,        (* frames of attempts given up that may still be handled     *)
  up,          (* whether a daemon is running                               *)
  records,     (* the rows in custody                                       *)
  faults       (* how many faults there have been                           *)

peers == <<generation, past>>
network == <<link, left>>
deliveryVars == <<sdkVars, peers, network, up, records, faults>>

Custody == INSTANCE Ledger WITH
    Identities <- Generations \X Nat,
    IdentityOf <- [f \in Frame |-> <<f.generation, f.sequence>>],
    Sources <- {}, Positions <- {}, checkpoints <- <<>>, issued <- {}

DeliveryInit ==
    /\ SdkInit
    /\ generation = 1
    /\ past = [g \in Generations |-> [log |-> <<>>, confirmed |-> 0]]
    /\ link = None
    /\ left = {}
    /\ up = TRUE
    /\ records = <<>>
    /\ faults = 0

Fault == faults < MaxFaults /\ faults' = faults + 1

-----------------------------------------------------------------------------
(* Connections: transport::submit_bytes and the daemon *)

(* The frame of an attempt is written whole; one that is not is never      *)
(* handled, and the attempt is given up.                                   *)
Connect ==
    /\ At(Worker, "sending")
    /\ link = None
    /\ up
    /\ link' = [frame |-> [generation |-> generation,
                           sequence |-> buffer[carried].sequence,
                           bytes |-> buffer[carried].bytes],
                replied |-> FALSE, answer |-> None]
    /\ UNCHANGED <<sdkVars, peers, left, up, records, faults>>

ReceiptFor(frame, id) ==
    [ours |-> frame.generation = generation, sequence |-> frame.sequence, id |-> id]

AsRow(frame) == [body |-> frame, mark |-> None]

(* Faulty variant: a record that is there already is refused.              *)
StoreDuplicateRefused(frame, answer) ==
    /\ Custody!Recorded(records, frame) # {}
    /\ answer = None
    /\ UNCHANGED <<records, faults>>

(* Store::submit finds the identity: a receipt, unless the bytes differ. *)
StoreDuplicate(frame, answer) ==
    /\ \E id \in Custody!Recorded(records, frame) :
         answer = IF records[id].body = frame THEN ReceiptFor(frame, id) ELSE None
    /\ UNCHANGED <<records, faults>>

StoreRecord(frame, answer) ==
    /\ Custody!Record(AsRow(frame))
    /\ answer = ReceiptFor(frame, Len(records'))
    /\ UNCHANGED faults

(* Faulty variant: a failed commit is not noticed.                         *)
StoreFailsSilently(frame, answer) ==
    /\ Fault
    /\ answer = ReceiptFor(frame, Len(records) + 1)
    /\ UNCHANGED records

(* The store refuses or fails, the row in it or not, or the connection     *)
(* breaks or passes its deadline in the daemon.                            *)
StoreFails(frame, answer) ==
    /\ Fault
    /\ answer = None
    /\ Custody!Record(AsRow(frame)) \/ UNCHANGED records

Store(frame, answer) ==
    \/ StoreDuplicate(frame, answer)
    \/ StoreRecord(frame, answer)
    \/ StoreFails(frame, answer)

Answers(frame) ==
    {None} \union {ReceiptFor(frame, id) : id \in 1 .. Len(records) + 1}

Handle ==
    /\ up
    /\ link # None
    /\ ~link.replied
    /\ \E answer \in Answers(link.frame) :
         /\ Store(link.frame, answer)
         /\ link' = [link EXCEPT !.replied = TRUE, !.answer = answer]
    /\ UNCHANGED <<sdkVars, peers, left, up>>

(* Nobody reads the reply.  Another copy of the frame may be left. *)
HandleLate(frame) ==
    /\ up
    /\ \E answer \in Answers(frame) : Store(frame, answer)
    /\ UNCHANGED <<sdkVars, peers, network, up>>

CloseLate(frame) ==
    /\ left' = left \ {frame}
    /\ UNCHANGED <<sdkVars, peers, link, up, records, faults>>

Receive ==
    /\ link # None
    /\ link.replied
    /\ Answer(link.answer)
    /\ link' = None
    /\ UNCHANGED <<peers, left, up, records, faults>>

(* A frame nobody waits for any more, if it was not handled yet. *)
Abandoned == IF link # None /\ ~link.replied THEN {link.frame} ELSE {}

(* The delivery deadline, before the connection or while waiting. *)
GiveUp ==
    /\ Fault
    /\ Answer(None)
    /\ link' = None
    /\ left' = left \union Abandoned
    /\ UNCHANGED <<peers, up, records>>

(* Nobody listens on the socket. *)
ConnectRefused ==
    /\ ~up
    /\ link = None
    /\ Answer(None)
    /\ UNCHANGED <<peers, network, up, records, faults>>

-----------------------------------------------------------------------------
(* Processes end and start *)

(* Every connection ends; a reply that was written can still be read. *)
DaemonStops ==
    /\ up
    /\ Fault
    /\ up' = FALSE
    /\ link' \in {link} \union
         (IF link = None THEN {}
          ELSE {[link EXCEPT !.replied = TRUE, !.answer = None]})
    /\ link' # None => link'.replied
    /\ left' = {}
    /\ UNCHANGED <<sdkVars, peers, records>>

DaemonStarts ==
    /\ ~up
    /\ up' = TRUE
    /\ UNCHANGED <<sdkVars, peers, network, records, faults>>

(* Faulty variant: the generation of the last life is used again.          *)
SameGeneration == generation

(* Client::new reads a fresh UUID. *)
NewGeneration == generation + 1

(* The application ends and starts again: whatever was only in its memory  *)
(* is lost, what it had sent is not.                                       *)
ClientRestarts ==
    /\ Fault
    /\ generation' = NewGeneration
    /\ past' = [past EXCEPT ![generation] = [log |-> log, confirmed |-> confirmed]]
    /\ link' = None
    /\ left' = left \union Abandoned
    /\ mutex' = None
    /\ poisoned' = FALSE
    /\ free' = SlotIds
    /\ ready' = <<>>
    /\ buffer' = [i \in SlotIds |->
                    [phase |-> "Free", len |-> 0, sequence |-> 0, bytes |-> None]]
    /\ accepted' = 0
    /\ confirmed' = 0
    /\ last_receipt' = None
    /\ inflight' = None
    /\ closed' = FALSE
    /\ carried' = None
    /\ reply' = None
    /\ pc' = [t \in Threads |-> IF t = Worker THEN "top" ELSE "idle"]
    /\ arg' = [t \in Callers |-> None]
    /\ target' = [t \in Callers |-> 0]
    /\ log' = <<>>
    /\ seen' = [t \in Callers |-> 0]
    /\ UNCHANGED <<up, records>>

-----------------------------------------------------------------------------
ClientMoves == ClientNext /\ UNCHANGED <<peers, network, up, records, faults>>

DeliveryNext ==
    \/ ClientMoves
    \/ Connect \/ Receive \/ GiveUp \/ ConnectRefused
    \/ Handle \/ \E frame \in left : HandleLate(frame) \/ CloseLate(frame)
    \/ DaemonStops \/ DaemonStarts \/ ClientRestarts

DeliverySpec == DeliveryInit /\ [][DeliveryNext]_deliveryVars

Alone(Step) == Step /\ UNCHANGED <<peers, network, up, records, faults>>

(* A thread in the library keeps running, as in SdkFairSpec.  The daemon   *)
(* is started again and serves every connection in each round of its loop. *)
DeliveryFairSpec ==
    /\ DeliverySpec
    /\ \A t \in Callers : SF_deliveryVars(Alone(CallerStep(t)))
    /\ SF_deliveryVars(Alone(WorkerStep))
    /\ WF_deliveryVars(Connect) /\ WF_deliveryVars(Handle)
    /\ WF_deliveryVars(Receive) /\ WF_deliveryVars(ConnectRefused)
    /\ WF_deliveryVars(DaemonStarts)

-----------------------------------------------------------------------------
(* Properties *)

(* Types; and a connection is there only while the worker waits for it.    *)
DeliveryTypeOK ==
    /\ generation \in 1 .. faults + 1
    /\ faults \in 0 .. MaxFaults
    /\ past \in [Generations -> [log : Seq(Payloads), confirmed : Nat]]
    /\ link \in Link \union {None}
    /\ link # None => At(Worker, "sending")
    /\ left \subseteq Frame
    /\ up \in BOOLEAN
    /\ records \in Seq([body : Frame, mark : {None}])

Admitted(g) == IF g = generation THEN log ELSE past[g].log
Confirmed(g) == IF g = generation THEN confirmed ELSE past[g].confirmed

(* What is confirmed is in custody, for dead clients too, and the receipt  *)
(* a flush returns names the row of the frontier.                          *)
ConfirmedIsDurable ==
    /\ \A g \in Generations : \A n \in 1 .. Confirmed(g) :
         \E id \in DOMAIN records :
           records[id].body =
             [generation |-> g, sequence |-> n, bytes |-> Admitted(g)[n]]
    /\ confirmed > 0 =>
         /\ last_receipt.id \in DOMAIN records
         /\ records[last_receipt.id].body =
              [generation |-> generation, sequence |-> confirmed,
               bytes |-> log[confirmed]]

(* Frames that the daemon may still handle. *)
UnderWay == left \union Abandoned

(* Nothing but the oldest unconfirmed record is ever on its way, so a late *)
(* frame never gets ahead of one that was not stored.                      *)
OneAhead ==
    \A frame \in UnderWay \union {records[id].body : id \in DOMAIN records} :
        frame.sequence <= Confirmed(frame.generation) + 1

(* A frame that is still to be handled never meets other bytes under its   *)
(* identity: the store refuses no record of the SDK as a conflict.         *)
NoConflicts ==
    \A frame \in UnderWay :
        \A id \in Custody!Recorded(records, frame) : records[id].body = frame

(* Client, frames under way and custody agree on every record. *)
DeliveryInOrder == ConfirmedIsDurable /\ OneAhead /\ NoConflicts

(* Through lost replies, late frames, retries and crashes, custody holds   *)
(* of every generation a prefix of what it accepted, in order, each once.  *)
Abstract == INSTANCE DurableLog WITH
    admitted <- [g \in Generations |-> Admitted(g)],
    custody <- [id \in DOMAIN records |-> records[id].body],
    promised <- [g \in Generations |-> Confirmed(g)]

ImplementsDurableLog == Abstract!LogSpec

(* After the last fault, everything accepted is confirmed, unless the      *)
(* client is closed first.                                                 *)
AcceptedIsConfirmed == accepted > confirmed ~> (accepted = confirmed \/ closed)
=============================================================================
