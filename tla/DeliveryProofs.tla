--------------------------- MODULE DeliveryProofs ---------------------------
(***************************************************************************)
(* Delivery's safety for any payloads, slots and callers, and any number   *)
(* of faults: crashes, lost replies, late frames and failures of the store.*)
(*                                                                         *)
(* The client is in order whatever it is answered (SdkInv), so the record  *)
(* on the wire is always the oldest unconfirmed one.  Every frame and row  *)
(* is genuine: it carries what its generation accepted under its number,   *)
(* and is at most one ahead of what is confirmed.  What is confirmed is    *)
(* stored, so a frame that is not stored yet is the next one, and custody  *)
(* grows in order.                                                         *)
(***************************************************************************)
EXTENDS Delivery, SdkClientProofs

(* Oldest: the record that the worker sends, or waits for a reply to. *)
Oldest ==
    [generation |-> generation, sequence |-> confirmed + 1, bytes |-> log[confirmed + 1]]

Genuine(frame) ==
    LET g == frame.generation IN
    /\ g <= generation
    /\ frame.sequence \in 1 .. Confirmed(g) + 1
    /\ frame.sequence <= Len(Admitted(g))
    /\ frame.bytes = Admitted(g)[frame.sequence]

Body(id) == records[id].body

FramesGenuine ==
    /\ \A frame \in left : Genuine(frame)
    /\ \A id \in DOMAIN records : Genuine(Body(id))

(* An answer that is a receipt names a row that holds the oldest record. *)
Truthful(answer) ==
    answer # None =>
        /\ answer \in Receipt
        /\ answer.ours
        /\ answer.sequence = confirmed + 1
        /\ answer.id \in DOMAIN records
        /\ Body(answer.id) = Oldest

LinkOK == link # None => /\ link.frame = Oldest
                         /\ link.replied => Truthful(link.answer)

ReplyOK == pc[Worker] \in {"settle", "apply"} => Truthful(reply)

(* Lives to come have done nothing yet. *)
FutureBlank ==
    \A g \in Generations : g >= generation => past[g] = [log |-> <<>>, confirmed |-> 0]

LogCovers == \A g \in Generations : Confirmed(g) <= Len(Admitted(g))

(* Rows of one generation are in the order of their sequences. *)
RowsInOrder ==
    \A i, j \in DOMAIN records :
        i < j /\ Body(i).generation = Body(j).generation =>
          Body(i).sequence < Body(j).sequence

DeliveryInv ==
    /\ SdkInv
    /\ DeliveryTypeOK
    /\ FramesGenuine
    /\ LinkOK
    /\ ReplyOK
    /\ FutureBlank
    /\ LogCovers
    /\ RowsInOrder
    /\ ConfirmedIsDurable
-----------------------------------------------------------------------------
(* What the steps of the client are to the others *)

(* The parts of the client's state that the rest depends on: the worker    *)
(* between sending and settling, the frontier, and the log.                *)
Ordinary ==
    /\ pc'[Worker] = pc[Worker] \/ pc'[Worker] = Awoken(pc[Worker])
    /\ reply' = reply /\ confirmed' = confirmed /\ last_receipt' = last_receipt
    /\ log' = log \/ \E payload \in Payloads : log' = Append(log, payload)

LEMMA CallerView ==
    ASSUME SdkInv, NEW t \in Callers, Call(t) \/ CallerStep(t) PROVE Ordinary
  <1>1. /\ t # Worker /\ pc \in [Threads -> Labels] /\ Worker \in Threads
        /\ \A label : Goto(t, label) => pc'[Worker] = pc[Worker]
        /\ \A label : GotoNotifying(t, label) => pc'[Worker] = Awoken(pc[Worker])
    BY CallerIsThread DEF SdkInv, SdkTypeOK, Goto, GotoNotifying
  <1>2. CASE Call(t)
    BY <1>1, <1>2 DEF Call, TryRecord, FlushBegin, OtherBegin, frontier, control, Ordinary
  <1>3. CASE Leave(t)
    BY <1>1, <1>3 DEF Leave, frontier, control, Ordinary
  <1>4. CASE RecordInto(t)
    <2>1. pc[t] = "record" /\ arg[t] \in Payloads
      BY <1>4 DEF RecordInto, At, SdkInv, ControlOK, RecordHasPayload
    <2>2. PICK i \in free :
            RecordPanics(t, i) \/ RecordAccepted(t, i) \/ RecordRejected(t, i)
      BY <1>4 DEF RecordInto
    <2>3. CASE RecordPanics(t, i) \/ RecordRejected(t, i)
      BY <1>1, <2>3 DEF RecordPanics, RecordRejected, frontier, control, Ordinary
    <2>4. CASE RecordAccepted(t, i)
      BY <1>1, <2>1, <2>4 DEF RecordAccepted, control, Ordinary
    <2> QED
      BY <2>2, <2>3, <2>4
  <1>5. CASE Acquire(t) \/ FlushElapse(t)
    BY <1>1, <1>5 DEF Acquire, FlushElapse, frontier, control, Ordinary
  <1>6. CASE CloseFinish(t)
    BY <1>1, <1>6 DEF CloseFinish, frontier, Ordinary
  <1>7. CASE \E goal : FlushWait(t, goal)
    BY <1>1, <1>7 DEF FlushWait, frontier, control, Ordinary
  <1>8. CallerStep(t) => \/ RecordInto(t) \/ Leave(t)
                         \/ Acquire(t) \/ FlushElapse(t) \/ CloseFinish(t)
                         \/ \E goal : FlushWait(t, goal)
    BY DEF CallerStep, RecordRefused, StatusReport, FlushEnter, FlushRecheck,
       FlushLoop, FlushSucceed
  <1> QED
    BY <1>2, <1>3, <1>4, <1>5, <1>6, <1>7, <1>8

LEMMA CarriedOldest ==
    ASSUME SdkInv, pc[Worker] \in {"sending", "settle", "apply"}
    PROVE  /\ buffer[carried].sequence = confirmed + 1
           /\ buffer[carried].bytes = log[confirmed + 1]
           /\ confirmed \in Nat /\ confirmed + 1 \in 1 .. Len(log)
           /\ log \in Seq(Payloads) /\ log[confirmed + 1] \in Payloads
  <1>1. /\ 1 \in DOMAIN Charged /\ Charged[1] = carried
        /\ Len(ready) \in Nat /\ accepted = confirmed + Len(ready) + 1
        /\ buffer[carried].sequence = confirmed + 1
    BY CarriedFacts
  <1>2. accepted = Len(log) /\ Holds(buffer[carried], confirmed + 1)
    BY <1>1 DEF SdkInv, WindowOK, WindowContiguous
  <1>3. confirmed \in Nat /\ log \in Seq(Payloads)
    BY U64Assumption DEF SdkInv, SdkTypeOK
  <1> QED
    BY <1>1, <1>2, <1>3 DEF Holds

(* The worker confirms the oldest record, or leaves frontier and log alone. *)
ConfirmsOldest ==
    /\ pc[Worker] = "apply" /\ pc'[Worker] = "top"
    /\ reply # None
    /\ confirmed' = confirmed + 1
    /\ confirmed + 1 <= Len(log)
    /\ last_receipt' = reply
    /\ log' = log

Settled ==
    /\ UNCHANGED <<confirmed, last_receipt, log>>
    /\ pc[Worker] # "sending"
    /\ \/ pc'[Worker] \notin {"settle", "apply"}
       \/ pc'[Worker] = "apply" /\ pc[Worker] = "settle" /\ reply' = reply

LEMMA WorkerView ==
    ASSUME SdkInv, WorkerStep PROVE ConfirmsOldest \/ Settled
  <1>1. /\ pc \in [Threads -> Labels] /\ Worker \in Threads
        /\ \A label : Goto(Worker, label) => pc'[Worker] = label
        /\ \A label : GotoNotifying(Worker, label) => pc'[Worker] = label
    BY DEF SdkInv, SdkTypeOK, Goto, GotoNotifying, Threads
  <1>2. CASE Acquire(Worker)
    <2>1. /\ pc[Worker] \in {"flush", "woken", "late", "status", "close", "top",
                             "settle", "relock"}
          /\ pc'[Worker] = Inside[pc[Worker]]
          /\ UNCHANGED <<frontier, reply>>
      BY <1>1, <1>2 DEF Acquire, Inside, control
    <2>2. \/ pc'[Worker] \notin {"settle", "apply"}
          \/ pc'[Worker] = "apply" /\ pc[Worker] = "settle"
      BY <2>1 DEF Inside
    <2> QED
      BY <2>1, <2>2 DEF Settled, frontier
  <1>3. CASE WorkerExit \/ WorkerRest \/ BackoffElapse \/ BackoffDiscard
    BY <1>1, <1>3 DEF WorkerExit, WorkerRest, BackoffElapse, BackoffDiscard, At,
       frontier, Settled
  <1>4. CASE WorkerTake
    BY <1>1, <1>4 DEF WorkerTake, At, frontier, Settled
  <1>5. CASE WorkerRetry
    BY <1>1, <1>5 DEF WorkerRetry, At, frontier, Settled
  <1>6. CASE WorkerConfirm
    <2>1. pc[Worker] = "apply" /\ Confirming /\ CanRelease(buffer[carried])
      BY <1>6, CarriedFacts DEF WorkerConfirm, At, CanRelease
    <2>2. /\ buffer[carried].sequence = confirmed + 1
          /\ confirmed + 1 <= Len(log)
      BY <2>1, CarriedOldest
    <2> QED
      BY <1>1, <1>6, <2>1, <2>2 DEF WorkerConfirm, Confirming, ConfirmsOldest
  <1> QED
    BY <1>2, <1>3, <1>4, <1>5, <1>6 DEF WorkerStep-----------------------------------------------------------------------------
(* Custody *)

LEMMA RowFacts ==
    ASSUME DeliveryTypeOK
    PROVE  /\ Len(records) \in Nat /\ DOMAIN records = 1 .. Len(records)
           /\ \A id \in DOMAIN records :
                /\ records[id] \in [body : Frame, mark : {None}]
                /\ Body(id) \in Frame
                /\ Body(id).generation \in Generations
                /\ Body(id).sequence \in Nat
  <1> DEFINE R == [body : Frame, mark : {None}]
  <1>1. records \in Seq(R)
    BY DEF DeliveryTypeOK
  <1> HIDE DEF R
  <1>2. /\ Len(records) \in Nat /\ DOMAIN records = 1 .. Len(records)
        /\ \A id \in DOMAIN records : records[id] \in R
    BY <1>1
  <1>3. \A row \in R : row \in [body : Frame, mark : {None}] /\ row.body \in Frame
    BY DEF R
  <1>4. \A f \in Frame : f.generation \in Generations /\ f.sequence \in Nat
    BY DEF Frame
  <1> QED
    BY <1>2, <1>3, <1>4 DEF Body

LEMMA RecordedFacts ==
    ASSUME DeliveryTypeOK, NEW frame \in Frame
    PROVE  Custody!Recorded(records, frame) =
             {id \in DOMAIN records : /\ Body(id).generation = frame.generation
                                      /\ Body(id).sequence = frame.sequence}
  <1>1. \A f \in Frame : [g \in Frame |-> <<g.generation, g.sequence>>][f]
                           = <<f.generation, f.sequence>>
    OBVIOUS
  <1>2. \A id \in DOMAIN records : Body(id) \in Frame
    BY RowFacts
  <1> QED
    BY <1>1, <1>2 DEF Custody!Recorded, Custody!IdentityAt, Body

(* What handling a frame does to custody, and what its answer is worth. *)
Stored(frame) ==
    /\ records' = Append(records, AsRow(frame))
    /\ Custody!Recorded(records, frame) = {}

LEMMA StoreStep ==
    ASSUME DeliveryTypeOK, NEW frame \in Frame, NEW answer \in Answers(frame),
           Store(frame, answer)
    PROVE  /\ records' = records \/ Stored(frame)
           /\ faults' \in faults .. MaxFaults
           /\ answer # None =>
                \E id \in DOMAIN records' :
                    /\ answer = ReceiptFor(frame, id)
                    /\ records'[id].body = frame
  <1>1. CASE StoreDuplicate(frame, answer)
    <2>1. PICK id \in Custody!Recorded(records, frame) :
            answer = IF records[id].body = frame THEN ReceiptFor(frame, id) ELSE None
      BY <1>1 DEF StoreDuplicate
    <2>2. id \in DOMAIN records
      BY <2>1 DEF Custody!Recorded
    <2> QED
      BY <1>1, <2>1, <2>2 DEF StoreDuplicate, DeliveryTypeOK
  <1>2. ASSUME Custody!Record(AsRow(frame)) PROVE Stored(frame)
    BY <1>2 DEF Custody!Record, Stored, AsRow
  <1>3. CASE StoreRecord(frame, answer)
    <2>1. Stored(frame) /\ answer = ReceiptFor(frame, Len(records')) /\ faults' = faults
      BY <1>2, <1>3 DEF StoreRecord
    <2>2. /\ Len(records') \in DOMAIN records'
          /\ records'[Len(records')] = AsRow(frame)
      BY <2>1, RowFacts DEF Stored, DeliveryTypeOK
    <2> QED
      BY <2>1, <2>2 DEF AsRow, DeliveryTypeOK
  <1>4. CASE StoreFails(frame, answer)
    BY <1>2, <1>4, DeliveryAssumption DEF StoreFails, Fault, DeliveryTypeOK
  <1> QED
    BY <1>1, <1>3, <1>4 DEF Store

LEMMA StoredFacts ==
    ASSUME DeliveryTypeOK, NEW frame \in Frame, Stored(frame)
    PROVE  /\ records' \in Seq([body : Frame, mark : {None}])
           /\ Len(records') = Len(records) + 1
           /\ DOMAIN records' = 1 .. Len(records) + 1
           /\ \A id \in DOMAIN records : Body(id)' = Body(id)
           /\ records'[Len(records) + 1].body = frame
  <1>1. AsRow(frame) \in [body : Frame, mark : {None}]
    BY DEF AsRow
  <1> DEFINE R == [body : Frame, mark : {None}]
  <1>2. records \in Seq(R) /\ AsRow(frame) \in R
    BY <1>1 DEF DeliveryTypeOK
  <1> HIDE DEF R
  <1>3. /\ Append(records, AsRow(frame)) \in Seq(R)
        /\ Len(Append(records, AsRow(frame))) = Len(records) + 1
        /\ Len(records) \in Nat
        /\ \A id \in 1 .. Len(records) : Append(records, AsRow(frame))[id] = records[id]
        /\ Append(records, AsRow(frame))[Len(records) + 1] = AsRow(frame)
    BY <1>2, AppendFacts
  <1>4. DOMAIN records = 1 .. Len(records)
    BY <1>2
  <1>5. DOMAIN Append(records, AsRow(frame)) = 1 .. Len(records) + 1
    BY <1>3
  <1>6. records' = Append(records, AsRow(frame))
    BY DEF Stored
  <1>7. \A id \in DOMAIN records : records'[id] = records[id]
    BY <1>3, <1>4, <1>6
  <1>8. records'[Len(records) + 1].body = frame
    BY <1>3, <1>6 DEF AsRow
  <1>9. records' \in Seq(R) /\ Len(records') = Len(records) + 1
        /\ DOMAIN records' = 1 .. Len(records) + 1
    BY <1>3, <1>5, <1>6
  <1> QED
    BY <1>7, <1>8, <1>9 DEF Body, R

(* A genuine frame that is not stored yet is the next of its generation,   *)
(* and every one before it is stored.                                      *)
LEMMA MissingIsNext ==
    ASSUME DeliveryInv, NEW frame \in Frame, Genuine(frame),
           Custody!Recorded(records, frame) = {}
    PROVE  /\ frame.sequence = Confirmed(frame.generation) + 1
           /\ \A id \in DOMAIN records :
                Body(id).generation = frame.generation => Body(id).sequence < frame.sequence
  <1> DEFINE g == frame.generation
  <1>1. g \in Generations /\ frame.sequence \in Nat /\ Confirmed(g) \in Nat
    BY U64Assumption DEF Frame, DeliveryInv, DeliveryTypeOK, SdkInv, SdkTypeOK, Confirmed
  <1>2. \A id \in DOMAIN records :
          ~(Body(id).generation = g /\ Body(id).sequence = frame.sequence)
    BY RecordedFacts DEF DeliveryInv
  <1>3. frame.sequence \notin 1 .. Confirmed(g)
    <2> SUFFICES ASSUME frame.sequence \in 1 .. Confirmed(g) PROVE FALSE
      OBVIOUS
    <2>1. PICK id \in DOMAIN records :
            Body(id) = [generation |-> g, sequence |-> frame.sequence,
                        bytes |-> Admitted(g)[frame.sequence]]
      BY <1>1 DEF DeliveryInv, ConfirmedIsDurable, Body
    <2> QED
      BY <1>2, <2>1
  <1>4. frame.sequence = Confirmed(g) + 1
    BY <1>1, <1>3 DEF Genuine
  <1>5. ASSUME NEW id \in DOMAIN records, Body(id).generation = g
        PROVE  Body(id).sequence < frame.sequence
    <2>1. Body(id).sequence \in 1 .. Confirmed(g) + 1
      BY <1>5 DEF DeliveryInv, FramesGenuine, Genuine
    <2> QED
      BY <1>1, <1>2, <1>4, <1>5, <2>1
  <1> QED
    BY <1>4, <1>5-----------------------------------------------------------------------------
(* What growth keeps *)

LEMMA HistoryFacts ==
    ASSUME SdkInv, DeliveryTypeOK
    PROVE  /\ generation \in Generations /\ generation \in Nat
           /\ Generations \subseteq Nat
           /\ \A g \in Generations : /\ Confirmed(g) \in Nat
                                     /\ Admitted(g) \in Seq(Payloads)
                                     /\ Len(Admitted(g)) \in Nat
                                     /\ past[g].log \in Seq(Payloads)
                                     /\ past[g].confirmed \in Nat
  <1>1. generation \in Generations /\ generation \in Nat /\ Generations \subseteq Nat
    BY DeliveryAssumption DEF DeliveryTypeOK, Generations
  <1>2. log \in Seq(Payloads) /\ confirmed \in Nat
    BY U64Assumption DEF SdkInv, SdkTypeOK
  <1>3. \A g \in Generations : past[g].log \in Seq(Payloads) /\ past[g].confirmed \in Nat
    BY DEF DeliveryTypeOK
  <1>4. \A g \in Generations : Confirmed(g) \in Nat
    BY <1>2, <1>3 DEF Confirmed
  <1>5. \A g \in Generations : Admitted(g) \in Seq(Payloads)
    BY <1>2, <1>3 DEF Admitted
  <1>6. \A g \in Generations : Len(Admitted(g)) \in Nat
    BY <1>5
  <1> QED
    BY <1>1, <1>3, <1>4, <1>5, <1>6

(* Logs and frontiers of all lives only grow. *)
Grows ==
    /\ generation <= generation'
    /\ \A g \in Generations :
         /\ Confirmed(g) <= Confirmed(g)' /\ Confirmed(g)' \in Nat
         /\ Len(Admitted(g)) <= Len(Admitted(g)') /\ Len(Admitted(g)') \in Nat
         /\ \A n \in 1 .. Len(Admitted(g)) : Admitted(g)'[n] = Admitted(g)[n]

(* Rows stay where they are. *)
RowsGrow ==
    \A id \in DOMAIN records :
        id \in DOMAIN records' /\ records'[id].body = records[id].body

LEMMA GenuineKept ==
    ASSUME DeliveryInv, Grows, generation' \in Nat, NEW frame \in Frame, Genuine(frame)
    PROVE  Genuine(frame)'
  <1> DEFINE g == frame.generation
  <1>1. g \in Generations /\ g \in Nat /\ frame.sequence \in Nat /\ generation \in Nat
        /\ Confirmed(g) \in Nat /\ Len(Admitted(g)) \in Nat
    BY HistoryFacts DEF Frame, DeliveryInv
  <1>2. /\ g <= generation'
        /\ frame.sequence \in 1 .. Confirmed(g)' + 1
        /\ frame.sequence <= Len(Admitted(g)')
        /\ frame.bytes = Admitted(g)'[frame.sequence]
    BY <1>1 DEF Grows, Genuine
  <1> QED
    BY <1>2 DEF Genuine

LEMMA FramesKept ==
    ASSUME DeliveryInv, Grows, generation' \in Nat,
           \A frame \in left' : frame \in Frame /\ Genuine(frame),
           \A id \in DOMAIN records' :
             records'[id].body \in Frame /\ Genuine(records'[id].body)
    PROVE  FramesGenuine'
  <1>1. \A frame \in left' : Genuine(frame)'
    BY GenuineKept
  <1>2. ASSUME NEW id \in DOMAIN records' PROVE Genuine(Body(id))'
    <2>1. PICK f \in Frame : f = records'[id].body
      OBVIOUS
    <2>2. Genuine(f)
      BY <2>1
    <2>3. Genuine(f)'
      BY <2>2, GenuineKept
    <2> QED
      BY <2>1, <2>3 DEF Genuine, Body, Confirmed, Admitted
  <1> QED
    BY <1>1, <1>2 DEF FramesGenuine(* What was confirmed stays in custody. *)
LEMMA RowsStayDurable ==
    ASSUME DeliveryInv, Grows, RowsGrow, NEW g \in Generations, NEW n \in 1 .. Confirmed(g)
    PROVE  /\ \E id \in DOMAIN records' :
                records'[id].body =
                  [generation |-> g, sequence |-> n, bytes |-> Admitted(g)'[n]]
           /\ n \in 1 .. Len(Admitted(g)) /\ Admitted(g)'[n] = Admitted(g)[n]
  <1>1. PICK id \in DOMAIN records :
          records[id].body = [generation |-> g, sequence |-> n, bytes |-> Admitted(g)[n]]
    BY DEF DeliveryInv, ConfirmedIsDurable
  <1>2. n \in 1 .. Len(Admitted(g))
    BY HistoryFacts DEF DeliveryInv, LogCovers
  <1>3. Admitted(g)'[n] = Admitted(g)[n]
    BY <1>2 DEF Grows
  <1> QED
    BY <1>1, <1>2, <1>3 DEF RowsGrow

(* The frontiers being what they were, what is confirmed stays durable. *)
LEMMA DurableKept ==
    ASSUME DeliveryInv, Grows, RowsGrow, generation' = generation,
           confirmed' = confirmed, last_receipt' = last_receipt, past' = past
    PROVE  ConfirmedIsDurable'
  <1>1. ASSUME NEW g \in Generations, NEW n \in 1 .. Confirmed(g)
        PROVE  \E id \in DOMAIN records' :
                 records'[id].body = [generation |-> g, sequence |-> n, bytes |-> Admitted(g)'[n]]
    BY RowsStayDurable
  <1>2. \A g \in Generations : Confirmed(g)' = Confirmed(g)
    BY DEF Confirmed
  <1>3. ASSUME confirmed > 0
        PROVE  /\ last_receipt.id \in DOMAIN records'
               /\ records'[last_receipt.id].body =
                    [generation |-> generation, sequence |-> confirmed,
                     bytes |-> log'[confirmed]]
    <2>1. /\ last_receipt.id \in DOMAIN records
          /\ records[last_receipt.id].body =
               [generation |-> generation, sequence |-> confirmed, bytes |-> log[confirmed]]
      BY <1>3 DEF DeliveryInv, ConfirmedIsDurable
    <2>2. /\ generation \in Generations /\ Admitted(generation) = log
          /\ Admitted(generation)' = log' /\ Confirmed(generation) = confirmed
          /\ confirmed \in Nat
      BY HistoryFacts DEF Admitted, Confirmed, DeliveryInv
    <2>3. confirmed \in 1 .. Len(log)
      BY <1>3, <2>2, HistoryFacts DEF DeliveryInv, LogCovers
    <2>4. log'[confirmed] = log[confirmed]
      BY <2>2, <2>3 DEF Grows
    <2> QED
      BY <2>1, <2>4 DEF RowsGrow
  <1> QED
    BY <1>1, <1>2, <1>3 DEF ConfirmedIsDurable

LEMMA TruthfulKept ==
    ASSUME RowsGrow, Oldest' = Oldest, confirmed' = confirmed, NEW answer, Truthful(answer)
    PROVE  Truthful(answer)'
  BY DEF Truthful, RowsGrow, Body

LEMMA ReplyKept ==
    ASSUME DeliveryInv, RowsGrow, Oldest' = Oldest, confirmed' = confirmed,
           reply' = reply,
           pc'[Worker] \in {"settle", "apply"} => pc[Worker] \in {"settle", "apply"}
    PROVE  ReplyOK'
  <1> SUFFICES ASSUME pc'[Worker] \in {"settle", "apply"} PROVE Truthful(reply)'
    BY DEF ReplyOK
  <1>1. PICK answer : answer = reply
    OBVIOUS
  <1>2. Truthful(answer)
    BY <1>1 DEF DeliveryInv, ReplyOK
  <1>3. Truthful(answer)'
    BY <1>2, TruthfulKept
  <1> QED
    BY <1>1, <1>3 DEF Truthful

LEMMA LinkKept ==
    ASSUME DeliveryInv, RowsGrow, Oldest' = Oldest, confirmed' = confirmed,
           link' = link
    PROVE  LinkOK'
  <1> SUFFICES ASSUME link # None
               PROVE  link.frame = Oldest /\ (link.replied => Truthful(link.answer)')
    BY DEF LinkOK
  <1>1. ASSUME link.replied PROVE Truthful(link.answer)'
    <2>1. PICK answer : answer = link.answer
      OBVIOUS
    <2>2. Truthful(answer)
      BY <1>1, <2>1 DEF DeliveryInv, LinkOK
    <2>3. Truthful(answer)'
      BY <2>2, TruthfulKept
    <2> QED
      BY <2>1, <2>3 DEF Truthful
  <1> QED
    BY <1>1 DEF DeliveryInv, LinkOK

LEMMA OldestKept ==
    ASSUME SdkInv, pc[Worker] \in {"sending", "settle", "apply"},
           generation' = generation, confirmed' = confirmed,
           log' = log \/ \E payload \in Payloads : log' = Append(log, payload)
    PROVE  Oldest' = Oldest
  <1>1. log \in Seq(Payloads) /\ confirmed + 1 \in 1 .. Len(log)
    BY CarriedOldest
  <1>2. log'[confirmed + 1] = log[confirmed + 1]
    BY <1>1, AppendFacts
  <1> QED
    BY <1>2 DEF Oldest

LEMMA OrderKept ==
    ASSUME DeliveryInv, NEW frame \in Frame, Genuine(frame),
           records' = records \/ Stored(frame)
    PROVE  RowsInOrder'
  <1>1. CASE records' = records
    BY <1>1 DEF DeliveryInv, RowsInOrder, Body
  <1>2. CASE Stored(frame)
    <2> DEFINE N == Len(records) + 1
    <2>1. /\ DOMAIN records' = 1 .. N /\ DOMAIN records = 1 .. N - 1 /\ N \in Nat
          /\ \A id \in DOMAIN records : records'[id].body = Body(id)
          /\ records'[N].body = frame
      BY <1>2, StoredFacts, RowFacts DEF DeliveryInv, Body
    <2>2. \A id \in DOMAIN records :
            Body(id).generation = frame.generation => Body(id).sequence < frame.sequence
      BY <1>2, MissingIsNext DEF Stored
    <2> HIDE DEF N
    <2>3. ASSUME NEW i \in DOMAIN records', NEW j \in DOMAIN records', i < j,
                 records'[i].body.generation = records'[j].body.generation
          PROVE  records'[i].body.sequence < records'[j].body.sequence
      <3>1. i \in DOMAIN records
        BY <2>1, <2>3
      <3>2. CASE j = N
        BY <2>1, <2>2, <2>3, <3>1, <3>2
      <3>3. CASE j # N
        <4>1. j \in DOMAIN records
          BY <2>1, <3>3
        <4> QED
          BY <2>1, <2>3, <3>1, <4>1 DEF DeliveryInv, RowsInOrder
      <3> QED
        BY <3>2, <3>3
    <2> QED
      BY <2>3 DEF RowsInOrder, Body
  <1> QED
    BY <1>1, <1>2-----------------------------------------------------------------------------
(* The steps of network and daemon *)

LEMMA OldestGenuine ==
    ASSUME SdkInv, DeliveryTypeOK, pc[Worker] \in {"sending", "settle", "apply"}
    PROVE  Oldest \in Frame /\ Genuine(Oldest)
  <1>1. /\ confirmed \in Nat /\ confirmed + 1 \in 1 .. Len(log)
        /\ log[confirmed + 1] \in Payloads /\ Len(log) \in Nat
    BY CarriedOldest
  <1>2. generation \in Generations /\ generation \in Nat
    BY HistoryFacts
  <1> QED
    BY <1>1, <1>2 DEF Oldest, Frame, Genuine, Confirmed, Admitted

LEMMA LinkFacts ==
    ASSUME DeliveryInv, link # None
    PROVE  /\ pc[Worker] = "sending" /\ link \in Link
           /\ link.frame = Oldest /\ link.frame \in Frame /\ Genuine(link.frame)
           /\ link.replied => Truthful(link.answer)
  <1>1. pc[Worker] = "sending" /\ link \in Link /\ link.frame = Oldest
        /\ (link.replied => Truthful(link.answer))
    BY DEF DeliveryInv, DeliveryTypeOK, LinkOK, At
  <1> QED
    BY <1>1, OldestGenuine DEF DeliveryInv

(* A step that leaves the histories of all lives alone. *)
LEMMA HistorySame ==
    ASSUME DeliveryInv,
           UNCHANGED <<confirmed, last_receipt, log, generation, past>>
    PROVE  /\ Grows /\ generation' \in Nat
           /\ FutureBlank' /\ LogCovers'
           /\ Oldest' = Oldest
           /\ \A frame \in Frame : Genuine(frame) => Genuine(frame)'
  <1>1. \A g \in Generations : Confirmed(g)' = Confirmed(g) /\ Admitted(g)' = Admitted(g)
    BY DEF Confirmed, Admitted
  <1>2. Grows /\ generation' \in Nat
    BY <1>1, HistoryFacts DEF Grows, DeliveryInv
  <1>3. FutureBlank' /\ LogCovers'
    BY <1>1 DEF FutureBlank, LogCovers, DeliveryInv
  <1> QED
    BY <1>2, <1>3, GenuineKept DEF Oldest

(* Handling a genuine frame, whoever waits for the answer. *)
LEMMA HandledInv ==
    ASSUME DeliveryInv, NEW frame \in Frame, Genuine(frame),
           NEW answer \in Answers(frame), Store(frame, answer),
           UNCHANGED <<sdkVars, peers, left, up>>,
           \/ link' = link
           \/ /\ link # None /\ frame = link.frame
              /\ link' = [link EXCEPT !.replied = TRUE, !.answer = answer]
    PROVE  DeliveryInv'
  <1>1. /\ records' = records \/ Stored(frame)
        /\ faults' \in faults .. MaxFaults
        /\ answer # None => \E id \in DOMAIN records' :
                              /\ answer = ReceiptFor(frame, id)
                              /\ records'[id].body = frame
    BY StoreStep DEF DeliveryInv
  <1>2. UNCHANGED <<confirmed, last_receipt, log, generation, past, pc, reply, left, up>>
    BY DEF sdkVars, frontier, control, peers
  <1>3. SdkInv'
    BY StutterInv DEF DeliveryInv
  <1>4. /\ records' \in Seq([body : Frame, mark : {None}])
        /\ RowsGrow
        /\ \A id \in DOMAIN records' :
             records'[id].body \in Frame /\ Genuine(records'[id].body)
    <2>1. CASE records' = records
      BY <2>1, RowFacts DEF DeliveryInv, DeliveryTypeOK, RowsGrow, FramesGenuine, Body
    <2>2. CASE Stored(frame)
      <3>1. /\ records' \in Seq([body : Frame, mark : {None}])
            /\ DOMAIN records' = 1 .. Len(records) + 1
            /\ DOMAIN records = 1 .. Len(records) /\ Len(records) \in Nat
            /\ \A id \in DOMAIN records : records'[id].body = records[id].body
            /\ records'[Len(records) + 1].body = frame
        BY <2>2, StoredFacts, RowFacts DEF DeliveryInv, Body
      <3>2. \A id \in DOMAIN records :
              records[id].body \in Frame /\ Genuine(records[id].body)
        BY RowFacts DEF DeliveryInv, FramesGenuine, Body
      <3>3. ASSUME NEW id \in DOMAIN records'
            PROVE  records'[id].body \in Frame /\ Genuine(records'[id].body)
        <4>1. CASE id = Len(records) + 1
          BY <3>1, <4>1
        <4>2. CASE id # Len(records) + 1
          <5>1. id \in DOMAIN records
            BY <3>1, <4>2
          <5>2. PICK f : f = records[id].body
            OBVIOUS
          <5>3. f \in Frame /\ Genuine(f) /\ records'[id].body = f
            BY <3>1, <3>2, <5>1, <5>2
          <5> QED
            BY <5>3
        <4> QED
          BY <4>1, <4>2
      <3> QED
        BY <3>1, <3>3 DEF RowsGrow
    <2> QED
      BY <1>1, <2>1, <2>2
  <1>5. /\ Grows /\ generation' \in Nat /\ FutureBlank' /\ LogCovers'
        /\ Oldest' = Oldest
    BY <1>2, HistorySame
  <1>6. FramesGenuine'
    <2>1. \A f \in left' : f \in Frame /\ Genuine(f)
      BY <1>2 DEF DeliveryInv, DeliveryTypeOK, FramesGenuine
    <2> QED
      BY <1>4, <1>5, <2>1, FramesKept
  <1>7. RowsInOrder'
    BY <1>1, OrderKept
  <1>8. ConfirmedIsDurable'
    BY <1>2, <1>4, <1>5, DurableKept
  <1>9. ASSUME link # None, frame = link.frame
        PROVE  answer \in Receipt \union {None} /\ Truthful(answer)'
    <2>1. /\ frame = Oldest /\ frame.generation = generation
          /\ frame.sequence = confirmed + 1 /\ frame.sequence \in Nat
      BY <1>9, LinkFacts DEF Oldest, Frame
    <2>2. CASE answer = None
      BY <2>2 DEF Truthful
    <2>3. CASE answer # None
      <3>1. PICK id \in DOMAIN records' :
              answer = ReceiptFor(frame, id) /\ records'[id].body = frame
        BY <1>1, <2>3
      <3>2. id \in Nat
        BY <1>4
      <3>3. /\ answer \in Receipt /\ answer.ours
            /\ answer.sequence = confirmed + 1 /\ answer.id = id
        BY <2>1, <3>1, <3>2 DEF ReceiptFor, Receipt
      <3> QED
        BY <1>2, <1>5, <2>1, <3>1, <3>3 DEF Truthful, Body
    <2> QED
      BY <2>2, <2>3
  <1>10. ReplyOK'
    BY <1>2, <1>4, <1>5, ReplyKept
  <1>11. CASE link' = link
    <2>1. LinkOK'
      BY <1>2, <1>4, <1>5, <1>11, LinkKept
    <2>2. DeliveryTypeOK'
      BY <1>1, <1>2, <1>4, <1>11 DEF DeliveryInv, DeliveryTypeOK, At
    <2> QED
      BY <1>3, <1>5, <1>6, <1>7, <1>8, <1>10, <2>1, <2>2 DEF DeliveryInv
  <1>12. CASE /\ link # None /\ frame = link.frame
              /\ link' = [link EXCEPT !.replied = TRUE, !.answer = answer]
    <2>1. /\ link' \in Link /\ link'.frame = link.frame
          /\ link'.answer = answer /\ pc'[Worker] = "sending"
      BY <1>2, <1>9, <1>12, LinkFacts DEF Link
    <2>2. LinkOK'
      BY <1>5, <1>9, <1>12, <2>1, LinkFacts DEF LinkOK, Truthful
    <2>3. DeliveryTypeOK'
      BY <1>1, <1>2, <1>4, <2>1 DEF DeliveryInv, DeliveryTypeOK, At
    <2> QED
      BY <1>3, <1>5, <1>6, <1>7, <1>8, <1>10, <2>2, <2>3 DEF DeliveryInv
  <1> QED
    BY <1>11, <1>12

LEMMA Between ==
    ASSUME NEW a \in Nat, NEW b \in Nat, NEW c \in Nat, 1 <= a, a <= b + 1, b <= c
    PROVE  a \in 1 .. c + 1
  OBVIOUS

(* A step of the network: what a client accepted, what is stored and what  *)
(* is confirmed stay as they are.                                          *)
LEMMA NetworkInv ==
    ASSUME DeliveryInv, SdkInv',
           UNCHANGED <<confirmed, last_receipt, log, generation, past, records>>,
           \A frame \in left' : frame \in left \/ (link # None /\ frame = link.frame),
           up' \in BOOLEAN, faults' \in faults .. MaxFaults,
           link' \in Link \union {None}, link' # None => pc'[Worker] = "sending",
           LinkOK', ReplyOK'
    PROVE  DeliveryInv'
  <1>1. /\ Grows /\ generation' \in Nat /\ FutureBlank' /\ LogCovers'
    BY HistorySame
  <1>2. \A frame \in left' : frame \in Frame /\ Genuine(frame)
    BY LinkFacts DEF DeliveryInv, DeliveryTypeOK, FramesGenuine
  <1>3. \A id \in DOMAIN records' :
          records'[id].body \in Frame /\ Genuine(records'[id].body)
    BY RowFacts DEF DeliveryInv, FramesGenuine, Body
  <1>4. FramesGenuine'
    BY <1>1, <1>2, <1>3, FramesKept
  <1>5. RowsGrow
    BY DEF RowsGrow
  <1>6. ConfirmedIsDurable'
    BY <1>1, <1>5, DurableKept
  <1>7. RowsInOrder'
    BY DEF DeliveryInv, RowsInOrder, Body
  <1>8. DeliveryTypeOK'
    <2>1. generation' \in 1 .. faults' + 1 /\ faults' \in 0 .. MaxFaults
      <3>1. /\ generation \in 1 .. faults + 1 /\ faults \in 0 .. MaxFaults
            /\ generation' = generation /\ faults' \in faults .. MaxFaults
        BY DEF DeliveryInv, DeliveryTypeOK
      <3>2. MaxFaults \in Nat
        BY DeliveryAssumption
      <3>3. faults \in Nat /\ faults' \in Nat /\ faults <= faults' /\ faults' <= MaxFaults
        BY <3>1, <3>2
      <3>4. faults' \in 0 .. MaxFaults
        BY <3>2, <3>3
      <3>5. generation \in Nat /\ 1 <= generation /\ generation <= faults + 1
        BY <3>1, <3>3
      <3>6. generation \in 1 .. faults' + 1
        BY <3>3, <3>5, Between
      <3> QED
        BY <3>1, <3>4, <3>6
    <2>2. left' \subseteq Frame
      BY <1>2
    <2>3. /\ past' \in [Generations -> [log : Seq(Payloads), confirmed : Nat]]
          /\ records' \in Seq([body : Frame, mark : {None}])
      BY DEF DeliveryInv, DeliveryTypeOK
    <2> QED
      BY <2>1, <2>2, <2>3 DEF DeliveryTypeOK, At
  <1> QED
    BY <1>1, <1>4, <1>6, <1>7, <1>8 DEF DeliveryInv

LEMMA HandleInv == DeliveryInv /\ Handle => DeliveryInv'
  <1> SUFFICES ASSUME DeliveryInv, Handle PROVE DeliveryInv'
    OBVIOUS
  <1>1. PICK answer \in Answers(link.frame) :
          /\ Store(link.frame, answer)
          /\ link' = [link EXCEPT !.replied = TRUE, !.answer = answer]
    BY DEF Handle
  <1>2. link # None /\ UNCHANGED <<sdkVars, peers, left, up>>
    BY DEF Handle
  <1>3. PICK frame \in Frame : frame = link.frame /\ Genuine(frame)
    BY <1>2, LinkFacts
  <1> QED
    BY <1>1, <1>2, <1>3, HandledInv

LEMMA HandleLateInv ==
    ASSUME DeliveryInv, NEW frame \in left, HandleLate(frame) PROVE DeliveryInv'
  <1>1. PICK answer \in Answers(frame) : Store(frame, answer)
    BY DEF HandleLate
  <1>2. frame \in Frame /\ Genuine(frame)
    BY DEF DeliveryInv, DeliveryTypeOK, FramesGenuine
  <1>3. UNCHANGED <<sdkVars, peers, left, link, up>>
    BY DEF HandleLate, network
  <1> QED
    BY <1>1, <1>2, <1>3, HandledInv

(* What does not touch the client, its links or the store. *)
LEMMA AsideInv ==
    ASSUME DeliveryInv, UNCHANGED <<sdkVars, peers, records>>,
           link' = link, left' \subseteq left, up' \in BOOLEAN, faults' = faults
    PROVE  DeliveryInv'
  <1>1. UNCHANGED <<confirmed, last_receipt, log, generation, past, pc, reply>>
    BY DEF sdkVars, frontier, control, peers
  <1>2. SdkInv'
    BY StutterInv DEF DeliveryInv
  <1>3. RowsGrow /\ Oldest' = Oldest
    BY <1>1, HistorySame DEF RowsGrow
  <1>4. LinkOK' /\ ReplyOK'
    BY <1>1, <1>3, LinkKept, ReplyKept
  <1>5. /\ faults' \in faults .. MaxFaults /\ link' \in Link \union {None}
        /\ link' # None => pc'[Worker] = "sending"
    BY <1>1 DEF DeliveryInv, DeliveryTypeOK, At
  <1>6. \A frame \in left' : frame \in left \/ (link # None /\ frame = link.frame)
    OBVIOUS
  <1> QED
    BY <1>1, <1>2, <1>4, <1>5, <1>6, NetworkInv

LEMMA ConnectInv == DeliveryInv /\ Connect => DeliveryInv'
  <1> SUFFICES ASSUME DeliveryInv, Connect PROVE DeliveryInv'
    OBVIOUS
  <1>1. /\ UNCHANGED <<sdkVars, peers, records>> /\ pc[Worker] = "sending"
        /\ left' = left /\ up' = up /\ faults' = faults
    BY DEF Connect, At
  <1>2. UNCHANGED <<confirmed, last_receipt, log, generation, past, pc, reply>>
    BY <1>1 DEF sdkVars, frontier, control, peers
  <1>3. SdkInv'
    BY <1>1, StutterInv DEF DeliveryInv
  <1>4. RowsGrow /\ Oldest' = Oldest
    BY <1>1, <1>2, HistorySame DEF RowsGrow
  <1>5. ReplyOK'
    BY <1>2, <1>4, ReplyKept
  <1>6. link' = [frame |-> Oldest, replied |-> FALSE, answer |-> None]
    BY <1>1, CarriedOldest DEF Connect, Oldest, DeliveryInv
  <1>7. link' \in Link /\ LinkOK'
    BY <1>1, <1>4, <1>6, OldestGenuine DEF Link, LinkOK, DeliveryInv
  <1>8. /\ up' \in BOOLEAN /\ faults' \in faults .. MaxFaults
        /\ pc'[Worker] = "sending"
        /\ \A frame \in left' : frame \in left \/ (link # None /\ frame = link.frame)
    BY <1>1, <1>2 DEF DeliveryInv, DeliveryTypeOK
  <1> QED
    BY <1>1, <1>2, <1>3, <1>5, <1>7, <1>8, NetworkInv

(* The end of an attempt, with whatever answer. *)
LEMMA AttemptEnds ==
    ASSUME DeliveryInv, NEW answer \in Receipt \union {None}, Answer(answer),
           Truthful(answer), UNCHANGED <<peers, records>>, link' = None,
           \A frame \in left' : frame \in left \/ (link # None /\ frame = link.frame),
           up' = up, faults' \in faults .. MaxFaults
    PROVE  DeliveryInv'
  <1>1. /\ UNCHANGED <<confirmed, last_receipt, log, generation, past>>
        /\ reply' = answer
    BY DEF Answer, frontier, peers
  <1>2. SdkInv'
    BY AnswerInv DEF DeliveryInv
  <1>3. RowsGrow /\ Oldest' = Oldest
    BY <1>1, HistorySame DEF RowsGrow
  <1>4. Truthful(answer)'
    BY <1>1, <1>3, TruthfulKept
  <1>5. LinkOK' /\ ReplyOK'
    BY <1>1, <1>4 DEF LinkOK, ReplyOK, Truthful
  <1>6. up' \in BOOLEAN
    BY DEF DeliveryInv, DeliveryTypeOK
  <1> QED
    BY <1>1, <1>2, <1>5, <1>6, NetworkInv

LEMMA ReceiveInv == DeliveryInv /\ Receive => DeliveryInv'
  <1> SUFFICES ASSUME DeliveryInv, Receive PROVE DeliveryInv'
    OBVIOUS
  <1>1. PICK answer \in Receipt \union {None} : answer = link.answer
    BY LinkFacts DEF Receive, Link
  <1>2. Truthful(answer) /\ Answer(answer)
    BY <1>1, LinkFacts DEF Receive
  <1>3. /\ UNCHANGED <<peers, records>> /\ up' = up /\ link' = None
        /\ \A frame \in left' : frame \in left \/ (link # None /\ frame = link.frame)
        /\ faults' \in faults .. MaxFaults
    BY DEF Receive, DeliveryInv, DeliveryTypeOK
  <1> QED
    BY <1>2, <1>3, AttemptEnds

LEMMA FailedAttemptInv ==
    ASSUME DeliveryInv, GiveUp \/ ConnectRefused PROVE DeliveryInv'
  <1>1. Answer(None) /\ Truthful(None)
    BY DEF GiveUp, ConnectRefused, Truthful
  <1>2. /\ UNCHANGED <<peers, records>> /\ up' = up /\ link' = None
        /\ \A frame \in left' : frame \in left \/ (link # None /\ frame = link.frame)
    BY DEF GiveUp, ConnectRefused, Abandoned, network
  <1>3. faults' \in faults .. MaxFaults
    BY DeliveryAssumption DEF GiveUp, ConnectRefused, Fault, DeliveryInv, DeliveryTypeOK
  <1> QED
    BY <1>1, <1>2, <1>3, AttemptEnds

LEMMA DaemonStopsInv == DeliveryInv /\ DaemonStops => DeliveryInv'
  <1> SUFFICES ASSUME DeliveryInv, DaemonStops PROVE DeliveryInv'
    OBVIOUS
  <1>1. /\ UNCHANGED <<sdkVars, peers, records>> /\ left' = {} /\ up' = FALSE
        /\ \/ link' = link
           \/ link # None /\ link' = [link EXCEPT !.replied = TRUE, !.answer = None]
    BY DEF DaemonStops
  <1>2. UNCHANGED <<confirmed, last_receipt, log, generation, past, pc, reply>>
    BY <1>1 DEF sdkVars, frontier, control, peers
  <1>3. SdkInv'
    BY <1>1, StutterInv DEF DeliveryInv
  <1>4. RowsGrow /\ Oldest' = Oldest
    BY <1>1, <1>2, HistorySame DEF RowsGrow
  <1>5. ReplyOK'
    BY <1>2, <1>4, ReplyKept
  <1>6. link' \in Link \union {None} /\ LinkOK' /\ (link' # None => pc'[Worker] = "sending")
    <2>1. CASE link' = link
      BY <1>2, <1>4, <2>1, LinkKept DEF DeliveryInv, DeliveryTypeOK, At
    <2>2. CASE link # None /\ link' = [link EXCEPT !.replied = TRUE, !.answer = None]
      <3>1. /\ link' \in Link /\ link'.frame = Oldest /\ link'.answer = None
            /\ pc'[Worker] = "sending"
        BY <1>2, <2>2, LinkFacts DEF Link
      <3> QED
        BY <1>4, <3>1 DEF LinkOK, Truthful
    <2> QED
      BY <1>1, <2>1, <2>2
  <1>7. faults' \in faults .. MaxFaults
    BY DeliveryAssumption DEF DaemonStops, Fault, DeliveryInv, DeliveryTypeOK
  <1> QED
    BY <1>1, <1>2, <1>3, <1>5, <1>6, <1>7, NetworkInv
-----------------------------------------------------------------------------
(* The steps of the client *)

LEMMA SpuriousView ==
    ASSUME SdkInv, NEW t \in Threads, Spurious(t) PROVE Ordinary \/ Settled
  <1>1. /\ pc \in [Threads -> Labels] /\ Worker \in Threads
        /\ pc[t] \in {"waiting", "resting", "backoff"}
        /\ pc' = [pc EXCEPT ![t] = Awoken(pc[t])]
        /\ UNCHANGED <<frontier, control>>
    BY DEF Spurious, Goto, SdkInv, SdkTypeOK, Threads
  <1>2. CASE t = Worker
    <2>1. pc'[Worker] \in {"woken", "top", "relock"}
      BY <1>1, <1>2 DEF Awoken
    <2> QED
      BY <1>1, <1>2, <2>1 DEF Settled, frontier
  <1>3. CASE t # Worker
    BY <1>1, <1>3 DEF Ordinary, frontier, control
  <1> QED
    BY <1>2, <1>3

(* The client stays what it is to the others, but may accept a record. *)
LEMMA QuietMoveInv ==
    ASSUME DeliveryInv, SdkInv', Ordinary \/ Settled,
           UNCHANGED <<peers, network, up, records, faults>>
    PROVE  DeliveryInv'
  <1>1. /\ UNCHANGED <<confirmed, last_receipt, generation, past, link, left>>
        /\ log' = log \/ \E payload \in Payloads : log' = Append(log, payload)
    BY DEF Ordinary, Settled, peers, network
  <1>2. log \in Seq(Payloads) /\ generation \in Nat /\ generation \in Generations
    BY HistoryFacts DEF DeliveryInv, SdkInv, SdkTypeOK
  <1>3. /\ Len(log) <= Len(log') /\ Len(log') \in Nat
        /\ \A n \in 1 .. Len(log) : log'[n] = log[n]
    <2>1. CASE log' = log
      BY <1>2, <2>1
    <2>2. CASE \E payload \in Payloads : log' = Append(log, payload)
      BY <1>2, <2>2, AppendFacts
    <2> QED
      BY <1>1, <2>1, <2>2
  <1>4. \A g \in Generations :
          /\ Confirmed(g)' = Confirmed(g) /\ Confirmed(g) \in Nat
          /\ Admitted(g)' = IF g = generation THEN log' ELSE past[g].log
    BY <1>1, HistoryFacts DEF Confirmed, Admitted, DeliveryInv
  <1>5. Grows /\ generation' \in Nat
    BY <1>1, <1>2, <1>3, <1>4, HistoryFacts DEF Grows, Admitted, DeliveryInv
  <1>6. FutureBlank' /\ LogCovers'
    <2>1. FutureBlank'
      BY <1>1 DEF FutureBlank, DeliveryInv
    <2>2. \A g \in Generations : Confirmed(g)' <= Len(Admitted(g)')
      BY <1>4, <1>5, HistoryFacts DEF Grows, LogCovers, DeliveryInv
    <2> QED
      BY <2>1, <2>2 DEF LogCovers
  <1>7. RowsGrow /\ RowsInOrder'
    BY DEF RowsGrow, RowsInOrder, Body, DeliveryInv
  <1>8. FramesGenuine'
    <2>1. \A frame \in left' : frame \in Frame /\ Genuine(frame)
      BY <1>1 DEF DeliveryInv, DeliveryTypeOK, FramesGenuine
    <2>2. \A id \in DOMAIN records' :
            records'[id].body \in Frame /\ Genuine(records'[id].body)
      BY RowFacts DEF DeliveryInv, FramesGenuine, Body
    <2> QED
      BY <1>5, <2>1, <2>2, FramesKept
  <1>9. ConfirmedIsDurable'
    BY <1>1, <1>5, <1>7, DurableKept
  <1>10. pc[Worker] \in {"sending", "settle", "apply"} => Oldest' = Oldest
    BY <1>1, OldestKept DEF DeliveryInv
  <1>11. /\ pc'[Worker] \in {"settle", "apply"} =>
              pc[Worker] \in {"settle", "apply"} /\ reply' = reply
         /\ pc[Worker] = "sending" => pc'[Worker] = "sending"
    BY DEF Ordinary, Settled, Awoken
  <1>12. ReplyOK'
    <2>1. CASE pc'[Worker] \in {"settle", "apply"}
      BY <1>1, <1>7, <1>10, <1>11, <2>1, ReplyKept
    <2> QED
      BY <2>1 DEF ReplyOK
  <1>13. LinkOK'
    <2>1. CASE link # None
      BY <1>1, <1>7, <1>10, <2>1, LinkFacts, LinkKept
    <2> QED
      BY <1>1, <2>1 DEF LinkOK
  <1>14. DeliveryTypeOK'
    BY <1>1, <1>11 DEF DeliveryInv, DeliveryTypeOK, At
  <1> QED
    BY <1>5, <1>6, <1>7, <1>8, <1>9, <1>12, <1>13, <1>14 DEF DeliveryInv

LEMMA ConfirmMoveInv ==
    ASSUME DeliveryInv, SdkInv', ConfirmsOldest,
           UNCHANGED <<peers, network, up, records, faults>>
    PROVE  DeliveryInv'
  <1>1. /\ confirmed' = confirmed + 1 /\ confirmed + 1 <= Len(log) /\ log' = log
        /\ last_receipt' = reply /\ pc[Worker] = "apply" /\ pc'[Worker] = "top"
        /\ UNCHANGED <<generation, past, link, left>>
    BY DEF ConfirmsOldest, peers, network
  <1>2. /\ confirmed \in Nat /\ log \in Seq(Payloads) /\ Len(log) \in Nat
        /\ generation \in Generations /\ generation \in Nat
    BY CarriedOldest, <1>1, HistoryFacts DEF DeliveryInv
  <1>3. link = None
    BY <1>1, LinkFacts
  <1>4. /\ reply.id \in DOMAIN records /\ Body(reply.id) = Oldest
    BY <1>1 DEF ConfirmsOldest, DeliveryInv, ReplyOK, Truthful
  <1>5. \A g \in Generations :
          /\ Admitted(g)' = Admitted(g)
          /\ Confirmed(g)' = IF g = generation THEN confirmed + 1 ELSE Confirmed(g)
    BY <1>1 DEF Admitted, Confirmed
  <1>6. Confirmed(generation) = confirmed /\ Admitted(generation) = log
    BY DEF Confirmed, Admitted
  <1>7. Grows /\ generation' \in Nat
    <2>1. \A g \in Generations : Confirmed(g) \in Nat /\ Len(Admitted(g)) \in Nat
      BY HistoryFacts DEF DeliveryInv
    <2>2. \A g \in Generations : Confirmed(g) <= Confirmed(g)' /\ Confirmed(g)' \in Nat
      BY <1>2, <1>5, <1>6, <2>1
    <2> QED
      BY <1>1, <1>2, <1>5, <2>1, <2>2 DEF Grows
  <1>8. FutureBlank' /\ LogCovers'
    BY <1>1, <1>5, <1>6 DEF FutureBlank, LogCovers, DeliveryInv
  <1>9. RowsGrow /\ RowsInOrder'
    BY DEF RowsGrow, RowsInOrder, Body, DeliveryInv
  <1>10. FramesGenuine'
    <2>1. \A frame \in left' : frame \in Frame /\ Genuine(frame)
      BY <1>1 DEF DeliveryInv, DeliveryTypeOK, FramesGenuine
    <2>2. \A id \in DOMAIN records' :
            records'[id].body \in Frame /\ Genuine(records'[id].body)
      BY RowFacts DEF DeliveryInv, FramesGenuine, Body
    <2> QED
      BY <1>7, <2>1, <2>2, FramesKept
  <1>11. ConfirmedIsDurable'
    <2>1. records'[reply.id].body =
            [generation |-> generation, sequence |-> confirmed', bytes |-> log'[confirmed']]
      BY <1>1, <1>4 DEF Oldest, Body
    <2>2. ASSUME NEW g \in Generations, NEW n \in 1 .. Confirmed(g)'
          PROVE  \E id \in DOMAIN records' :
                   records'[id].body =
                     [generation |-> g, sequence |-> n, bytes |-> Admitted(g)'[n]]
      <3>1. CASE n \in 1 .. Confirmed(g)
        BY <1>7, <1>9, <3>1, RowsStayDurable
      <3>2. CASE n \notin 1 .. Confirmed(g)
        <4>1. g = generation /\ n = confirmed'
          BY <1>1, <1>2, <1>5, <1>6, <3>2
        <4> QED
          BY <1>1, <1>4, <1>5, <1>6, <2>1, <4>1
      <3> QED
        BY <3>1, <3>2
    <2>3. last_receipt'.id \in DOMAIN records'
      BY <1>1, <1>4
    <2> QED
      BY <1>1, <2>1, <2>2, <2>3 DEF ConfirmedIsDurable
  <1>12. LinkOK' /\ ReplyOK'
    BY <1>1, <1>3 DEF LinkOK, ReplyOK
  <1>13. DeliveryTypeOK'
    BY <1>1, <1>3 DEF DeliveryInv, DeliveryTypeOK, At
  <1> QED
    BY <1>7, <1>8, <1>9, <1>10, <1>11, <1>12, <1>13 DEF DeliveryInv

LEMMA ClientMovesInv == DeliveryInv /\ ClientMoves => DeliveryInv'
  <1> SUFFICES ASSUME DeliveryInv, ClientMoves PROVE DeliveryInv'
    OBVIOUS
  <1>1. ClientNext /\ UNCHANGED <<peers, network, up, records, faults>> /\ SdkInv
    BY DEF ClientMoves, DeliveryInv
  <1>2. SdkInv'
    BY <1>1, NextInv DEF SdkNext
  <1>3. CASE \E t \in Callers : Call(t) \/ CallerStep(t)
    BY <1>1, <1>2, <1>3, CallerView, QuietMoveInv
  <1>4. CASE \E t \in Threads : Spurious(t)
    BY <1>1, <1>2, <1>4, SpuriousView, QuietMoveInv
  <1>5. CASE WorkerStep
    BY <1>1, <1>2, <1>5, WorkerView, QuietMoveInv, ConfirmMoveInv
  <1> QED
    BY <1>1, <1>3, <1>4, <1>5 DEF ClientNext
-----------------------------------------------------------------------------
(* A client starts again *)

LEMMA FreshClientInv == SdkInit' => SdkInv'
  BY InitInv, PTL

(* A new life begins blank; the old one keeps what it had. *)
LEMMA RestartGrows ==
    ASSUME DeliveryInv, ClientRestarts
    PROVE  /\ Grows /\ generation' \in Nat /\ generation' = generation + 1
           /\ generation' \in 1 .. faults' + 1 /\ faults' \in 0 .. MaxFaults
           /\ \A g \in Generations :
                Confirmed(g)' = Confirmed(g) /\ Admitted(g)' = Admitted(g)
           /\ FutureBlank' /\ LogCovers'
           /\ past' \in [Generations -> [log : Seq(Payloads), confirmed : Nat]]
  <1>1. /\ generation' = generation + 1 /\ confirmed' = 0 /\ log' = <<>>
        /\ past' = [past EXCEPT ![generation] = [log |-> log, confirmed |-> confirmed]]
        /\ faults < MaxFaults /\ faults' = faults + 1
    BY DEF ClientRestarts, NewGeneration, Fault
  <1>2. /\ generation \in Generations /\ generation \in Nat /\ Generations \subseteq Nat
        /\ past \in [Generations -> [log : Seq(Payloads), confirmed : Nat]]
        /\ log \in Seq(Payloads) /\ confirmed \in Nat
    BY HistoryFacts, U64Assumption DEF DeliveryInv, DeliveryTypeOK, SdkInv, SdkTypeOK
  <1>3. \A g \in Generations : g >= generation => past[g].log = <<>> /\ past[g].confirmed = 0
    BY DEF DeliveryInv, FutureBlank
  <1>4. ASSUME NEW g \in Generations
        PROVE  Confirmed(g)' = Confirmed(g) /\ Admitted(g)' = Admitted(g)
    <2>1. g \in Nat
      BY <1>2
    <2>2. CASE g = generation
      BY <1>1, <1>2, <2>2 DEF Confirmed, Admitted
    <2>3. CASE g = generation + 1
      BY <1>1, <1>2, <1>3, <2>1, <2>3 DEF Confirmed, Admitted
    <2>4. CASE g # generation /\ g # generation + 1
      BY <1>1, <1>2, <2>4 DEF Confirmed, Admitted
    <2> QED
      BY <2>2, <2>3, <2>4
  <1>5. Grows /\ generation' \in Nat
    BY <1>1, <1>2, <1>4, HistoryFacts DEF Grows, DeliveryInv
  <1>6. FutureBlank'
    <2> SUFFICES ASSUME NEW g \in Generations, g >= generation + 1
                 PROVE  past'[g] = [log |-> <<>>, confirmed |-> 0]
      BY <1>1 DEF FutureBlank
    <2>1. g # generation /\ g >= generation
      BY <1>2
    <2> QED
      BY <1>1, <1>2, <2>1 DEF DeliveryInv, FutureBlank
  <1>7. LogCovers'
    BY <1>4 DEF LogCovers, DeliveryInv
  <1>8. generation' \in 1 .. faults' + 1 /\ faults' \in 0 .. MaxFaults
    <2>1. generation \in 1 .. faults + 1 /\ faults \in 0 .. MaxFaults /\ MaxFaults \in Nat
      BY DeliveryAssumption DEF DeliveryInv, DeliveryTypeOK
    <2> QED
      BY <1>1, <2>1
  <1>9. past' \in [Generations -> [log : Seq(Payloads), confirmed : Nat]]
    BY <1>1, <1>2
  <1> QED
    BY <1>1, <1>4, <1>5, <1>6, <1>7, <1>8, <1>9

LEMMA ClientRestartsInv == DeliveryInv /\ ClientRestarts => DeliveryInv'
  <1> SUFFICES ASSUME DeliveryInv, ClientRestarts PROVE DeliveryInv'
    OBVIOUS
  <1>1. /\ records' = records /\ up' = up /\ link' = None /\ confirmed' = 0
        /\ left' = left \union Abandoned /\ pc'[Worker] = "top"
    BY DEF ClientRestarts, Threads
  <1>2. SdkInv'
    <2>1. SdkInit'
      BY DEF SdkInit, ClientRestarts
    <2> QED
      BY <2>1, FreshClientInv
  <1>3. \A frame \in left' : frame \in Frame /\ Genuine(frame)
    BY <1>1, LinkFacts DEF Abandoned, DeliveryInv, DeliveryTypeOK, FramesGenuine
  <1>4. FramesGenuine'
    <2>1. \A id \in DOMAIN records' :
            records'[id].body \in Frame /\ Genuine(records'[id].body)
      BY <1>1, RowFacts DEF DeliveryInv, FramesGenuine, Body
    <2> QED
      BY <1>3, <2>1, RestartGrows, FramesKept
  <1>5. RowsGrow /\ RowsInOrder'
    BY <1>1 DEF RowsGrow, RowsInOrder, Body, DeliveryInv
  <1>6. ConfirmedIsDurable'
    <2>1. ASSUME NEW g \in Generations, NEW n \in 1 .. Confirmed(g)'
          PROVE  \E id \in DOMAIN records' :
                   records'[id].body =
                     [generation |-> g, sequence |-> n, bytes |-> Admitted(g)'[n]]
      BY <1>5, RestartGrows, RowsStayDurable
    <2> QED
      BY <1>1, <2>1 DEF ConfirmedIsDurable
  <1>7. LinkOK' /\ ReplyOK'
    BY <1>1 DEF LinkOK, ReplyOK
  <1>8. DeliveryTypeOK'
    BY <1>1, <1>3, RestartGrows DEF DeliveryInv, DeliveryTypeOK, At
  <1> QED
    BY <1>2, <1>4, <1>5, <1>6, <1>7, <1>8, RestartGrows DEF DeliveryInv

-----------------------------------------------------------------------------
(* The invariant *)

LEMMA DeliveryInitInv == DeliveryInit => DeliveryInv
  <1> SUFFICES ASSUME DeliveryInit PROVE DeliveryInv
    OBVIOUS
  <1>1. SdkInv
    BY InitInv DEF DeliveryInit
  <1>2. /\ generation = 1 /\ link = None /\ left = {} /\ records = <<>> /\ faults = 0
        /\ up = TRUE /\ past = [g \in Generations |-> [log |-> <<>>, confirmed |-> 0]]
        /\ log = <<>> /\ confirmed = 0 /\ pc[Worker] = "top"
    BY DEF DeliveryInit, SdkInit, Threads
  <1>3. DeliveryTypeOK
    BY <1>2, DeliveryAssumption DEF DeliveryTypeOK
  <1>4. FramesGenuine /\ RowsInOrder
    BY <1>2 DEF FramesGenuine, RowsInOrder
  <1>5. LinkOK /\ ReplyOK /\ FutureBlank
    BY <1>2 DEF LinkOK, ReplyOK, FutureBlank
  <1>6. \A g \in Generations : Confirmed(g) = 0 /\ Admitted(g) = <<>>
    BY <1>2 DEF Confirmed, Admitted
  <1>7. LogCovers /\ ConfirmedIsDurable
    BY <1>2, <1>6 DEF LogCovers, ConfirmedIsDurable
  <1> QED
    BY <1>1, <1>3, <1>4, <1>5, <1>7 DEF DeliveryInv

LEMMA DeliveryStutterInv == DeliveryInv /\ UNCHANGED deliveryVars => DeliveryInv'
  <1> SUFFICES ASSUME DeliveryInv, UNCHANGED deliveryVars PROVE DeliveryInv'
    OBVIOUS
  <1>1. UNCHANGED <<sdkVars, peers, records, link, left, up, faults>>
    BY DEF deliveryVars, network
  <1>2. up' \in BOOLEAN
    BY <1>1 DEF DeliveryInv, DeliveryTypeOK
  <1> QED
    BY <1>1, <1>2, AsideInv

LEMMA DeliveryNextInv == DeliveryInv /\ [DeliveryNext]_deliveryVars => DeliveryInv'
  <1> SUFFICES ASSUME DeliveryInv, DeliveryNext PROVE DeliveryInv'
    BY DeliveryStutterInv
  <1>1. CASE ClientMoves
    BY <1>1, ClientMovesInv
  <1>2. CASE Connect \/ Receive \/ GiveUp \/ ConnectRefused
    BY <1>2, ConnectInv, ReceiveInv, FailedAttemptInv
  <1>3. CASE Handle
    BY <1>3, HandleInv
  <1>4. CASE \E frame \in left : HandleLate(frame)
    BY <1>4, HandleLateInv
  <1>5. CASE \E frame \in left : CloseLate(frame)
    <2>1. UNCHANGED <<sdkVars, peers, records, link, up, faults>> /\ left' \subseteq left
      BY <1>5 DEF CloseLate
    <2>2. up' \in BOOLEAN
      BY <2>1 DEF DeliveryInv, DeliveryTypeOK
    <2> QED
      BY <2>1, <2>2, AsideInv
  <1>6. CASE DaemonStops
    BY <1>6, DaemonStopsInv
  <1>7. CASE DaemonStarts
    BY <1>7, AsideInv DEF DaemonStarts, network
  <1>8. CASE ClientRestarts
    BY <1>8, ClientRestartsInv
  <1> QED
    BY <1>1, <1>2, <1>3, <1>4, <1>5, <1>6, <1>7, <1>8 DEF DeliveryNext

(* Client, wire and custody agree in every state that crashes, lost        *)
(* replies, late frames and failing stores can lead to.                    *)
THEOREM DeliverySafe == DeliverySpec => []DeliveryInv
  BY DeliveryInitInv, DeliveryNextInv, PTL DEF DeliverySpec
(* DeliveryTypeOK: generations are as many as the faults allow, and a      *)
(* connection is there only while the worker waits for it.                 *)
THEOREM DeliveryTyped == DeliverySpec => []DeliveryTypeOK
  <1>1. DeliveryInv => DeliveryTypeOK
    BY DEF DeliveryInv
  <1> QED
    BY <1>1, DeliverySafe, PTL

(* ConfirmedIsDurable: what a flush may report is in custody, with its     *)
(* bytes, for ever and for dead clients too.                               *)
THEOREM ConfirmedDurable == DeliverySpec => []ConfirmedIsDurable
  <1>1. DeliveryInv => ConfirmedIsDurable
    BY DEF DeliveryInv
  <1> QED
    BY <1>1, DeliverySafe, PTL

LEMMA UnderWayGenuine ==
    ASSUME DeliveryInv, NEW frame \in UnderWay PROVE frame \in Frame /\ Genuine(frame)
  BY LinkFacts DEF UnderWay, Abandoned, DeliveryInv, DeliveryTypeOK, FramesGenuine

(* OneAhead: no frame and no row is more than one past what is confirmed.  *)
THEOREM NeverAhead == DeliverySpec => []OneAhead
  <1>1. ASSUME DeliveryInv PROVE OneAhead
    <2>1. \A frame \in Frame : Genuine(frame) =>
            frame.sequence <= Confirmed(frame.generation) + 1
      BY <1>1, HistoryFacts DEF Genuine, DeliveryInv, Frame
    <2>2. \A id \in DOMAIN records : Body(id) \in Frame /\ Genuine(Body(id))
      BY <1>1, RowFacts DEF DeliveryInv, FramesGenuine
    <2> QED
      BY <1>1, <2>1, <2>2, UnderWayGenuine DEF OneAhead, Body
  <1> QED
    BY <1>1, DeliverySafe, PTL

(* NoConflicts: the store refuses no frame of the SDK for its bytes.       *)
THEOREM ConflictFree == DeliverySpec => []NoConflicts
  <1>1. ASSUME DeliveryInv PROVE NoConflicts
    <2> SUFFICES ASSUME NEW frame \in UnderWay,
                        NEW id \in Custody!Recorded(records, frame)
                 PROVE  Body(id) = frame
      BY DEF NoConflicts, Body
    <2>1. frame \in Frame /\ Genuine(frame)
      BY <1>1, UnderWayGenuine
    <2>2. /\ id \in DOMAIN records /\ Body(id).generation = frame.generation
          /\ Body(id).sequence = frame.sequence
      BY <1>1, <2>1, RecordedFacts DEF DeliveryInv
    <2>3. Body(id) \in Frame /\ Genuine(Body(id))
      BY <1>1, <2>2, RowFacts DEF DeliveryInv, FramesGenuine
    <2>4. Body(id).bytes = frame.bytes
      BY <2>1, <2>2, <2>3 DEF Genuine
    <2> QED
      BY <2>1, <2>2, <2>3, <2>4 DEF Frame
  <1> QED
    BY <1>1, DeliverySafe, PTL

(* DeliveryInOrder: what is confirmed is stored, nothing jumps ahead, and  *)
(* nothing that is still to be handled conflicts with what is stored.      *)
THEOREM DeliveryKept == DeliverySpec => []DeliveryInOrder
  <1>1. ConfirmedIsDurable /\ OneAhead /\ NoConflicts => DeliveryInOrder
    BY DEF DeliveryInOrder
  <1> QED
    BY <1>1, ConfirmedDurable, NeverAhead, ConflictFree, PTL

-----------------------------------------------------------------------------
(* Delivery implements DurableLog *)

Mapped == [id \in DOMAIN records |-> records[id].body]

LEMMA MappedSame ==
    ASSUME \A g \in Generations : Confirmed(g)' = Confirmed(g) /\ Admitted(g)' = Admitted(g),
           records' = records
    PROVE  UNCHANGED Abstract!logVars
  BY DEF Abstract!logVars

LEMMA AppendIs ==
    ASSUME NEW S, NEW s \in Seq(S), NEW e \in S, NEW t \in Seq(S),
           Len(t) = Len(s) + 1, \A i \in 1 .. Len(s) : t[i] = s[i],
           t[Len(s) + 1] = e
    PROVE  t = Append(s, e)
  <1>1. /\ Append(s, e) \in Seq(S) /\ Len(s) \in Nat
        /\ Len(Append(s, e)) = Len(s) + 1
        /\ \A i \in 1 .. Len(s) : Append(s, e)[i] = s[i]
        /\ Append(s, e)[Len(s) + 1] = e
    BY AppendFacts
  <1>2. \A i \in 1 .. Len(t) : t[i] = Append(s, e)[i]
    BY <1>1
  <1>3. \A u, v \in Seq(S) :
          Len(u) = Len(v) /\ (\A i \in 1 .. Len(u) : u[i] = v[i]) => u = v
    OBVIOUS
  <1> QED
    BY <1>1, <1>2, <1>3
LEMMA MappedFacts ==
    ASSUME DeliveryTypeOK
    PROVE  /\ Mapped \in Seq(Frame) /\ Len(Mapped) = Len(records)
           /\ DOMAIN Mapped = DOMAIN records
           /\ \A id \in DOMAIN records : Mapped[id] = Body(id)
  <1>1. /\ Len(records) \in Nat /\ DOMAIN records = 1 .. Len(records)
        /\ \A id \in DOMAIN records : records[id].body \in Frame
    BY RowFacts DEF Body
  <1>2. Mapped = [id \in 1 .. Len(records) |-> records[id].body]
    BY <1>1 DEF Mapped
  <1> QED
    BY <1>1, <1>2 DEF Body

LEMMA MappedAppend ==
    ASSUME DeliveryTypeOK, DeliveryTypeOK', NEW frame \in Frame, Stored(frame)
    PROVE  Mapped' = Append(Mapped, frame)
  <1>1. /\ Len(records) \in Nat /\ DOMAIN records = 1 .. Len(records)
        /\ DOMAIN records' = 1 .. Len(records) + 1
        /\ Len(records') = Len(records) + 1
        /\ \A id \in DOMAIN records : records'[id].body = records[id].body
        /\ records'[Len(records) + 1].body = frame
        /\ \A id \in DOMAIN records' : records'[id].body \in Frame
    BY StoredFacts, RowFacts DEF Body
  <1>2. Mapped \in Seq(Frame) /\ Len(Mapped) = Len(records)
        /\ \A id \in 1 .. Len(records) : Mapped[id] = records[id].body
    BY <1>1, MappedFacts DEF Body
  <1>3. Mapped' = [id \in 1 .. Len(records) + 1 |-> records'[id].body]
    BY <1>1 DEF Mapped
  <1>4. Mapped' \in Seq(Frame) /\ Len(Mapped') = Len(records) + 1
    BY <1>1, <1>3
  <1>5. \A id \in 1 .. Len(Mapped) : Mapped'[id] = Mapped[id]
    BY <1>1, <1>2, <1>3
  <1>6. Mapped'[Len(Mapped) + 1] = frame
    BY <1>1, <1>2, <1>3
  <1> QED
    BY <1>2, <1>4, <1>5, <1>6, AppendIs

LEMMA InCustodyIs ==
    ASSUME DeliveryTypeOK, NEW g, NEW n
    PROVE  Abstract!InCustody(g, n) <=>
             \E id \in DOMAIN records : Body(id).generation = g /\ Body(id).sequence = n
  <1>1. Abstract!InCustody(g, n) <=>
          \E id \in DOMAIN Mapped : Mapped[id].generation = g /\ Mapped[id].sequence = n
    BY DEF Abstract!InCustody, Mapped
  <1> QED
    BY <1>1, MappedFacts

(* Handling a genuine frame stores the next record of its generation, or   *)
(* nothing.                                                                *)
LEMMA StoreRefines ==
    ASSUME DeliveryInv, DeliveryInv', NEW frame \in Frame, Genuine(frame),
           records' = records \/ Stored(frame),
           UNCHANGED <<confirmed, log, generation, past>>
    PROVE  [Abstract!LogNext]_Abstract!logVars
  <1>1. \A g \in Generations : Confirmed(g)' = Confirmed(g) /\ Admitted(g)' = Admitted(g)
    BY DEF Confirmed, Admitted
  <1>2. CASE records' = records
    BY <1>1, <1>2, MappedSame
  <1>3. CASE Stored(frame)
    <2> DEFINE g == frame.generation
               n == frame.sequence
    <2>1. /\ g \in Generations /\ n \in Nat /\ Confirmed(g) \in Nat
          /\ Len(Admitted(g)) \in Nat /\ Admitted(g) \in Seq(Payloads)
      BY HistoryFacts DEF Frame, DeliveryInv
    <2>2. /\ n = Confirmed(g) + 1 /\ n \in 1 .. Len(Admitted(g))
          /\ frame.bytes = Admitted(g)[n]
      BY <1>3, <2>1, MissingIsNext DEF Stored, Genuine
    <2>3. ~Abstract!InCustody(g, n)
      BY <1>3, InCustodyIs, RecordedFacts DEF Stored, DeliveryInv
    <2>4. ASSUME NEW m \in 1 .. n - 1 PROVE Abstract!InCustody(g, m)
      <3>1. m \in 1 .. Confirmed(g)
        BY <2>1, <2>2
      <3>2. PICK id \in DOMAIN records :
              records[id].body = [generation |-> g, sequence |-> m, bytes |-> Admitted(g)[m]]
        BY <2>1, <3>1 DEF DeliveryInv, ConfirmedIsDurable
      <3> QED
        BY <3>2, InCustodyIs DEF DeliveryInv, Body
    <2>5. frame = [generation |-> g, sequence |-> n, bytes |-> Admitted(g)[n]]
      BY <2>2 DEF Frame
    <2>6. Mapped' = Append(Mapped,
             [generation |-> g, sequence |-> n, bytes |-> Admitted(g)[n]])
      BY <1>3, <2>5, MappedAppend DEF DeliveryInv
    <2> DEFINE admitted == [h \in Generations |-> Admitted(h)]
    <2>7. admitted[g] = Admitted(g) /\ n \in DOMAIN admitted[g]
      BY <2>1, <2>2
    <2>8. /\ [h \in Generations |-> Admitted(h)]' = admitted
          /\ [h \in Generations |-> Confirmed(h)]' = [h \in Generations |-> Confirmed(h)]
      BY <1>1
    <2>9. Abstract!StoreNext(g)
      BY <2>3, <2>4, <2>6, <2>7, <2>8 DEF Abstract!StoreNext, Mapped
    <2> QED
      BY <2>1, <2>9 DEF Abstract!LogNext
  <1> QED
    BY <1>2, <1>3

(* A confirmation promises a record that is in custody. *)
LEMMA ConfirmRefines ==
    ASSUME DeliveryInv, ConfirmsOldest, UNCHANGED <<generation, past, records>>
    PROVE  Abstract!LogNext
  <1>1. /\ generation \in Generations /\ confirmed' = confirmed + 1 /\ log' = log
        /\ Confirmed(generation) = confirmed
    BY HistoryFacts DEF ConfirmsOldest, DeliveryInv, Confirmed
  <1>2. reply.id \in DOMAIN records /\ Body(reply.id) = Oldest
    BY DEF ConfirmsOldest, DeliveryInv, ReplyOK, Truthful
  <1> DEFINE promised == [g \in Generations |-> Confirmed(g)]
  <1>3. promised[generation] + 1 = confirmed + 1
    BY <1>1
  <1>4. Abstract!InCustody(generation, promised[generation] + 1)
    BY <1>2, <1>3, InCustodyIs DEF Oldest, DeliveryInv
  <1>5. \A g \in Generations :
          /\ Admitted(g)' = Admitted(g)
          /\ Confirmed(g)' = IF g = generation THEN confirmed + 1 ELSE Confirmed(g)
    BY <1>1 DEF Admitted, Confirmed
  <1>6. promised' = [promised EXCEPT ![generation] = @ + 1]
    BY <1>1, <1>5
  <1>7. /\ [g \in Generations |-> Admitted(g)]' = [g \in Generations |-> Admitted(g)]
        /\ Mapped' = Mapped
    BY <1>5 DEF Mapped
  <1>8. Abstract!Promise(generation)
    BY <1>4, <1>6, <1>7 DEF Abstract!Promise, Mapped
  <1> QED
    BY <1>1, <1>8 DEF Abstract!LogNext

(* Accepting a record appends to the log of the generation that runs. *)
LEMMA AcceptRefines ==
    ASSUME DeliveryInv, NEW payload \in Payloads, log' = Append(log, payload),
           UNCHANGED <<confirmed, generation, past, records>>
    PROVE  Abstract!LogNext
  <1>1. generation \in Generations /\ Admitted(generation) = log
    BY HistoryFacts DEF DeliveryInv, Admitted
  <1> DEFINE admitted == [g \in Generations |-> Admitted(g)]
  <1>2. \A g \in Generations :
          /\ Confirmed(g)' = Confirmed(g)
          /\ Admitted(g)' = IF g = generation THEN Append(log, payload) ELSE Admitted(g)
    BY DEF Admitted, Confirmed
  <1>3. admitted' = [admitted EXCEPT ![generation] = Append(@, payload)]
    BY <1>1, <1>2
  <1>4. /\ [g \in Generations |-> Confirmed(g)]' = [g \in Generations |-> Confirmed(g)]
        /\ Mapped' = Mapped
    BY <1>2 DEF Mapped
  <1>5. Abstract!Admit(generation, payload)
    BY <1>3, <1>4 DEF Abstract!Admit, Mapped
  <1> QED
    BY <1>1, <1>5 DEF Abstract!LogNext
LEMMA ClientRefines ==
    ASSUME DeliveryInv, ClientMoves PROVE [Abstract!LogNext]_Abstract!logVars
  <1>1. /\ ClientNext /\ SdkInv
        /\ UNCHANGED <<generation, past, records>>
    BY DEF ClientMoves, DeliveryInv, peers
  <1>2. Ordinary \/ Settled \/ ConfirmsOldest
    BY <1>1, CallerView, SpuriousView, WorkerView DEF ClientNext
  <1>3. CASE ConfirmsOldest
    BY <1>1, <1>3, ConfirmRefines
  <1>4. CASE Ordinary \/ Settled
    <2>1. /\ confirmed' = confirmed
          /\ log' = log \/ \E payload \in Payloads : log' = Append(log, payload)
      BY <1>4 DEF Ordinary, Settled
    <2>2. CASE log' = log
      <3>1. \A g \in Generations : Confirmed(g)' = Confirmed(g) /\ Admitted(g)' = Admitted(g)
        BY <1>1, <2>1, <2>2 DEF Confirmed, Admitted
      <3> QED
        BY <1>1, <3>1, MappedSame
    <2>3. CASE \E payload \in Payloads : log' = Append(log, payload)
      BY <1>1, <2>1, <2>3, AcceptRefines
    <2> QED
      BY <2>1, <2>2, <2>3
  <1> QED
    BY <1>2, <1>3, <1>4

LEMMA SameHistoryRefines ==
    ASSUME UNCHANGED <<confirmed, log, generation, past, records>>
    PROVE  UNCHANGED Abstract!logVars
  <1>1. \A g \in Generations : Confirmed(g)' = Confirmed(g) /\ Admitted(g)' = Admitted(g)
    BY DEF Confirmed, Admitted
  <1> QED
    BY <1>1, MappedSame

LEMMA NextRefines ==
    ASSUME DeliveryInv, DeliveryInv', [DeliveryNext]_deliveryVars
    PROVE  [Abstract!LogNext]_Abstract!logVars
  <1>1. CASE ClientMoves
    BY <1>1, ClientRefines
  <1>2. CASE Handle
    <2>1. PICK frame \in Frame : frame = link.frame /\ Genuine(frame)
      BY <1>2, LinkFacts DEF Handle
    <2>2. PICK answer \in Answers(frame) : Store(frame, answer)
      BY <1>2, <2>1 DEF Handle
    <2>3. records' = records \/ Stored(frame)
      BY <2>2, StoreStep DEF DeliveryInv
    <2>4. UNCHANGED <<confirmed, log, generation, past>>
      BY <1>2 DEF Handle, sdkVars, frontier, peers
    <2> QED
      BY <2>1, <2>3, <2>4, StoreRefines
  <1>3. CASE \E frame \in left : HandleLate(frame)
    <2>1. PICK frame \in left : HandleLate(frame)
      BY <1>3
    <2>2. frame \in Frame /\ Genuine(frame)
      BY DEF DeliveryInv, DeliveryTypeOK, FramesGenuine
    <2>3. records' = records \/ Stored(frame)
      BY <2>1, <2>2, StoreStep DEF HandleLate, DeliveryInv
    <2>4. UNCHANGED <<confirmed, log, generation, past>>
      BY <2>1 DEF HandleLate, sdkVars, frontier, peers
    <2> QED
      BY <2>2, <2>3, <2>4, StoreRefines
  <1>4. CASE Connect \/ DaemonStops \/ DaemonStarts \/ \E frame \in left : CloseLate(frame)
    <2>1. UNCHANGED <<sdkVars, peers, records>>
      BY <1>4 DEF Connect, DaemonStops, DaemonStarts, CloseLate
    <2> QED
      BY <2>1, SameHistoryRefines DEF sdkVars, frontier, peers
  <1>5. CASE Receive \/ GiveUp \/ ConnectRefused
    <2>1. /\ \E answer : Answer(answer)
          /\ UNCHANGED <<peers, records>>
      BY <1>5 DEF Receive, GiveUp, ConnectRefused
    <2> QED
      BY <2>1, SameHistoryRefines DEF Answer, frontier, peers
  <1>6. CASE ClientRestarts
    <2>1. records' = records
      BY <1>6 DEF ClientRestarts
    <2> QED
      BY <1>6, <2>1, RestartGrows, MappedSame
  <1>7. CASE UNCHANGED deliveryVars
    <2>1. UNCHANGED <<sdkVars, peers, records>>
      BY <1>7 DEF deliveryVars
    <2> QED
      BY <2>1, SameHistoryRefines DEF sdkVars, frontier, peers
  <1> QED
    BY <1>1, <1>2, <1>3, <1>4, <1>5, <1>6, <1>7 DEF DeliveryNext

LEMMA InitRefines == DeliveryInit => Abstract!LogInit
  <1> SUFFICES ASSUME DeliveryInit PROVE Abstract!LogInit
    OBVIOUS
  <1>1. \A g \in Generations : Admitted(g) = <<>> /\ Confirmed(g) = 0
    BY DEF DeliveryInit, SdkInit, Admitted, Confirmed
  <1>2. records = <<>>
    BY DEF DeliveryInit
  <1> QED
    BY <1>1, <1>2 DEF Abstract!LogInit

(* ImplementsDurableLog: through every fault, custody receives the log of  *)
(* each generation record by record, in order, each once.                  *)
THEOREM DeliveryIsDurableLog == DeliverySpec => ImplementsDurableLog
  <1>1. DeliveryInv /\ DeliveryInv' /\ [DeliveryNext]_deliveryVars
          => [Abstract!LogNext]_Abstract!logVars
    BY NextRefines
  <1> QED
    BY <1>1, InitRefines, DeliverySafe, PTL
    DEF DeliverySpec, ImplementsDurableLog, Abstract!LogSpec
=============================================================================
