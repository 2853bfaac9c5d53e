--------------------------- MODULE SdkClientProofs ---------------------------
(***************************************************************************)
(* SdkClient's safety for every set of callers and payloads, any number of *)
(* slots, any limit and a receiver that answers anything.                  *)
(*                                                                         *)
(* The pool and the accepted window depend on each other: a receipt        *)
(* confirms the oldest charged buffer because the window has no gap, and   *)
(* the window keeps without one because every buffer is in one place.      *)
(* SdkInv adds when the worker has a buffer, that a caller inside          *)
(* try_record has a payload, and what a flush knows of the frontier.       *)
(***************************************************************************)
EXTENDS SdkClient, FiniteSetTheorems, TLAPS

(* The worker has a buffer from its lease to its confirmation or retry. *)
WorkerCarries ==
    carried # None <=> pc[Worker] \in {"sending", "settle", "apply"}

RecordHasPayload == \A t \in Callers : pc[t] = "record" => arg[t] \in Payloads

(* The frontier a flush waits for is not behind the one it saw on entry. *)
FlushSees ==
    \A t \in Callers :
        /\ pc[t] \in {"flush", "enter"} => seen[t] <= accepted
        /\ pc[t] \in {"waiting", "woken", "late", "recheck", "lastcheck"} =>
             seen[t] <= target[t]

(* What the control points say of the threads. *)
ControlOK ==
    /\ NeverPanics
    /\ WorkerCarries
    /\ RecordHasPayload
    /\ FlushSees
    /\ NoLostWakeup

(* What is said of the pool and the frontier. *)
WindowOK == PoolPartition /\ WindowContiguous /\ ReceiptIsFrontier

SdkInv == SdkTypeOK /\ WindowOK /\ ControlOK

-----------------------------------------------------------------------------
(* Frames *)

(* A step that leaves pool and frontier alone. *)
LEMMA WindowKept ==
    ASSUME SdkInv, UNCHANGED <<pool, frontier>>
    PROVE  WindowOK'
  <1>1. /\ free' = free /\ ready' = ready /\ buffer' = buffer
        /\ inflight' = inflight /\ carried' = carried
        /\ accepted' = accepted /\ confirmed' = confirmed
        /\ last_receipt' = last_receipt /\ log' = log
    BY DEF pool, frontier
  <1>2. Charged' = Charged
    BY <1>1 DEF Charged
  <1>3. PoolPartition'
    BY <1>1, <1>2 DEF SdkInv, WindowOK, PoolPartition, ChargedSlots
  <1>4. WindowContiguous'
    BY <1>1, <1>2 DEF SdkInv, WindowOK, WindowContiguous, Holds
  <1>5. ReceiptIsFrontier'
    BY <1>1 DEF SdkInv, WindowOK, ReceiptIsFrontier
  <1> QED
    BY <1>3, <1>4, <1>5 DEF WindowOK

(* A step of one thread that neither takes, gives nor waits, and leaves    *)
(* the facts that others wait for alone.                                   *)
LEMMA ControlKept ==
    ASSUME SdkInv, NEW t \in Threads, NEW label \in Labels,
           pc' = [pc EXCEPT ![t] = label],
           UNCHANGED <<pool, frontier, control, locals>>,
           label \notin {"record", "flush", "resting", "waiting", "panicked"},
           pc[t] \in {"sending", "settle", "apply"}
             <=> label \in {"sending", "settle", "apply"},
           label = "enter" => pc[t] = "flush",
           label \in {"woken", "late", "recheck", "lastcheck"} =>
             pc[t] \in {"waiting", "woken", "late"}
    PROVE  ControlOK'
  <1>1. /\ pc'[t] = label
        /\ \A u \in Threads : u # t => pc'[u] = pc[u]
        /\ Worker \in Threads /\ \A u \in Callers : u \in Threads
    BY DEF SdkInv, SdkTypeOK, Threads
  <1>2. NeverPanics'
    BY <1>1 DEF SdkInv, ControlOK, control, NeverPanics
  <1>3. WorkerCarries'
    BY <1>1 DEF SdkInv, ControlOK, pool, WorkerCarries
  <1>4. RecordHasPayload'
    BY <1>1 DEF SdkInv, ControlOK, locals, RecordHasPayload
  <1>5. FlushSees'
    BY <1>1 DEF SdkInv, ControlOK, locals, frontier, FlushSees
  <1>6. NoLostWakeup'
    BY <1>1 DEF SdkInv, ControlOK, locals, pool, frontier, control, NoLostWakeup,
       At, Covered
  <1> QED
    BY <1>2, <1>3, <1>4, <1>5, <1>6 DEF ControlOK

(* So a step of that kind, and the one variable beside pc that it changes, *)
(* keep the invariant if they keep the types.                              *)
LEMMA QuietStep ==
    ASSUME SdkInv, NEW t \in Threads, NEW label \in Labels,
           pc' = [pc EXCEPT ![t] = label],
           mutex' \in Threads \union {None},
           UNCHANGED <<pool, frontier, control, locals>>,
           label \notin {"record", "flush", "resting", "waiting", "panicked"},
           pc[t] \in {"sending", "settle", "apply"}
             <=> label \in {"sending", "settle", "apply"},
           label = "enter" => pc[t] = "flush",
           label \in {"woken", "late", "recheck", "lastcheck"} =>
             pc[t] \in {"waiting", "woken", "late"}
    PROVE  SdkInv'
  <1>1. WindowOK'
    BY WindowKept
  <1>2. ControlOK'
    BY ControlKept
  <1>3. SdkTypeOK'
    BY DEF SdkInv, SdkTypeOK, pool, frontier, control, locals
  <1> QED
    BY <1>1, <1>2, <1>3 DEF SdkInv

-----------------------------------------------------------------------------
(* The steps that leave pool and frontier alone *)

LEMMA AcquireInv ==
    ASSUME SdkInv, NEW t \in Threads, Acquire(t) PROVE SdkInv'
  <1>1. /\ pc[t] \in {"flush", "woken", "late", "status", "close", "top",
                      "settle", "relock"}
        /\ pc' = [pc EXCEPT ![t] = Inside[pc[t]]]
        /\ mutex' = t
        /\ UNCHANGED <<pool, frontier, control, locals>>
    BY DEF Acquire, Goto, Inside
  <1>2. /\ Inside[pc[t]] \in Labels
        /\ Inside[pc[t]] \notin {"record", "flush", "resting", "waiting", "panicked"}
        /\ pc[t] \in {"sending", "settle", "apply"}
             <=> Inside[pc[t]] \in {"sending", "settle", "apply"}
        /\ Inside[pc[t]] = "enter" => pc[t] = "flush"
        /\ Inside[pc[t]] \in {"woken", "late", "recheck", "lastcheck"} =>
             pc[t] \in {"waiting", "woken", "late"}
    BY <1>1 DEF Inside, Labels
  <1> HIDE DEF Inside
  <1> QED
    BY <1>1, <1>2, QuietStep

LEMMA SpuriousInv ==
    ASSUME SdkInv, NEW t \in Threads, Spurious(t) PROVE SdkInv'
  <1>1. /\ pc[t] \in {"waiting", "resting", "backoff"}
        /\ pc' = [pc EXCEPT ![t] = Awoken(pc[t])]
        /\ UNCHANGED <<mutex, pool, frontier, control, locals>>
    BY DEF Spurious, Goto
  <1>2. /\ pc[t] = "waiting" => Awoken(pc[t]) = "woken"
        /\ pc[t] = "resting" => Awoken(pc[t]) = "top"
        /\ pc[t] = "backoff" => Awoken(pc[t]) = "relock"
    BY DEF Awoken
  <1>3. mutex' \in Threads \union {None}
    BY <1>1 DEF SdkInv, SdkTypeOK
  <1>4. CASE pc[t] = "waiting"
    BY <1>1, <1>2, <1>3, <1>4, QuietStep DEF Labels
  <1>5. CASE pc[t] = "resting"
    BY <1>1, <1>2, <1>3, <1>5, QuietStep DEF Labels
  <1>6. CASE pc[t] = "backoff"
    BY <1>1, <1>2, <1>3, <1>6, QuietStep DEF Labels
  <1> QED
    BY <1>1, <1>4, <1>5, <1>6

(* Steps that change nothing but mutex and pc. *)
LEMMA PlainInv ==
    ASSUME SdkInv, NEW t \in Callers,
           FlushElapse(t) \/ OtherBegin(t)
    PROVE  SdkInv'
  <1>1. t \in Threads /\ mutex' \in Threads \union {None}
    BY DEF Threads, FlushElapse, OtherBegin, SdkInv, SdkTypeOK
  <1>2. CASE FlushElapse(t)
    <2>1. pc[t] = "waiting" /\ pc' = [pc EXCEPT ![t] = "late"]
          /\ UNCHANGED <<pool, frontier, control, locals>>
      BY <1>2 DEF FlushElapse, At, Goto
    <2> QED
      BY <1>1, <2>1, QuietStep DEF Labels
  <1>3. CASE OtherBegin(t)
    <2>1. /\ pc[t] = "idle"
          /\ pc' = [pc EXCEPT ![t] = "status"] \/ pc' = [pc EXCEPT ![t] = "close"]
          /\ UNCHANGED <<pool, frontier, control, locals>>
      BY <1>3 DEF OtherBegin, At, Goto
    <2> QED
      BY <1>1, <2>1, QuietStep DEF Labels
  <1> QED
    BY <1>2, <1>3

LEMMA WorkerPlainInv ==
    ASSUME SdkInv, WorkerExit \/ BackoffElapse \/ BackoffDiscard
    PROVE  SdkInv'
  <1>1. Worker \in Threads /\ mutex' \in Threads \union {None}
    BY DEF Threads, WorkerExit, BackoffElapse, BackoffDiscard, SdkInv, SdkTypeOK
  <1>2. PICK label \in {"exited", "relock", "top"} :
          /\ pc[Worker] \in {"choose", "backoff", "discard"}
          /\ pc' = [pc EXCEPT ![Worker] = label]
          /\ UNCHANGED <<pool, frontier, control, locals>>
    BY DEF WorkerExit, BackoffElapse, BackoffDiscard, At, Goto
  <1> QED
    BY <1>1, <1>2, QuietStep DEF Labels

LEMMA WorkerRestInv ==
    ASSUME SdkInv, WorkerRest PROVE SdkInv'
  <1>1. /\ pc[Worker] = "choose" /\ ~closed /\ ready = <<>>
        /\ pc' = [pc EXCEPT ![Worker] = "resting"] /\ mutex' = None
        /\ UNCHANGED <<pool, frontier, control, locals>>
    BY DEF WorkerRest, At, Goto
  <1>2. WindowOK'
    BY <1>1, WindowKept
  <1>3. SdkTypeOK'
    BY <1>1 DEF SdkInv, SdkTypeOK, pool, frontier, control, locals, Labels
  <1>4. /\ pc'[Worker] = "resting"
        /\ \A u \in Callers : pc'[u] = pc[u]
    BY <1>1, SdkAssumption DEF SdkInv, SdkTypeOK, Threads
  <1>5. ControlOK'
    BY <1>1, <1>4 DEF SdkInv, ControlOK, NeverPanics, WorkerCarries, RecordHasPayload,
       FlushSees, NoLostWakeup, At, Covered, pool, frontier, control, locals
  <1> QED
    BY <1>2, <1>3, <1>5 DEF SdkInv

LEMMA AnswerInv ==
    ASSUME SdkInv, NEW returned \in Receipt \union {None}, Answer(returned)
    PROVE  SdkInv'
  <1>1. /\ pc[Worker] = "sending" /\ pc' = [pc EXCEPT ![Worker] = "settle"]
        /\ reply' = returned
        /\ UNCHANGED <<mutex, pool, frontier, poisoned, closed, locals>>
    BY DEF Answer, At, Goto
  <1>2. WindowOK'
    BY <1>1, WindowKept
  <1>3. SdkTypeOK'
    BY <1>1, SdkAssumption DEF SdkInv, SdkTypeOK, pool, frontier, locals, Labels
  <1>4. /\ pc'[Worker] = "settle"
        /\ \A u \in Callers : pc'[u] = pc[u]
    BY <1>1, SdkAssumption DEF SdkInv, SdkTypeOK, Threads
  <1>5. ControlOK'
    BY <1>1, <1>4 DEF SdkInv, ControlOK, NeverPanics, WorkerCarries, RecordHasPayload,
       FlushSees, NoLostWakeup, At, Covered, pool, frontier, locals
  <1> QED
    BY <1>2, <1>3, <1>5 DEF SdkInv

(* Being woken keeps a thread in the part of its operation that it was in. *)
LEMMA AwokenFacts ==
    ASSUME NEW label \in Labels
    PROVE  /\ Awoken(label) \in Labels
           /\ Awoken(label) \notin {"waiting", "resting", "backoff"}
           /\ Awoken(label) \in {"sending", "settle", "apply"}
                <=> label \in {"sending", "settle", "apply"}
           /\ Awoken(label) = "record" => label = "record"
           /\ Awoken(label) \in {"flush", "enter"} => label \in {"flush", "enter"}
           /\ Awoken(label) \in {"waiting", "woken", "late", "recheck", "lastcheck"}
                => label \in {"waiting", "woken", "late", "recheck", "lastcheck"}
           /\ Awoken(label) = "panicked" => label = "panicked"
  BY DEF Awoken, Labels

LEMMA NotifyFacts ==
    ASSUME SdkInv, NEW t \in Threads, NEW label \in Labels, GotoNotifying(t, label)
    PROVE  /\ pc' \in [Threads -> Labels]
           /\ pc'[t] = label
           /\ \A u \in Threads : u # t => pc'[u] = Awoken(pc[u])
  <1>1. \A u \in Threads : Awoken(pc[u]) \in Labels
    BY AwokenFacts DEF SdkInv, SdkTypeOK
  <1> QED
    BY <1>1 DEF GotoNotifying

-----------------------------------------------------------------------------
(* The steps of a caller *)

LEMMA CallerIsThread ==
    \A t \in Callers : t \in Threads /\ t # Worker /\ Worker \in Threads
  BY SdkAssumption DEF Threads

LEMMA LeaveInv ==
    ASSUME SdkInv, NEW t \in Callers, Leave(t) PROVE SdkInv'
  <1>1. /\ pc' = [pc EXCEPT ![t] = "idle"] /\ mutex' = None
        /\ arg' = [arg EXCEPT ![t] = None]
        /\ target' = [target EXCEPT ![t] = 0]
        /\ seen' = [seen EXCEPT ![t] = 0]
        /\ UNCHANGED <<pool, frontier, control>>
    BY DEF Leave, Return, Finish, Goto
  <1>2. WindowOK'
    BY <1>1, WindowKept
  <1>3. SdkTypeOK'
    BY <1>1 DEF SdkInv, SdkTypeOK, pool, frontier, control, Labels
  <1>4. /\ pc'[t] = "idle" /\ pc'[Worker] = pc[Worker]
        /\ \A u \in Callers : u # t => /\ pc'[u] = pc[u] /\ arg'[u] = arg[u]
                                       /\ target'[u] = target[u] /\ seen'[u] = seen[u]
    BY <1>1, CallerIsThread DEF SdkInv, SdkTypeOK
  <1>5. ControlOK'
    BY <1>1, <1>4 DEF SdkInv, ControlOK, NeverPanics, WorkerCarries, RecordHasPayload,
       FlushSees, NoLostWakeup, At, Covered, pool, frontier, control
  <1> QED
    BY <1>2, <1>3, <1>5 DEF SdkInv

LEMMA TryRecordInv ==
    ASSUME SdkInv, NEW t \in Callers, NEW payload \in Payloads, TryRecord(t, payload)
    PROVE  SdkInv'
  <1>1. /\ pc' = [pc EXCEPT ![t] = "record"] /\ mutex' = t
        /\ arg' = [arg EXCEPT ![t] = payload]
        /\ UNCHANGED <<pool, frontier, control, target, seen>>
    BY DEF TryRecord, Goto
  <1>2. WindowOK'
    BY <1>1, WindowKept
  <1>3. SdkTypeOK'
    BY <1>1, CallerIsThread DEF SdkInv, SdkTypeOK, pool, frontier, control, Labels
  <1>4. /\ pc'[t] = "record" /\ arg'[t] = payload /\ pc'[Worker] = pc[Worker]
        /\ \A u \in Callers : u # t => pc'[u] = pc[u] /\ arg'[u] = arg[u]
    BY <1>1, CallerIsThread DEF SdkInv, SdkTypeOK
  <1>5. ControlOK'
    BY <1>1, <1>4 DEF SdkInv, ControlOK, NeverPanics, WorkerCarries, RecordHasPayload,
       FlushSees, NoLostWakeup, At, Covered, pool, frontier, control
  <1> QED
    BY <1>2, <1>3, <1>5 DEF SdkInv

LEMMA FlushBeginInv ==
    ASSUME SdkInv, NEW t \in Callers, FlushBegin(t) PROVE SdkInv'
  <1>1. /\ pc' = [pc EXCEPT ![t] = "flush"]
        /\ seen' = [seen EXCEPT ![t] = accepted]
        /\ UNCHANGED <<mutex, pool, frontier, control, arg, target>>
    BY DEF FlushBegin, Goto
  <1>2. WindowOK'
    BY <1>1, WindowKept
  <1>3. SdkTypeOK'
    <2>1. accepted \in Nat
      BY U64Assumption DEF SdkInv, SdkTypeOK
    <2> QED
      BY <1>1, <2>1 DEF SdkInv, SdkTypeOK, pool, frontier, control, Labels
  <1>4. /\ pc'[t] = "flush" /\ seen'[t] = accepted /\ pc'[Worker] = pc[Worker]
        /\ \A u \in Callers : u # t => pc'[u] = pc[u] /\ seen'[u] = seen[u]
    BY <1>1, CallerIsThread DEF SdkInv, SdkTypeOK
  <1>5. FlushSees'
    BY <1>1, <1>4 DEF SdkInv, SdkTypeOK, ControlOK, FlushSees, frontier
  <1>6. NeverPanics' /\ WorkerCarries' /\ RecordHasPayload' /\ NoLostWakeup'
    BY <1>1, <1>4 DEF SdkInv, ControlOK, NeverPanics, WorkerCarries, RecordHasPayload,
       NoLostWakeup, At, Covered, pool, frontier, control
  <1> QED
    BY <1>2, <1>3, <1>5, <1>6 DEF SdkInv, ControlOK

(* A flush that waits, waits for a frontier that is not covered. *)
LEMMA FlushWaitInv ==
    ASSUME SdkInv, NEW t \in Callers, NEW goal \in Nat, seen[t] <= goal,
           FlushWait(t, goal)
    PROVE  SdkInv'
  <1>1. /\ pc' = [pc EXCEPT ![t] = "waiting"] /\ mutex' = None
        /\ target' = [target EXCEPT ![t] = goal]
        /\ ~Covered(confirmed, goal)
        /\ UNCHANGED <<pool, frontier, control, arg, seen>>
    BY DEF FlushWait, Goto
  <1>2. WindowOK'
    BY <1>1, WindowKept
  <1>3. SdkTypeOK'
    BY <1>1 DEF SdkInv, SdkTypeOK, pool, frontier, control, Labels
  <1>4. /\ pc'[t] = "waiting" /\ target'[t] = goal /\ pc'[Worker] = pc[Worker]
        /\ \A u \in Callers : u # t => pc'[u] = pc[u] /\ target'[u] = target[u]
    BY <1>1, CallerIsThread DEF SdkInv, SdkTypeOK
  <1>5. ControlOK'
    BY <1>1, <1>4 DEF SdkInv, ControlOK, NeverPanics, WorkerCarries, RecordHasPayload,
       FlushSees, NoLostWakeup, At, Covered, pool, frontier, control
  <1> QED
    BY <1>2, <1>3, <1>5 DEF SdkInv

LEMMA FlushLoopInv ==
    ASSUME SdkInv, NEW t \in Callers, NEW goal \in Nat, seen[t] <= goal,
           FlushLoop(t, goal)
    PROVE  SdkInv'
  BY LeaveInv, FlushWaitInv DEF FlushLoop, FlushSucceed

LEMMA FlushInv ==
    ASSUME SdkInv, NEW t \in Callers, FlushEnter(t) \/ FlushRecheck(t)
    PROVE  SdkInv'
  <1>1. CASE FlushEnter(t)
    <2>1. accepted \in Nat /\ seen[t] <= accepted
      BY <1>1, SdkAssumption, U64Assumption
      DEF FlushEnter, At, SdkInv, SdkTypeOK, ControlOK, FlushSees
    <2>2. Leave(t) \/ FlushLoop(t, accepted)
      BY <1>1 DEF FlushEnter
    <2> QED
      BY <2>1, <2>2, LeaveInv, FlushLoopInv
  <1>2. CASE FlushRecheck(t)
    <2>1. target[t] \in Nat /\ seen[t] <= target[t]
      BY <1>2 DEF FlushRecheck, SdkInv, SdkTypeOK, ControlOK, FlushSees
    <2>2. Leave(t) \/ FlushLoop(t, target[t])
      BY <1>2 DEF FlushRecheck
    <2> QED
      BY <2>1, <2>2, LeaveInv, FlushLoopInv
  <1> QED
    BY <1>1, <1>2

LEMMA CloseInv ==
    ASSUME SdkInv, NEW t \in Callers, CloseFinish(t) PROVE SdkInv'
  <1>1. /\ GotoNotifying(t, "idle") /\ closed' = TRUE /\ poisoned' = poisoned
        /\ mutex' = None /\ reply' = reply
        /\ arg' = [arg EXCEPT ![t] = None]
        /\ target' = [target EXCEPT ![t] = 0]
        /\ seen' = [seen EXCEPT ![t] = 0]
        /\ UNCHANGED <<pool, frontier>>
    BY DEF CloseFinish, Return, Finish, SdkInv, ControlOK, NeverPanics
  <1>2. WindowOK'
    BY <1>1, WindowKept
  <1>3. /\ pc' \in [Threads -> Labels] /\ pc'[t] = "idle"
        /\ \A u \in Threads : u # t => pc'[u] = Awoken(pc[u])
    BY <1>1, NotifyFacts, CallerIsThread DEF Labels
  <1>4. SdkTypeOK'
    BY <1>1, <1>3 DEF SdkInv, SdkTypeOK, pool, frontier
  <1>5. /\ pc'[Worker] = Awoken(pc[Worker]) /\ pc[Worker] \in Labels
        /\ \A u \in Callers : u # t => /\ pc'[u] = Awoken(pc[u]) /\ pc[u] \in Labels
                                       /\ arg'[u] = arg[u]
                                       /\ target'[u] = target[u] /\ seen'[u] = seen[u]
    BY <1>1, <1>3, CallerIsThread DEF SdkInv, SdkTypeOK
  <1>6. NeverPanics' /\ WorkerCarries'
    BY <1>1, <1>5, AwokenFacts DEF SdkInv, ControlOK, NeverPanics, WorkerCarries, pool
  <1>7. RecordHasPayload' /\ FlushSees'
    BY <1>1, <1>3, <1>5, AwokenFacts DEF SdkInv, ControlOK, RecordHasPayload, FlushSees,
       frontier
  <1>8. NoLostWakeup'
    BY <1>3, <1>5, AwokenFacts DEF NoLostWakeup, At
  <1> QED
    BY <1>2, <1>4, <1>6, <1>7, <1>8 DEF SdkInv, ControlOK

-----------------------------------------------------------------------------
(* The charged buffers *)

(* What a proof needs of the sequence of charged slots. *)
LEMMA ChargedFacts ==
    ASSUME SdkInv
    PROVE  /\ Charged \in Seq(SlotIds)
           /\ carried = None => Charged = ready
           /\ carried # None => /\ Charged = <<carried>> \o ready
                                /\ Len(Charged) = Len(ready) + 1
                                /\ Charged[1] = carried
                                /\ \A k \in 1 .. Len(ready) : Charged[k + 1] = ready[k]
           /\ \A i \in free : i \notin ChargedSlots
           /\ \A k \in 1 .. Len(Charged) : Charged[k] \in SlotIds \ free
           /\ DOMAIN ready = 1 .. Len(ready) /\ DOMAIN Charged = 1 .. Len(Charged)
  <1>1. ready \in Seq(SlotIds) /\ carried \in SlotIds \union {None}
    BY DEF SdkInv, SdkTypeOK
  <1>2. /\ Charged \in Seq(SlotIds)
        /\ carried = None => Charged = ready
        /\ carried # None => /\ Charged = <<carried>> \o ready
                             /\ Len(Charged) = Len(ready) + 1
                             /\ Charged[1] = carried
                             /\ \A k \in 1 .. Len(ready) : Charged[k + 1] = ready[k]
    BY <1>1 DEF Charged
  <1>3. \A i \in free : i \notin ChargedSlots
    BY DEF SdkInv, WindowOK, PoolPartition
  <1>4. DOMAIN ready = 1 .. Len(ready) /\ DOMAIN Charged = 1 .. Len(Charged)
    BY <1>1, <1>2
  <1>5. \A k \in 1 .. Len(Charged) : Charged[k] \in SlotIds \ free
    <2>1. ASSUME NEW k \in 1 .. Len(Charged) PROVE Charged[k] \in SlotIds
      BY <1>2
    <2>2. ASSUME NEW k \in 1 .. Len(Charged) PROVE Charged[k] \in ChargedSlots
      BY <1>4 DEF ChargedSlots
    <2> QED
      BY <1>3, <2>1, <2>2
  <1> QED
    BY <1>2, <1>3, <1>4, <1>5

(* Where the ready buffers and the carried one are. *)
LEMMA ReadyCharged ==
    ASSUME SdkInv
    PROVE  /\ \A k \in 1 .. Len(ready) : ready[k] \in SlotIds \ free
           /\ carried # None => carried \in SlotIds \ free
  <1>1. ready \in Seq(SlotIds) /\ Len(ready) \in Nat
    BY DEF SdkInv, SdkTypeOK
  <1>2. CASE carried = None
    BY <1>1, <1>2, ChargedFacts
  <1>3. CASE carried # None
    <2>1. 1 \in 1 .. Len(Charged) /\ Charged[1] = carried
      BY <1>1, <1>3, ChargedFacts
    <2>2. ASSUME NEW k \in 1 .. Len(ready)
          PROVE  k + 1 \in 1 .. Len(Charged) /\ Charged[k + 1] = ready[k]
      BY <1>1, <1>3, ChargedFacts
    <2> QED
      BY <2>1, <2>2, ChargedFacts
  <1> QED
    BY <1>2, <1>3

(* A free buffer can be reserved, so the assertion of try_record holds. *)
LEMMA FreeReservable ==
    ASSUME SdkInv, NEW i \in free
    PROVE  CanReserve(buffer[i]) /\ i \in SlotIds /\ buffer[i] \in Buffer
           /\ buffer[i].phase = "Free" /\ buffer[i].len = 0
  BY DEF SdkInv, SdkTypeOK, WindowOK, PoolPartition, CanReserve

LEMMA RecordRejectedInv ==
    ASSUME SdkInv, NEW t \in Callers, NEW i \in free, At(t, "record"),
           RecordRejected(t, i)
    PROVE  SdkInv'
  <1> DEFINE after == CancelSlot(Scribbled(ReserveSlot(buffer[i]), arg[t]))
  <1>1. /\ pc' = [pc EXCEPT ![t] = "idle"] /\ mutex' = None
        /\ arg' = [arg EXCEPT ![t] = None]
        /\ target' = [target EXCEPT ![t] = 0]
        /\ seen' = [seen EXCEPT ![t] = 0]
        /\ buffer' = [buffer EXCEPT ![i] = after]
        /\ UNCHANGED <<free, ready, inflight, carried, frontier, control>>
    BY DEF RecordRejected, Return, Finish, Goto
  <1>2. arg[t] \in Payloads
    BY DEF At, SdkInv, ControlOK, RecordHasPayload
  <1>3. after \in Buffer /\ after.phase = "Free" /\ after.len = 0
    BY <1>2, FreeReservable DEF CancelSlot, Scribbled, ReserveSlot, Buffer, Phases
  <1> HIDE DEF after
  <1>4. /\ buffer' \in [SlotIds -> Buffer] /\ buffer'[i] = after
        /\ \A j \in SlotIds : j # i => buffer'[j] = buffer[j]
    BY <1>1, <1>3, FreeReservable DEF SdkInv, SdkTypeOK
  <1>5. Charged' = Charged
    BY <1>1 DEF Charged
  <1>6. PoolPartition'
    <2>1. \A j \in free : buffer'[j].phase = "Free" /\ buffer'[j].len = 0
      BY <1>3, <1>4, FreeReservable
    <2>2. \A k \in 1 .. Len(ready) : ready[k] # i /\ ready[k] \in SlotIds
      BY ReadyCharged
    <2>3. carried # None => carried # i /\ carried \in SlotIds
      BY ReadyCharged
    <2>4. \A k \in DOMAIN ready : buffer'[ready[k]].phase = "Ready"
      BY <1>4, <2>2, ChargedFacts DEF SdkInv, WindowOK, PoolPartition
    <2>5. carried # None => buffer'[carried].phase = "Leased"
      BY <1>4, <2>3 DEF SdkInv, WindowOK, PoolPartition
    <2> QED
      BY <1>1, <1>5, <2>1, <2>4, <2>5 DEF SdkInv, WindowOK, PoolPartition, ChargedSlots
  <1>7. WindowContiguous'
    <2>1. \A k \in 1 .. Len(Charged) : buffer'[Charged[k]] = buffer[Charged[k]]
      BY <1>4, ChargedFacts
    <2>2. accepted' = accepted /\ confirmed' = confirmed /\ log' = log
      BY <1>1 DEF frontier
    <2>3. \A k \in DOMAIN Charged : Holds(buffer[Charged[k]], confirmed + k)'
      BY <1>5, <2>1, <2>2, ChargedFacts DEF SdkInv, WindowOK, WindowContiguous, Holds
    <2> QED
      BY <1>5, <2>2, <2>3 DEF SdkInv, WindowOK, WindowContiguous
  <1>8. ReceiptIsFrontier'
    BY <1>1 DEF SdkInv, WindowOK, ReceiptIsFrontier, frontier
  <1>9. SdkTypeOK'
    BY <1>1, <1>4 DEF SdkInv, SdkTypeOK, frontier, control, Labels
  <1>10. /\ pc'[t] = "idle" /\ pc'[Worker] = pc[Worker]
         /\ \A u \in Callers : u # t => /\ pc'[u] = pc[u] /\ arg'[u] = arg[u]
                                        /\ target'[u] = target[u] /\ seen'[u] = seen[u]
    BY <1>1, CallerIsThread DEF SdkInv, SdkTypeOK
  <1>11. ControlOK'
    BY <1>1, <1>10 DEF SdkInv, ControlOK, NeverPanics, WorkerCarries, RecordHasPayload,
       FlushSees, NoLostWakeup, At, Covered, frontier, control
  <1> QED
    BY <1>6, <1>7, <1>8, <1>9, <1>11 DEF SdkInv, WindowOK

(* Appending, with the domain and each element apart. *)
LEMMA AppendFacts ==
    ASSUME NEW S, NEW s \in Seq(S), NEW e \in S
    PROVE  /\ Append(s, e) \in Seq(S)
           /\ Len(s) \in Nat /\ Len(Append(s, e)) = Len(s) + 1
           /\ DOMAIN s = 1 .. Len(s) /\ DOMAIN Append(s, e) = 1 .. Len(s) + 1
           /\ \A k \in 1 .. Len(s) : Append(s, e)[k] = s[k]
           /\ Append(s, e)[Len(s) + 1] = e
  <1>1. Append(s, e) \in Seq(S) /\ Len(Append(s, e)) = Len(s) + 1 /\ Len(s) \in Nat
    OBVIOUS
  <1>2. DOMAIN s = 1 .. Len(s) /\ DOMAIN Append(s, e) = 1 .. Len(s) + 1
    BY <1>1
  <1>3. \A k \in 1 .. Len(s) : Append(s, e)[k] = s[k]
    OBVIOUS
  <1>4. Append(s, e)[Len(s) + 1] = e
    OBVIOUS
  <1> QED
    BY <1>1, <1>2, <1>3, <1>4

(* One more charged buffer, at the end of the window. *)
LEMMA RecordAcceptedInv ==
    ASSUME SdkInv, NEW t \in Callers, NEW i \in free, At(t, "record"),
           Refusal = "Proceed", RecordAccepted(t, i)
    PROVE  SdkInv'
  <1> DEFINE after == [PublishSlot(ReserveSlot(buffer[i]), Size[arg[t]]) EXCEPT
                         !.sequence = accepted + 1, !.bytes = arg[t]]
             n == Len(Charged)
  <1>1. /\ GotoNotifying(t, "idle") /\ mutex' = None
        /\ arg' = [arg EXCEPT ![t] = None]
        /\ target' = [target EXCEPT ![t] = 0]
        /\ seen' = [seen EXCEPT ![t] = 0]
        /\ buffer' = [buffer EXCEPT ![i] = after]
        /\ free' = free \ {i} /\ ready' = Append(ready, i)
        /\ accepted' = accepted + 1 /\ log' = Append(log, arg[t])
        /\ UNCHANGED <<inflight, carried, confirmed, last_receipt, control>>
    BY DEF RecordAccepted, Return, Finish
  <1>2. arg[t] \in Payloads /\ Size[arg[t]] \in Nat
    BY SdkAssumption DEF At, SdkInv, ControlOK, RecordHasPayload
  <1>3. /\ accepted \in Nat /\ confirmed \in Nat /\ log \in Seq(Payloads)
        /\ accepted = Len(log) /\ accepted = confirmed + n
        /\ ready \in Seq(SlotIds) /\ Charged \in Seq(SlotIds) /\ n \in Nat
    BY U64Assumption, ChargedFacts DEF SdkInv, SdkTypeOK, WindowOK, WindowContiguous
  <1>4. accepted + 1 \in 0 .. U64Max
    BY <1>3, U64Assumption DEF Refusal, SdkInv, SdkTypeOK
  <1>5. /\ after \in Buffer /\ after.phase = "Ready" /\ after.len = Size[arg[t]]
        /\ after.sequence = accepted + 1 /\ after.bytes = arg[t]
    <2> DEFINE kept == PublishSlot(ReserveSlot(buffer[i]), Size[arg[t]])
    <2>1. kept \in Buffer /\ kept.phase = "Ready" /\ kept.len = Size[arg[t]]
      BY <1>2, FreeReservable DEF PublishSlot, ReserveSlot, Buffer, Phases
    <2>2. accepted + 1 \in Nat
      BY <1>3
    <2>3. after = [kept EXCEPT !.sequence = accepted + 1, !.bytes = arg[t]]
      OBVIOUS
    <2> HIDE DEF kept, after
    <2> QED
      BY <1>2, <2>1, <2>2, <2>3 DEF Buffer
  <1> HIDE DEF after
  <1>6. /\ buffer' \in [SlotIds -> Buffer] /\ buffer'[i] = after /\ i \in SlotIds
        /\ \A j \in SlotIds : j # i => buffer'[j] = buffer[j]
    BY <1>1, <1>5, FreeReservable DEF SdkInv, SdkTypeOK
  <1>7. Charged' = Append(Charged, i)
    <2>1. CASE carried = None
      BY <1>1, <2>1 DEF Charged
    <2>2. CASE carried # None
      <3>1. carried \in SlotIds
        BY <2>2, ReadyCharged
      <3>2. <<carried>> \o Append(ready, i) = Append(<<carried>> \o ready, i)
        BY <1>3, <1>6, <3>1
      <3> QED
        BY <1>1, <2>2, <3>2 DEF Charged
    <2> QED
      BY <2>1, <2>2
  <1>8. /\ DOMAIN Charged' = 1 .. n + 1 /\ DOMAIN Charged = 1 .. n
        /\ Charged'[n + 1] = i
        /\ \A k \in 1 .. n : Charged'[k] = Charged[k] /\ Charged[k] \in SlotIds \ free
        /\ Len(Charged') = n + 1
    <2>1. /\ DOMAIN Append(Charged, i) = 1 .. n + 1
          /\ Append(Charged, i)[n + 1] = i
          /\ \A k \in 1 .. n : Append(Charged, i)[k] = Charged[k]
          /\ Len(Append(Charged, i)) = n + 1
      BY <1>3, <1>6, AppendFacts
    <2>2. DOMAIN Charged = 1 .. n /\ \A k \in 1 .. n : Charged[k] \in SlotIds \ free
      BY ChargedFacts
    <2> QED
      BY <1>7, <2>1, <2>2
  <1>9. /\ DOMAIN ready' = 1 .. Len(ready) + 1 /\ ready'[Len(ready) + 1] = i
        /\ \A k \in 1 .. Len(ready) : ready'[k] = ready[k]
        /\ DOMAIN ready = 1 .. Len(ready) /\ Len(ready) \in Nat
        /\ ready' \in Seq(SlotIds)
    BY <1>1, <1>3, <1>6, AppendFacts
  <1> HIDE DEF n
  <1>10. PoolPartition'
    <2>1. ChargedSlots' = ChargedSlots \union {i}
      <3>1. \A k \in DOMAIN Charged' : k \in DOMAIN Charged \/ k = n + 1
        BY <1>3, <1>8
      <3>2. n + 1 \in DOMAIN Charged' /\ \A k \in DOMAIN Charged : k \in DOMAIN Charged'
        BY <1>3, <1>8
      <3> QED
        BY <1>8, <3>1, <3>2 DEF ChargedSlots
    <2>2. free' \intersect ChargedSlots' = {} /\ free' \union ChargedSlots' = SlotIds
      BY <1>1, <1>6, <2>1 DEF SdkInv, WindowOK, PoolPartition
    <2>3. \A j, k \in DOMAIN Charged' : Charged'[j] = Charged'[k] => j = k
      <3>1. \A j, k \in 1 .. n : Charged'[j] = Charged'[k] => j = k
        BY <1>8 DEF SdkInv, WindowOK, PoolPartition
      <3>2. \A k \in 1 .. n : Charged'[k] # i
        BY <1>8
      <3>3. \A k \in DOMAIN Charged' : k \in 1 .. n \/ k = n + 1
        BY <1>3, <1>8
      <3> QED
        BY <1>8, <3>1, <3>2, <3>3
    <2>4. \A j \in free' : buffer'[j].phase = "Free" /\ buffer'[j].len = 0
      BY <1>1, <1>6, FreeReservable
    <2>5. \A k \in DOMAIN ready' : buffer'[ready'[k]].phase = "Ready"
      <3>1. \A k \in 1 .. Len(ready) : buffer'[ready'[k]].phase = "Ready"
        BY <1>6, <1>9, ReadyCharged DEF SdkInv, WindowOK, PoolPartition
      <3>2. buffer'[ready'[Len(ready) + 1]].phase = "Ready"
        BY <1>5, <1>6, <1>9
      <3>3. \A k \in DOMAIN ready' : k \in 1 .. Len(ready) \/ k = Len(ready) + 1
        BY <1>9
      <3> QED
        BY <3>1, <3>2, <3>3
    <2>6. carried' # None => buffer'[carried'].phase = "Leased"
      BY <1>1, <1>6, ReadyCharged DEF SdkInv, WindowOK, PoolPartition
    <2>7. inflight' = carried'
      BY <1>1 DEF SdkInv, WindowOK, PoolPartition
    <2> QED
      BY <2>2, <2>3, <2>4, <2>5, <2>6, <2>7 DEF PoolPartition
  <1>11. WindowContiguous'
    <2>0. /\ Len(log') = Len(log) + 1
          /\ \A m \in 1 .. Len(log) : log'[m] = log[m]
          /\ log'[Len(log) + 1] = arg[t]
      <3>1. log \in Seq(Payloads)
        BY <1>3
      <3> QED
        BY <1>1, <1>2, <3>1, AppendFacts
    <2>1. accepted' = Len(log') /\ accepted' = confirmed' + Len(Charged')
      BY <1>1, <1>3, <1>8, <2>0
    <2>2. \A k \in 1 .. n : confirmed + k \in 1 .. accepted
      BY <1>3
    <2>3. /\ \A m \in 1 .. accepted : log'[m] = log[m]
          /\ log'[accepted + 1] = arg[t]
      BY <1>3, <2>0
    <2>4. ASSUME NEW k \in 1 .. n PROVE Holds(buffer[Charged[k]], confirmed + k)'
      <3>1. Holds(buffer[Charged[k]], confirmed + k)
        BY <1>8 DEF SdkInv, WindowOK, WindowContiguous
      <3>2. buffer'[Charged'[k]] = buffer[Charged[k]]
        BY <1>6, <1>8
      <3>3. log'[confirmed + k] = log[confirmed + k]
        BY <2>2, <2>3
      <3> QED
        BY <1>1, <3>1, <3>2, <3>3 DEF Holds
    <2>5. \A k \in DOMAIN Charged' : k = n + 1 => Holds(buffer[Charged[k]], confirmed + k)'
      <3>1. confirmed + (n + 1) = accepted + 1
        BY <1>3
      <3>2. confirmed' + (n + 1) = accepted + 1 /\ buffer'[Charged'[n + 1]] = after
        BY <1>1, <1>6, <1>8, <3>1
      <3>3. ASSUME NEW k \in DOMAIN Charged', k = n + 1
            PROVE  confirmed' + k = accepted + 1 /\ buffer'[Charged'[k]] = after
        BY <3>2, <3>3
      <3>4. ASSUME NEW k \in DOMAIN Charged', k = n + 1
            PROVE  Holds(buffer[Charged[k]], confirmed + k)'
        BY <1>5, <2>3, <3>3, <3>4 DEF Holds
      <3> QED
        BY <3>4
    <2>6. \A k \in DOMAIN Charged' : k \in 1 .. n \/ k = n + 1
      BY <1>3, <1>8
    <2>7. \A k \in DOMAIN Charged' : Holds(buffer[Charged[k]], confirmed + k)'
      BY <2>4, <2>5, <2>6, Zenon
    <2> QED
      BY <2>1, <2>7 DEF WindowContiguous
  <1>12. ReceiptIsFrontier'
    BY <1>1 DEF SdkInv, WindowOK, ReceiptIsFrontier
  <1>13. /\ pc' \in [Threads -> Labels] /\ pc'[t] = "idle"
         /\ \A u \in Threads : u # t => pc'[u] = Awoken(pc[u])
    BY <1>1, NotifyFacts, CallerIsThread DEF Labels
  <1>14. SdkTypeOK'
    <2>1. free' \subseteq SlotIds /\ log' \in Seq(Payloads)
      BY <1>1, <1>2, <1>3 DEF SdkInv, SdkTypeOK
    <2> QED
      BY <1>1, <1>4, <1>6, <1>9, <1>13, <2>1 DEF SdkInv, SdkTypeOK, control
  <1>15. /\ pc'[Worker] = Awoken(pc[Worker]) /\ pc[Worker] \in Labels
         /\ \A u \in Callers : u # t => /\ pc'[u] = Awoken(pc[u]) /\ pc[u] \in Labels
                                        /\ arg'[u] = arg[u] /\ target'[u] = target[u]
                                        /\ seen'[u] = seen[u] /\ seen[u] \in Nat
    BY <1>1, <1>13, CallerIsThread DEF SdkInv, SdkTypeOK
  <1>16. NeverPanics' /\ WorkerCarries'
    BY <1>1, <1>15, AwokenFacts DEF SdkInv, ControlOK, NeverPanics, WorkerCarries, control
  <1>17. RecordHasPayload'
    BY <1>13, <1>15, AwokenFacts DEF SdkInv, ControlOK, RecordHasPayload
  <1>18. FlushSees'
    <2>1. \A m \in Nat : m <= accepted => m <= accepted'
      BY <1>1, <1>3
    <2>2. ASSUME NEW u \in Callers, u # t, pc'[u] \in {"flush", "enter"}
          PROVE  seen'[u] <= accepted'
      <3>1. pc[u] \in {"flush", "enter"}
        BY <1>15, <2>2, AwokenFacts
      <3> QED
        BY <1>15, <2>1, <2>2, <3>1 DEF SdkInv, ControlOK, FlushSees
    <2>3. ASSUME NEW u \in Callers, u # t,
                 pc'[u] \in {"waiting", "woken", "late", "recheck", "lastcheck"}
          PROVE  seen'[u] <= target'[u]
      <3>1. pc[u] \in {"waiting", "woken", "late", "recheck", "lastcheck"}
        BY <1>15, <2>3, AwokenFacts
      <3> QED
        BY <1>15, <2>3, <3>1 DEF SdkInv, ControlOK, FlushSees
    <2> QED
      BY <1>13, <2>2, <2>3 DEF FlushSees
  <1>19. NoLostWakeup'
    BY <1>13, <1>15, AwokenFacts DEF NoLostWakeup, At
  <1> QED
    BY <1>10, <1>11, <1>12, <1>14, <1>16, <1>17, <1>18, <1>19
    DEF SdkInv, WindowOK, ControlOK

LEMMA RecordIntoInv ==
    ASSUME SdkInv, NEW t \in Callers, RecordInto(t) PROVE SdkInv'
  <1>1. PICK i \in free :
          IF ~CanReserve(buffer[i]) THEN RecordPanics(t, i)
          ELSE IF Encoding(arg[t]) = "Accepted" THEN RecordAccepted(t, i)
          ELSE RecordRejected(t, i)
    BY DEF RecordInto
  <1>2. At(t, "record") /\ Refusal = "Proceed" /\ CanReserve(buffer[i])
    BY FreeReservable DEF RecordInto
  <1> QED
    BY <1>1, <1>2, RecordAcceptedInv, RecordRejectedInv

-----------------------------------------------------------------------------
(* The steps of the worker *)

(* A sequence that is not empty, by its head and its tail. *)
LEMMA TailFacts ==
    ASSUME NEW S, NEW s \in Seq(S), s # <<>>
    PROVE  /\ Head(s) \in S /\ Tail(s) \in Seq(S)
           /\ Len(s) \in Nat /\ Len(s) # 0 /\ Len(Tail(s)) = Len(s) - 1
           /\ DOMAIN Tail(s) = 1 .. Len(s) - 1
           /\ Head(s) = s[1] /\ <<Head(s)>> \o Tail(s) = s
           /\ \A k \in 1 .. Len(s) - 1 : Tail(s)[k] = s[k + 1] /\ k + 1 \in 1 .. Len(s)
  <1>1. Len(s) \in Nat /\ Len(s) # 0
    OBVIOUS
  <1>2. Tail(s) \in Seq(S) /\ Len(Tail(s)) = Len(s) - 1 /\ Head(s) = s[1]
    BY <1>1
  <1>3. Head(s) \in S /\ DOMAIN Tail(s) = 1 .. Len(s) - 1
    BY <1>1, <1>2
  <1>4. \A k \in 1 .. Len(s) - 1 : Tail(s)[k] = s[k + 1] /\ k + 1 \in 1 .. Len(s)
    BY <1>1
  <1>5. <<Head(s)>> \o Tail(s) = s
    <2>1. /\ <<Head(s)>> \o Tail(s) \in Seq(S)
          /\ Len(<<Head(s)>> \o Tail(s)) = Len(s)
      BY <1>1, <1>2, <1>3
    <2>2. \A k \in 1 .. Len(s) : (<<Head(s)>> \o Tail(s))[k] = s[k]
      BY <1>1, <1>2, <1>3, <1>4
    <2> QED
      BY <2>1, <2>2
  <1> QED
    BY <1>1, <1>2, <1>3, <1>4, <1>5

(* A charged buffer changes phase and nothing else, and stays charged.     *)
LEMMA PhaseStep ==
    ASSUME SdkInv, NEW i \in SlotIds \ free, NEW p \in Phases,
           buffer' = [buffer EXCEPT ![i] = [@ EXCEPT !.phase = p]],
           Charged' = Charged, free' = free, UNCHANGED frontier
    PROVE  /\ buffer' \in [SlotIds -> Buffer] /\ buffer'[i].phase = p
           /\ \A j \in SlotIds : j # i => buffer'[j] = buffer[j]
           /\ free' \intersect ChargedSlots' = {}
           /\ free' \union ChargedSlots' = SlotIds
           /\ \A j, k \in DOMAIN Charged' : Charged'[j] = Charged'[k] => j = k
           /\ \A j \in free' : buffer'[j].phase = "Free" /\ buffer'[j].len = 0
           /\ WindowContiguous'
           /\ ReceiptIsFrontier'
  <1>1. buffer \in [SlotIds -> Buffer] /\ i \in SlotIds
    BY DEF SdkInv, SdkTypeOK
  <1>2. /\ buffer'[i] = [buffer[i] EXCEPT !.phase = p]
        /\ \A j \in SlotIds : j # i => buffer'[j] = buffer[j]
    BY <1>1
  <1>3. /\ [buffer[i] EXCEPT !.phase = p] \in Buffer
        /\ [buffer[i] EXCEPT !.phase = p].phase = p
        /\ [buffer[i] EXCEPT !.phase = p].len = buffer[i].len
        /\ [buffer[i] EXCEPT !.phase = p].sequence = buffer[i].sequence
        /\ [buffer[i] EXCEPT !.phase = p].bytes = buffer[i].bytes
    BY <1>1 DEF Buffer
  <1>4. /\ buffer' \in [SlotIds -> Buffer] /\ buffer'[i].phase = p
        /\ \A j \in SlotIds : /\ buffer'[j].len = buffer[j].len
                              /\ buffer'[j].sequence = buffer[j].sequence
                              /\ buffer'[j].bytes = buffer[j].bytes
    BY <1>1, <1>2, <1>3
  <1>5. ChargedSlots' = ChargedSlots
    BY DEF ChargedSlots
  <1>6. /\ free' \intersect ChargedSlots' = {}
        /\ free' \union ChargedSlots' = SlotIds
        /\ \A j, k \in DOMAIN Charged' : Charged'[j] = Charged'[k] => j = k
    BY <1>5 DEF SdkInv, WindowOK, PoolPartition
  <1>7. \A j \in free' : buffer'[j].phase = "Free" /\ buffer'[j].len = 0
    BY <1>1, <1>2 DEF SdkInv, SdkTypeOK, WindowOK, PoolPartition
  <1>8. accepted' = accepted /\ confirmed' = confirmed /\ log' = log
        /\ last_receipt' = last_receipt
    BY DEF frontier
  <1>9. WindowContiguous'
    <2>1. \A k \in DOMAIN Charged : Charged[k] \in SlotIds
      BY ChargedFacts
    <2>2. \A k \in DOMAIN Charged : Holds(buffer[Charged[k]], confirmed + k)'
      BY <1>4, <1>8, <2>1 DEF SdkInv, WindowOK, WindowContiguous, Holds
    <2> QED
      BY <1>8, <2>2 DEF SdkInv, WindowOK, WindowContiguous
  <1>10. ReceiptIsFrontier'
    BY <1>8 DEF SdkInv, WindowOK, ReceiptIsFrontier
  <1> QED
    BY <1>2, <1>4, <1>6, <1>7, <1>9, <1>10

LEMMA WorkerTakeInv ==
    ASSUME SdkInv, WorkerTake PROVE SdkInv'
  <1> DEFINE i == Head(ready)
  <1>1. /\ pc[Worker] = "choose" /\ carried = None
        /\ ready \in Seq(SlotIds) /\ ready # <<>>
    BY DEF WorkerTake, At, SdkInv, SdkTypeOK, ControlOK, WorkerCarries
  <1>2. /\ Charged = ready /\ i = ready[1] /\ i \in SlotIds \ free /\ i # None
        /\ 1 \in 1 .. Len(ready)
    <2>1. i = ready[1] /\ 1 \in 1 .. Len(ready) /\ i \in SlotIds
      BY <1>1, TailFacts
    <2>2. i # None
      BY <2>1, SdkAssumption DEF SlotIds
    <2> QED
      BY <1>1, <2>1, <2>2, ReadyCharged DEF Charged
  <1>3. CanLease(buffer[i])
    BY <1>1, <1>2, ChargedFacts DEF SdkInv, WindowOK, PoolPartition, CanLease
  <1>4. /\ buffer' = [buffer EXCEPT ![i] = LeaseSlot(@)]
        /\ ready' = Tail(ready) /\ carried' = i /\ inflight' = i /\ mutex' = None
        /\ pc' = [pc EXCEPT ![Worker] = "sending"]
        /\ free' = free /\ UNCHANGED <<frontier, control, locals>>
    BY <1>3 DEF WorkerTake, Goto, control
  <1>5. Charged' = Charged
    BY <1>1, <1>2, <1>4, TailFacts DEF Charged
  <1>6. buffer' = [buffer EXCEPT ![i] = [@ EXCEPT !.phase = "Leased"]]
    BY <1>4 DEF LeaseSlot
  <1> HIDE DEF i
  <1>7. /\ buffer' \in [SlotIds -> Buffer] /\ buffer'[i].phase = "Leased"
        /\ \A j \in SlotIds : j # i => buffer'[j] = buffer[j]
        /\ free' \intersect ChargedSlots' = {}
        /\ free' \union ChargedSlots' = SlotIds
        /\ \A j, k \in DOMAIN Charged' : Charged'[j] = Charged'[k] => j = k
        /\ \A j \in free' : buffer'[j].phase = "Free" /\ buffer'[j].len = 0
        /\ WindowContiguous'
        /\ ReceiptIsFrontier'
    BY <1>2, <1>4, <1>5, <1>6, PhaseStep DEF Phases
  <1>8. \A k \in DOMAIN ready' : buffer'[ready'[k]].phase = "Ready"
    <2>1. SUFFICES ASSUME NEW k \in DOMAIN ready' PROVE buffer'[ready'[k]].phase = "Ready"
      OBVIOUS
    <2>2. /\ k \in 1 .. Len(ready) - 1 /\ Len(ready) \in Nat
          /\ ready'[k] = ready[k + 1] /\ k + 1 \in 1 .. Len(ready)
      BY <1>1, <1>4, TailFacts
    <2>3. k + 1 # 1
      BY <2>2
    <2>4. ready[k + 1] # i /\ ready[k + 1] \in SlotIds
      BY <1>2, <2>2, <2>3, ChargedFacts DEF SdkInv, WindowOK, PoolPartition
    <2>5. buffer[ready[k + 1]].phase = "Ready"
      BY <2>2, ChargedFacts DEF SdkInv, WindowOK, PoolPartition
    <2> QED
      BY <1>7, <2>2, <2>4, <2>5
  <1>9. PoolPartition'
    BY <1>4, <1>7, <1>8 DEF PoolPartition
  <1>10. SdkTypeOK'
    <2>1. ready' \in Seq(SlotIds)
      BY <1>1, <1>4, TailFacts
    <2> QED
      BY <1>2, <1>4, <1>7, <2>1 DEF SdkInv, SdkTypeOK, frontier, control, locals, Labels
  <1>11. /\ pc'[Worker] = "sending"
         /\ \A u \in Callers : pc'[u] = pc[u]
    BY <1>4, SdkAssumption DEF SdkInv, SdkTypeOK, Threads
  <1>12. ControlOK'
    BY <1>2, <1>4, <1>11 DEF SdkInv, ControlOK, NeverPanics, WorkerCarries,
       RecordHasPayload, FlushSees, NoLostWakeup, At, Covered, frontier, control, locals
  <1> QED
    BY <1>7, <1>9, <1>10, <1>12 DEF SdkInv, WindowOK

(* The carried buffer is the first charged one. *)
LEMMA CarriedFacts ==
    ASSUME SdkInv, pc[Worker] \in {"sending", "settle", "apply"}
    PROVE  /\ carried # None /\ carried \in SlotIds \ free
           /\ buffer[carried].phase = "Leased" /\ buffer[carried] \in Buffer
           /\ buffer[carried].sequence = confirmed + 1
           /\ ready \in Seq(SlotIds) /\ Len(ready) \in Nat
           /\ \A k \in 1 .. Len(ready) :
                ready[k] # carried /\ ready[k] \in SlotIds
                /\ k + 1 \in DOMAIN Charged /\ Charged[k + 1] = ready[k]
           /\ 1 \in DOMAIN Charged /\ Charged[1] = carried
           /\ accepted = confirmed + Len(ready) + 1
  <1>1. carried # None /\ carried \in SlotIds \ free
    BY ReadyCharged DEF SdkInv, ControlOK, WorkerCarries
  <1>2. buffer[carried].phase = "Leased" /\ buffer[carried] \in Buffer
    BY <1>1 DEF SdkInv, SdkTypeOK, WindowOK, PoolPartition
  <1>3. ready \in Seq(SlotIds) /\ Len(ready) \in Nat
    BY DEF SdkInv, SdkTypeOK
  <1>4. 1 \in DOMAIN Charged /\ Charged[1] = carried
    BY <1>1, <1>3, ChargedFacts
  <1>5. buffer[carried].sequence = confirmed + 1
    BY <1>4 DEF SdkInv, WindowOK, WindowContiguous, Holds
  <1>6. ASSUME NEW k \in 1 .. Len(ready)
        PROVE  ready[k] # carried /\ ready[k] \in SlotIds
               /\ k + 1 \in DOMAIN Charged /\ Charged[k + 1] = ready[k]
    <2>1. k + 1 \in DOMAIN Charged /\ Charged[k + 1] = ready[k] /\ k + 1 # 1
      BY <1>1, <1>3, ChargedFacts
    <2>2. ready[k] # carried
      BY <1>4, <2>1 DEF SdkInv, WindowOK, PoolPartition
    <2> QED
      BY <2>1, <2>2, ReadyCharged
  <1>7. accepted = confirmed + Len(ready) + 1
    <2>1. accepted = confirmed + Len(Charged) /\ confirmed \in Nat
      BY U64Assumption DEF SdkInv, SdkTypeOK, WindowOK, WindowContiguous
    <2>2. Len(Charged) = Len(ready) + 1
      BY <1>1, ChargedFacts
    <2> QED
      BY <1>3, <2>1, <2>2
  <1> QED
    BY <1>1, <1>2, <1>3, <1>4, <1>5, <1>6, <1>7

LEMMA WorkerRetryInv ==
    ASSUME SdkInv, WorkerRetry PROVE SdkInv'
  <1>1. pc[Worker] = "apply" /\ CanRetry(buffer[carried])
    BY CarriedFacts DEF WorkerRetry, At, CanRetry
  <1>2. /\ buffer' = [buffer EXCEPT ![carried] = RetrySlot(@)]
        /\ ready' = <<carried>> \o ready /\ carried' = None /\ inflight' = None
        /\ mutex' = None /\ reply' = None
        /\ pc' = [pc EXCEPT ![Worker] = "backoff"]
        /\ UNCHANGED <<free, frontier, poisoned, closed, locals>>
    BY <1>1 DEF WorkerRetry, Goto
  <1>3. Charged' = Charged
    BY <1>1, <1>2, CarriedFacts DEF Charged
  <1>4. buffer' = [buffer EXCEPT ![carried] = [@ EXCEPT !.phase = "Ready"]]
    BY <1>2 DEF RetrySlot
  <1>5. /\ buffer' \in [SlotIds -> Buffer] /\ buffer'[carried].phase = "Ready"
        /\ \A j \in SlotIds : j # carried => buffer'[j] = buffer[j]
        /\ free' \intersect ChargedSlots' = {}
        /\ free' \union ChargedSlots' = SlotIds
        /\ \A j, k \in DOMAIN Charged' : Charged'[j] = Charged'[k] => j = k
        /\ \A j \in free' : buffer'[j].phase = "Free" /\ buffer'[j].len = 0
        /\ WindowContiguous'
        /\ ReceiptIsFrontier'
    BY <1>1, <1>2, <1>3, <1>4, CarriedFacts, PhaseStep DEF Phases
  <1>6. ready' = Charged /\ ready' \in Seq(SlotIds)
    BY <1>1, <1>2, CarriedFacts, ChargedFacts
  <1>7. \A k \in DOMAIN ready' : buffer'[ready'[k]].phase = "Ready"
    <2>1. SUFFICES ASSUME NEW k \in DOMAIN Charged PROVE buffer'[Charged[k]].phase = "Ready"
      BY <1>6
    <2>2. CASE k = 1
      BY <1>1, <1>5, <2>2, CarriedFacts
    <2>3. CASE k # 1
      <3>1. PICK j \in 1 .. Len(ready) : k = j + 1
        <4>1. k \in 1 .. Len(ready) + 1 /\ Len(ready) \in Nat
          BY <1>1, CarriedFacts, ChargedFacts
        <4>2. k - 1 \in 1 .. Len(ready) /\ k = (k - 1) + 1
          BY <2>3, <4>1
        <4> QED
          BY <4>2
      <3>2. Charged[k] = ready[j] /\ ready[j] # carried /\ ready[j] \in SlotIds
        BY <1>1, <3>1, CarriedFacts
      <3>3. buffer[ready[j]].phase = "Ready"
        BY ChargedFacts DEF SdkInv, WindowOK, PoolPartition
      <3> QED
        BY <1>5, <3>2, <3>3
    <2> QED
      BY <2>2, <2>3
  <1>8. PoolPartition'
    BY <1>2, <1>5, <1>7 DEF PoolPartition
  <1>9. SdkTypeOK'
    BY <1>2, <1>5, <1>6 DEF SdkInv, SdkTypeOK, frontier, locals, Labels
  <1>10. /\ pc'[Worker] = "backoff"
         /\ \A u \in Callers : pc'[u] = pc[u]
    BY <1>2, SdkAssumption DEF SdkInv, SdkTypeOK, Threads
  <1>11. ControlOK'
    BY <1>2, <1>10 DEF SdkInv, ControlOK, NeverPanics, WorkerCarries,
       RecordHasPayload, FlushSees, NoLostWakeup, At, Covered, frontier, locals
  <1> QED
    BY <1>5, <1>8, <1>9, <1>11 DEF SdkInv, WindowOK

(* The oldest charged buffer leaves the window, and its slot is free.      *)
LEMMA WorkerConfirmInv ==
    ASSUME SdkInv, WorkerConfirm PROVE SdkInv'
  <1>1. pc[Worker] = "apply" /\ CanRelease(buffer[carried])
    BY CarriedFacts DEF WorkerConfirm, At, CanRelease
  <1>2. /\ buffer' = [buffer EXCEPT ![carried] = ReleaseSlot(@)]
        /\ free' = free \union {carried} /\ carried' = None /\ inflight' = None
        /\ confirmed' = buffer[carried].sequence /\ last_receipt' = reply
        /\ mutex' = None /\ reply' = None
        /\ GotoNotifying(Worker, "top")
        /\ UNCHANGED <<ready, accepted, log, poisoned, closed, locals>>
    BY <1>1 DEF WorkerConfirm
  <1>3. /\ reply # None /\ reply.ours
        /\ reply.sequence = buffer[carried].sequence
        /\ confirmed < accepted
    BY DEF WorkerConfirm, Confirming, Confirms
  <1>4. /\ accepted \in 0 .. U64Max /\ confirmed \in Nat /\ accepted \in Nat
        /\ confirmed' = confirmed + 1 /\ confirmed' \in 0 .. U64Max
    BY <1>1, <1>2, <1>3, CarriedFacts, U64Assumption DEF SdkInv, SdkTypeOK
  <1>5. Charged' = ready
    BY <1>2 DEF Charged
  <1>6. /\ buffer' \in [SlotIds -> Buffer]
        /\ buffer'[carried].phase = "Free" /\ buffer'[carried].len = 0
        /\ \A j \in SlotIds : j # carried => buffer'[j] = buffer[j]
    <2>1. /\ ReleaseSlot(buffer[carried]) \in Buffer
          /\ ReleaseSlot(buffer[carried]).phase = "Free"
          /\ ReleaseSlot(buffer[carried]).len = 0
      BY <1>1, CarriedFacts DEF ReleaseSlot, Buffer, Phases
    <2> QED
      BY <1>1, <1>2, <2>1, CarriedFacts DEF SdkInv, SdkTypeOK
  <1>7. \A k \in 1 .. Len(ready) : /\ ready[k] \in SlotIds /\ ready[k] # carried
                                   /\ buffer'[ready[k]] = buffer[ready[k]]
    BY <1>1, <1>6, CarriedFacts
  <1>8. PoolPartition'
    <2>1. ChargedSlots = ChargedSlots' \union {carried}
      <3>1. ASSUME NEW k \in DOMAIN Charged
            PROVE  k = 1 \/ \E j \in 1 .. Len(ready) : k = j + 1
        <4>1. k \in 1 .. Len(ready) + 1 /\ Len(ready) \in Nat
          BY <1>1, CarriedFacts, ChargedFacts
        <4>2. k # 1 => k - 1 \in 1 .. Len(ready) /\ k = (k - 1) + 1
          BY <4>1
        <4> QED
          BY <4>2
      <3>2. ChargedSlots \subseteq ChargedSlots' \union {carried}
        <4>1. SUFFICES ASSUME NEW k \in DOMAIN Charged
                       PROVE  Charged[k] \in ChargedSlots' \union {carried}
          BY DEF ChargedSlots
        <4>2. CASE k = 1
          BY <1>1, <4>2, CarriedFacts
        <4>3. CASE \E j \in 1 .. Len(ready) : k = j + 1
          <5>1. PICK j \in 1 .. Len(ready) : k = j + 1
            BY <4>3
          <5>2. Charged[k] = ready[j] /\ j \in DOMAIN ready
            BY <1>1, <5>1, CarriedFacts, ChargedFacts
          <5> QED
            BY <1>5, <5>2 DEF ChargedSlots
        <4> QED
          BY <3>1, <4>2, <4>3
      <3>3. carried \in ChargedSlots
        BY <1>1, CarriedFacts DEF ChargedSlots
      <3>4. ChargedSlots' \subseteq ChargedSlots
        <4>1. SUFFICES ASSUME NEW k \in DOMAIN ready PROVE ready[k] \in ChargedSlots
          BY <1>5 DEF ChargedSlots
        <4>2. k + 1 \in DOMAIN Charged /\ Charged[k + 1] = ready[k]
          BY <1>1, CarriedFacts, ChargedFacts
        <4> QED
          BY <4>2 DEF ChargedSlots
      <3> QED
        BY <3>2, <3>3, <3>4
    <2>2. carried \notin ChargedSlots'
      BY <1>5, <1>7, ChargedFacts DEF ChargedSlots
    <2>3. free' \intersect ChargedSlots' = {} /\ free' \union ChargedSlots' = SlotIds
      BY <1>2, <2>1, <2>2 DEF SdkInv, WindowOK, PoolPartition
    <2>4. \A j, k \in DOMAIN Charged' : Charged'[j] = Charged'[k] => j = k
      <3>1. SUFFICES ASSUME NEW j \in DOMAIN ready, NEW k \in DOMAIN ready,
                            ready[j] = ready[k]
                     PROVE  j = k
        BY <1>5
      <3>2. /\ j + 1 \in DOMAIN Charged /\ Charged[j + 1] = ready[j]
            /\ k + 1 \in DOMAIN Charged /\ Charged[k + 1] = ready[k]
            /\ j \in Int /\ k \in Int
        BY <1>1, CarriedFacts, ChargedFacts
      <3>3. j + 1 = k + 1
        BY <3>1, <3>2 DEF SdkInv, WindowOK, PoolPartition
      <3> QED
        BY <3>2, <3>3
    <2>5. \A j \in free' : buffer'[j].phase = "Free" /\ buffer'[j].len = 0
      BY <1>2, <1>6 DEF SdkInv, SdkTypeOK, WindowOK, PoolPartition
    <2>6. \A k \in DOMAIN ready' : buffer'[ready'[k]].phase = "Ready"
      BY <1>2, <1>7, ChargedFacts DEF SdkInv, WindowOK, PoolPartition
    <2> QED
      BY <1>2, <2>3, <2>4, <2>5, <2>6 DEF PoolPartition
  <1>9. WindowContiguous'
    <2>1. accepted' = Len(log') /\ accepted' = confirmed' + Len(Charged')
      <3>1. accepted = Len(log)
        BY DEF SdkInv, WindowOK, WindowContiguous
      <3>2. accepted = confirmed + Len(ready) + 1 /\ Len(ready) \in Nat
        BY <1>1, CarriedFacts
      <3>3. accepted = confirmed' + Len(ready)
        BY <1>4, <3>2
      <3> QED
        BY <1>2, <1>5, <3>1, <3>3
    <2>2. ASSUME NEW k \in DOMAIN ready
          PROVE  Holds(buffer[ready[k]], confirmed + k)'
      <3>1. /\ k \in 1 .. Len(ready) /\ k \in Int
            /\ k + 1 \in DOMAIN Charged /\ Charged[k + 1] = ready[k]
        BY <1>1, CarriedFacts, ChargedFacts
      <3>2. Holds(buffer[ready[k]], confirmed + (k + 1))
        BY <3>1 DEF SdkInv, WindowOK, WindowContiguous
      <3>3. confirmed' + k = confirmed + (k + 1)
        BY <1>4, <3>1
      <3>4. buffer'[ready'[k]] = buffer[ready[k]] /\ log' = log
        BY <1>2, <1>7, <3>1
      <3> QED
        BY <3>2, <3>3, <3>4 DEF Holds
    <2>3. \A k \in DOMAIN Charged' : Holds(buffer[Charged[k]], confirmed + k)'
      BY <1>2, <1>5, <2>2
    <2> QED
      BY <2>1, <2>3 DEF WindowContiguous
  <1>10. ReceiptIsFrontier'
    <2>1. confirmed' # 0
      BY <1>4
    <2> QED
      BY <1>2, <1>3, <2>1 DEF ReceiptIsFrontier
  <1>11. /\ pc' \in [Threads -> Labels] /\ pc'[Worker] = "top"
         /\ \A u \in Threads : u # Worker => pc'[u] = Awoken(pc[u])
    BY <1>2, NotifyFacts DEF Labels, Threads
  <1>12. SdkTypeOK'
    BY <1>1, <1>2, <1>4, <1>6, <1>11, CarriedFacts DEF SdkInv, SdkTypeOK, locals
  <1>13. \A u \in Callers : pc'[u] = Awoken(pc[u]) /\ pc[u] \in Labels
    BY <1>11, CallerIsThread DEF SdkInv, SdkTypeOK
  <1>14. NeverPanics' /\ WorkerCarries'
    BY <1>2, <1>11 DEF SdkInv, ControlOK, NeverPanics, WorkerCarries
  <1>15. RecordHasPayload' /\ FlushSees'
    BY <1>2, <1>13, AwokenFacts DEF SdkInv, ControlOK, RecordHasPayload, FlushSees, locals
  <1>16. NoLostWakeup'
    BY <1>11, <1>13, AwokenFacts DEF NoLostWakeup, At
  <1> QED
    BY <1>8, <1>9, <1>10, <1>12, <1>14, <1>15, <1>16 DEF SdkInv, WindowOK, ControlOK

-----------------------------------------------------------------------------
(* The invariant *)

LEMMA InitInv == SdkInit => SdkInv
  <1> SUFFICES ASSUME SdkInit PROVE SdkInv
    OBVIOUS
  <1>1. SdkTypeOK
    BY SdkAssumption, U64Assumption
    DEF SdkInit, SdkTypeOK, Buffer, Phases, Threads, SlotIds, Labels
  <1>2. Charged = <<>> /\ ChargedSlots = {} /\ DOMAIN Charged = {}
    BY DEF SdkInit, Charged, ChargedSlots
  <1>3. WindowOK
    BY <1>2 DEF SdkInit, WindowOK, PoolPartition, WindowContiguous, ReceiptIsFrontier
  <1>4. pc[Worker] = "top" /\ \A u \in Callers : pc[u] = "idle"
    BY CallerIsThread DEF SdkInit, Threads
  <1>5. ControlOK
    BY <1>4 DEF SdkInit, ControlOK, NeverPanics, WorkerCarries, RecordHasPayload,
       FlushSees, NoLostWakeup, At
  <1> QED
    BY <1>1, <1>3, <1>5 DEF SdkInv

LEMMA CallerInv ==
    ASSUME SdkInv, NEW t \in Callers, Call(t) \/ CallerStep(t) PROVE SdkInv'
  <1>1. CASE Call(t)
    BY <1>1, TryRecordInv, FlushBeginInv, PlainInv DEF Call
  <1>2. CASE CallerStep(t)
    <2>1. CASE Acquire(t)
      BY <2>1, AcquireInv, CallerIsThread
    <2>2. CASE RecordRefused(t) \/ StatusReport(t)
      BY <2>2, LeaveInv DEF RecordRefused, StatusReport
    <2>3. CASE RecordInto(t)
      BY <2>3, RecordIntoInv
    <2>4. CASE FlushEnter(t) \/ FlushRecheck(t)
      BY <2>4, FlushInv
    <2>5. CASE FlushElapse(t)
      BY <2>5, PlainInv
    <2>6. CASE CloseFinish(t)
      BY <2>6, CloseInv
    <2> QED
      BY <1>2, <2>1, <2>2, <2>3, <2>4, <2>5, <2>6 DEF CallerStep
  <1> QED
    BY <1>1, <1>2

LEMMA WorkerInv == SdkInv /\ WorkerStep => SdkInv'
  <1> SUFFICES ASSUME SdkInv, WorkerStep PROVE SdkInv'
    OBVIOUS
  <1>1. CASE Acquire(Worker)
    BY <1>1, AcquireInv DEF Threads
  <1>2. CASE WorkerExit \/ BackoffElapse \/ BackoffDiscard
    BY <1>2, WorkerPlainInv
  <1>3. CASE WorkerRest
    BY <1>3, WorkerRestInv
  <1>4. CASE WorkerTake
    BY <1>4, WorkerTakeInv
  <1>5. CASE WorkerConfirm
    BY <1>5, WorkerConfirmInv
  <1>6. CASE WorkerRetry
    BY <1>6, WorkerRetryInv
  <1> QED
    BY <1>1, <1>2, <1>3, <1>4, <1>5, <1>6 DEF WorkerStep

LEMMA StutterInv == SdkInv /\ UNCHANGED sdkVars => SdkInv'
  <1> SUFFICES ASSUME SdkInv, UNCHANGED sdkVars PROVE SdkInv'
    OBVIOUS
  <1>1. /\ UNCHANGED <<pool, frontier, control, locals>>
        /\ mutex' = mutex /\ pc' = pc
    BY DEF sdkVars
  <1>2. WindowOK'
    BY <1>1, WindowKept
  <1>3. SdkTypeOK'
    BY <1>1 DEF SdkInv, SdkTypeOK, pool, frontier, control, locals
  <1>4. ControlOK'
    BY <1>1 DEF SdkInv, ControlOK, NeverPanics, WorkerCarries, RecordHasPayload,
       FlushSees, NoLostWakeup, At, Covered, pool, frontier, control, locals
  <1> QED
    BY <1>2, <1>3, <1>4 DEF SdkInv

LEMMA NextInv == SdkInv /\ [SdkNext]_sdkVars => SdkInv'
  <1> SUFFICES ASSUME SdkInv, SdkNext PROVE SdkInv'
    BY StutterInv
  <1>1. CASE \E t \in Callers : Call(t) \/ CallerStep(t)
    BY <1>1, CallerInv
  <1>2. CASE \E t \in Threads : Spurious(t)
    BY <1>2, SpuriousInv
  <1>3. CASE WorkerStep
    BY <1>3, WorkerInv
  <1>4. CASE \E returned \in Replies : Answer(returned)
    BY <1>4, AnswerInv, SdkAssumption
  <1> QED
    BY <1>1, <1>2, <1>3, <1>4 DEF SdkNext, ClientNext

(* Pool, window, receipt, control points and wakeups are in order in every *)
(* state that any schedule and any receiver can lead to.                   *)
THEOREM SdkSafe == SdkSpec => []SdkInv
  BY InitInv, NextInv, PTL DEF SdkSpec

(* SdkTypeOK: the frontiers never pass U64Max.                             *)
THEOREM SdkTyped == SdkSpec => []SdkTypeOK
  <1>1. SdkInv => SdkTypeOK
    BY DEF SdkInv
  <1> QED
    BY <1>1, SdkSafe, PTL

(* PoolPartition: every buffer is free, ready or in flight, in one place.  *)
THEOREM PoolConserved == SdkSpec => []PoolPartition
  <1>1. SdkInv => PoolPartition
    BY DEF SdkInv, WindowOK
  <1> QED
    BY <1>1, SdkSafe, PTL

(* WindowContiguous: the charged buffers are the accepted and unconfirmed  *)
(* sequences in order, with the payloads they were accepted with.          *)
THEOREM WindowGapless == SdkSpec => []WindowContiguous
  <1>1. SdkInv => WindowContiguous
    BY DEF SdkInv, WindowOK
  <1> QED
    BY <1>1, SdkSafe, PTL

(* ReceiptIsFrontier: the receipt a flush returns is that of the frontier. *)
THEOREM FrontierReceipted == SdkSpec => []ReceiptIsFrontier
  <1>1. SdkInv => ReceiptIsFrontier
    BY DEF SdkInv, WindowOK
  <1> QED
    BY <1>1, SdkSafe, PTL

(* NeverPanics: no assertion of the client fails.                          *)
THEOREM AssertionsHold == SdkSpec => []NeverPanics
  <1>1. SdkInv => NeverPanics
    BY DEF SdkInv, ControlOK
  <1> QED
    BY <1>1, SdkSafe, PTL

(* ClientInOrder: pool, window, assertions and receipt agree at every      *)
(* instant with what was accepted and confirmed.                           *)
THEOREM ClientKept == SdkSpec => []ClientInOrder
  <1>1. PoolPartition /\ WindowContiguous /\ NeverPanics /\ ReceiptIsFrontier => ClientInOrder
    BY DEF ClientInOrder
  <1> QED
    BY <1>1, PoolConserved, WindowGapless, AssertionsHold, FrontierReceipted, PTL

(* NoLostWakeup: nobody sleeps on past its reason.                         *)
THEOREM WakeupsKept == SdkSpec => []NoLostWakeup
  <1>1. SdkInv => NoLostWakeup
    BY DEF SdkInv, ControlOK
  <1> QED
    BY <1>1, SdkSafe, PTL

-----------------------------------------------------------------------------
(* What steps do *)

(* Only a confirmation moves the confirmed frontier. *)
LEMMA OnlyConfirmationConfirms ==
    ASSUME SdkInv, SdkNext, confirmed' # confirmed PROVE WorkerConfirm
  <1>1. ASSUME NEW t \in Callers, Call(t) \/ CallerStep(t) PROVE confirmed' = confirmed
    <2>1. CASE Call(t)
      BY <2>1 DEF Call, TryRecord, FlushBegin, OtherBegin, frontier
    <2>2. CASE RecordInto(t)
      BY <2>2 DEF RecordInto, RecordPanics, RecordAccepted, RecordRejected, frontier
    <2>3. CASE Leave(t)
      BY <2>3 DEF Leave, frontier
    <2>4. CASE Acquire(t) \/ FlushElapse(t) \/ CloseFinish(t)
      BY <2>4 DEF Acquire, FlushElapse, CloseFinish, frontier
    <2>5. CASE \E goal : FlushWait(t, goal)
      BY <2>5 DEF FlushWait, frontier
    <2>6. CallerStep(t) => \/ RecordInto(t) \/ Leave(t)
                           \/ Acquire(t) \/ FlushElapse(t) \/ CloseFinish(t)
                           \/ \E goal : FlushWait(t, goal)
      BY DEF CallerStep, RecordRefused, StatusReport, FlushEnter, FlushRecheck,
         FlushLoop, FlushSucceed
    <2> QED
      BY <1>1, <2>1, <2>2, <2>3, <2>4, <2>5, <2>6
  <1>2. ASSUME NEW t \in Threads, Spurious(t) PROVE confirmed' = confirmed
    BY <1>2 DEF Spurious, frontier
  <1>3. ASSUME WorkerStep, ~WorkerConfirm PROVE confirmed' = confirmed
    BY <1>3 DEF WorkerStep, Acquire, WorkerExit, WorkerRest, WorkerTake, WorkerRetry,
       BackoffElapse, BackoffDiscard, frontier
  <1>4. ASSUME NEW returned \in Replies, Answer(returned) PROVE confirmed' = confirmed
    BY <1>4 DEF Answer, frontier
  <1> QED
    BY <1>1, <1>2, <1>3, <1>4 DEF SdkNext, ClientNext

(* FrontierStepsByOne: whatever the receiver answers, the frontier moves   *)
(* over the oldest charged record only, on the receipt that names it.      *)
THEOREM FrontierAdvances == SdkSpec => FrontierStepsByOne
  <1> DEFINE Step == confirmed' # confirmed =>
                       /\ confirmed' = confirmed + 1
                       /\ carried # None
                       /\ buffer[carried].sequence = confirmed'
                       /\ reply # None /\ reply.sequence = confirmed'
  <1>1. ASSUME SdkInv, [SdkNext]_sdkVars PROVE [Step]_sdkVars
    <2>1. ASSUME SdkNext, confirmed' # confirmed PROVE Step
      <3>1. WorkerConfirm /\ pc[Worker] = "apply"
        BY <1>1, <2>1, OnlyConfirmationConfirms DEF WorkerConfirm, At
      <3> QED
        BY <1>1, <3>1, CarriedFacts DEF WorkerConfirm, Confirming
    <2> QED
      BY <1>1, <2>1
  <1> QED
    BY <1>1, SdkSafe, PTL DEF SdkSpec, FrontierStepsByOne

(* FlushCoversEntry: the frontier a flush succeeds with covers everything  *)
(* that was accepted before the call.                                      *)
THEOREM FlushIsCovered == SdkSpec => FlushCoversEntry
  <1> DEFINE Step == \A t \in Callers :
                LET goal == IF At(t, "enter") THEN accepted ELSE target[t] IN
                pc[t] \in {"enter", "recheck", "lastcheck"} /\ FlushSucceed(t, goal) =>
                  seen[t] <= confirmed
  <1>1. ASSUME SdkInv PROVE Step
    <2> DEFINE Goal(t) == IF At(t, "enter") THEN accepted ELSE target[t]
    <2>1. SUFFICES ASSUME NEW t \in Callers,
                          pc[t] \in {"enter", "recheck", "lastcheck"},
                          FlushSucceed(t, Goal(t))
                   PROVE  seen[t] <= confirmed
      OBVIOUS
    <2>2. Goal(t) <= confirmed
      BY <2>1 DEF FlushSucceed, Covered
    <2>3. seen[t] <= Goal(t)
      BY <1>1, <2>1 DEF SdkInv, ControlOK, FlushSees, At
    <2>4. seen[t] \in Nat /\ Goal(t) \in Nat /\ confirmed \in Nat
      BY <1>1, U64Assumption DEF SdkInv, SdkTypeOK
    <2> HIDE DEF Goal
    <2> QED
      BY <2>2, <2>3, <2>4
  <1> QED
    BY <1>1, SdkSafe, PTL DEF FlushCoversEntry

-----------------------------------------------------------------------------
(* Counting the charged slots *)

LEMMA ChargedCount ==
    ASSUME SdkInv
    PROVE  /\ IsFiniteSet(SlotIds) /\ Cardinality(SlotIds) = Slots
           /\ Cardinality(ChargedSlots) = Len(Charged)
           /\ ChargedSlots \subseteq SlotIds /\ Len(Charged) \in Nat
  <1>1. IsFiniteSet(SlotIds) /\ Cardinality(SlotIds) = Slots
    BY FS_Interval, SdkAssumption DEF SlotIds
  <1>2. Charged \in Seq(SlotIds) /\ Len(Charged) \in Nat
        /\ DOMAIN Charged = 1 .. Len(Charged)
    <2>1. Charged \in Seq(SlotIds)
      BY ChargedFacts
    <2>2. Len(Charged) \in Nat
      BY <2>1
    <2>3. DOMAIN Charged = 1 .. Len(Charged)
      BY <2>1
    <2> QED
      BY <2>1, <2>2, <2>3
  <1>3. ChargedSlots \subseteq SlotIds
    BY <1>2, ChargedFacts DEF ChargedSlots
  <1>4. Charged \in Bijection(1 .. Len(Charged), ChargedSlots)
    <2>1. Charged \in [1 .. Len(Charged) -> ChargedSlots]
      BY <1>2 DEF ChargedSlots
    <2>2. \A j, k \in 1 .. Len(Charged) : Charged[j] = Charged[k] => j = k
      BY <1>2 DEF SdkInv, WindowOK, PoolPartition
    <2>3. \A i \in ChargedSlots : \E k \in 1 .. Len(Charged) : Charged[k] = i
      BY <1>2 DEF ChargedSlots
    <2> QED
      BY <2>1, <2>2, <2>3 DEF Bijection, Injection, Surjection, IsInjective
  <1>5. Cardinality(ChargedSlots) = Len(Charged)
    BY <1>2, <1>4, FS_CountingElements DEF ExistsBijection
  <1> QED
    BY <1>1, <1>2, <1>3, <1>5

(* SdkFullIsExact: window and free list agree on when the client is full.  *)
THEOREM FullIsTrue == SdkSpec => []SdkFullIsExact
  <1>1. ASSUME SdkInv, Refusal = "Full" PROVE free = {} /\ Len(Charged) = Slots
    <2>1. /\ accepted \in Nat /\ confirmed \in Nat /\ Slots \in Nat
          /\ accepted = confirmed + Len(Charged) /\ Len(Charged) \in Nat
          /\ accepted <= U64Max /\ U64Max \in Nat
      BY <1>1, U64Assumption, SdkAssumption, ChargedCount
      DEF SdkInv, SdkTypeOK, WindowOK, WindowContiguous
    <2>2. accepted # U64Max /\ (~HasNextSequence(accepted, confirmed, Slots) \/ free = {})
      BY <1>1 DEF Refusal
    <2>3. free \intersect ChargedSlots = {} /\ free \union ChargedSlots = SlotIds
      BY <1>1 DEF SdkInv, WindowOK, PoolPartition
    <2>4. CASE free = {}
      BY <1>1, <2>3, <2>4, ChargedCount
    <2>5. CASE ~HasNextSequence(accepted, confirmed, Slots)
      <3>1. Slots <= Len(Charged)
        BY <2>1, <2>2, <2>5 DEF HasNextSequence
      <3>2. ChargedSlots = SlotIds
        BY <1>1, <2>1, <3>1, ChargedCount, FS_Subset
      <3> QED
        BY <1>1, <2>3, <3>2, ChargedCount
    <2> QED
      BY <2>2, <2>4, <2>5
  <1>2. SdkInv => SdkFullIsExact
    BY <1>1 DEF SdkFullIsExact
  <1> QED
    BY <1>2, SdkSafe, PTL
=============================================================================
