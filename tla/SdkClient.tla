------------------------------ MODULE SdkClient ------------------------------
(***************************************************************************)
(* fabric::sdk: bounded admission into preallocated slots, one background  *)
(* delivery worker, and flush up to a captured frontier.                   *)
(*                                                                         *)
(* One mutex guards State and one condition variable, `changed`, is shared *)
(* by the worker and by every flush.  Acquiring the mutex is one step, and *)
(* the critical section with its unlock or wait is another, so a try_lock  *)
(* sees the mutex held in between.  No critical section reads the clock    *)
(* but to compare it with a deadline: a deadline may have passed at any    *)
(* time.  What only status reports (retries, last_error) is left out.      *)
(*                                                                         *)
(* The receiver is the environment here: it may answer a submission with   *)
(* any reply, or none.  Delivery.tla composes the client with the real one.*)
(***************************************************************************)
EXTENDS AdmissionKernel, Sequences, FiniteSets

CONSTANTS
  Callers,    (* threads that share the Client                              *)
  Calls,      (* which of "record", "flush", "status", "close" they use     *)
  Worker,     (* the fabric-delivery thread                                 *)
  Slots,      (* config.slots                                               *)
  MaxRecord,  (* config.max_record                                          *)
  Payloads,   (* values of Data, abstracted to what encoding them does      *)
  Size,       (* bytes of the observation each payload encodes to           *)
  Malformed,  (* payloads Data::validate refuses                            *)
  Deep,       (* payloads whose encoding check_json refuses                 *)
  Replies,    (* what submit_bytes may return: receipts, or None: an Err    *)
  None

Threads == Callers \union {Worker}
SlotIds == 0 .. Slots - 1

(* The credit of the admission kernel travels in the buffer. *)
Buffer == [phase : Phases, len : Nat, sequence : Nat,
           bytes : Payloads \union {None}]

(* `ours` says whether the receipt names this producer and generation. *)
Receipt == [ours : BOOLEAN, sequence : Nat, id : Nat]

ASSUME SdkAssumption ==
    /\ Slots \in Nat \ {0}
    /\ MaxRecord \in Nat
    /\ Size \in [Payloads -> Nat]
    /\ Malformed \subseteq Payloads
    /\ Deep \subseteq Payloads
    /\ Replies \subseteq Receipt \union {None}
    /\ Worker \notin Callers
    /\ None \notin Threads \union Payloads \union Nat \union Receipt

VARIABLES
  mutex,        (* the thread that holds Shared.state, or None              *)
  poisoned,     (* the mutex's poison flag                                  *)
  free,         (* State.free: which slots are free (its order is left out) *)
  ready,        (* State.ready                                              *)
  buffer,       (* the buffer of each slot, wherever it is                  *)
  accepted,     (* State.accepted                                           *)
  confirmed,    (* State.confirmed                                          *)
  last_receipt, (* State.last_receipt                                       *)
  inflight,     (* State.inflight                                           *)
  closed,       (* State.closed                                             *)
  carried,      (* deliver's local: the slot whose buffer it has, or None   *)
  reply,        (* deliver's local: what submit_bytes returned              *)
  pc,           (* per thread: control point                                *)
  arg,          (* per caller: the payload of its try_record                *)
  target,       (* per caller: the frontier its flush captured              *)
  log,          (* history: the payload of every accepted sequence          *)
  seen          (* history: accepted when the caller entered flush          *)

pool == <<free, ready, buffer, inflight, carried>>
frontier == <<accepted, confirmed, last_receipt, log>>
control == <<poisoned, closed, reply>>
locals == <<arg, target, seen>>
sdkVars == <<mutex, pool, frontier, control, pc, locals>>

SdkInit ==
    /\ mutex = None
    /\ poisoned = FALSE
    /\ free = SlotIds
    /\ ready = <<>>
    /\ buffer = [i \in SlotIds |->
                   [phase |-> "Free", len |-> 0, sequence |-> 0, bytes |-> None]]
    /\ accepted = 0
    /\ confirmed = 0
    /\ last_receipt = None
    /\ inflight = None
    /\ closed = FALSE
    /\ carried = None
    /\ reply = None
    /\ pc = [t \in Threads |-> IF t = Worker THEN "top" ELSE "idle"]
    /\ arg = [t \in Callers |-> None]
    /\ target = [t \in Callers |-> 0]
    /\ log = <<>>
    /\ seen = [t \in Callers |-> 0]

-----------------------------------------------------------------------------
(* Control flow, the mutex and the condition variable *)

At(t, label) == pc[t] = label
Goto(t, label) == pc' = [pc EXCEPT ![t] = label]

(* changed.notify_all(): whoever waits goes on to take the mutex again. *)
Awoken(label) ==
    CASE label = "waiting" -> "woken"
      [] label = "resting" -> "top"
      [] label = "backoff" -> "relock"
      [] OTHER -> label

(* Faulty variant: notify_one, which wakes the worker if it waits.         *)
GotoNotifyingOne(t, label) ==
    pc' = [u \in Threads |->
             CASE u = t -> label
               [] u = Worker /\ u # t -> Awoken(pc[u])
               [] OTHER -> pc[u]]

GotoNotifying(t, label) ==
    pc' = [u \in Threads |-> IF u = t THEN label ELSE Awoken(pc[u])]

(* Where each blocking lock, or wait that takes the mutex again, leads. *)
Inside == [flush |-> "enter", woken |-> "recheck", late |-> "lastcheck",
           status |-> "report", close |-> "closing", top |-> "choose",
           settle |-> "apply", relock |-> "discard"]

Acquire(t) ==
    /\ pc[t] \in DOMAIN Inside
    /\ mutex = None
    /\ mutex' = t
    /\ Goto(t, Inside[pc[t]])
    /\ UNCHANGED <<pool, frontier, control, locals>>

(* The caller's operation is over. *)
Finish(t) ==
    /\ arg' = [arg EXCEPT ![t] = None]
    /\ target' = [target EXCEPT ![t] = 0]
    /\ seen' = [seen EXCEPT ![t] = 0]

Return(t) == mutex' = None /\ Finish(t)

Leave(t) ==
    /\ Return(t)
    /\ Goto(t, "idle")
    /\ UNCHANGED <<pool, frontier, control>>

(* A failed assert! unwinds with the guard alive. *)
Panic(t) == poisoned' = TRUE /\ mutex' = None

(* A wait that ends unasked: wait and wait_timeout may wake spuriously. *)
Spurious(t) ==
    /\ pc[t] \in {"waiting", "resting", "backoff"}
    /\ Goto(t, Awoken(pc[t]))
    /\ UNCHANGED <<mutex, pool, frontier, control, locals>>

-----------------------------------------------------------------------------
(* Client::try_record *)

(* A try_lock that fails returns Contended, or Closed if the mutex is      *)
(* poisoned, and changes nothing.                                          *)
TryRecord(t, payload) ==
    /\ At(t, "idle")
    /\ mutex = None
    /\ ~poisoned
    /\ mutex' = t
    /\ Goto(t, "record")
    /\ arg' = [arg EXCEPT ![t] = payload]
    /\ UNCHANGED <<pool, frontier, control, target, seen>>

(* The refusals that leave the pool alone, if any applies. *)
Refusal ==
    CASE closed -> "Closed"
      [] ~closed /\ accepted = U64Max -> "Exhausted"
      [] ~closed /\ accepted # U64Max
         /\ (~HasNextSequence(accepted, confirmed, Slots) \/ free = {}) -> "Full"
      [] OTHER -> "Proceed"

RecordRefused(t) ==
    /\ At(t, "record")
    /\ Refusal # "Proceed"
    /\ Leave(t)

(* What validation, encoding into the slot and check_json come to. *)
Encoding(payload) ==
    IF payload \in Malformed THEN "Invalid"
    ELSE IF Size[payload] > MaxRecord THEN "TooLarge"
    ELSE IF payload \in Deep THEN "Invalid"
    ELSE "Accepted"

(* What is not malformed is encoded, perhaps in part, before it is refused. *)
Scribbled(slot, payload) ==
    IF payload \in Malformed THEN slot ELSE [slot EXCEPT !.bytes = payload]

(* The slot is reserved, perhaps scribbled on, cancelled and put back. *)
RecordRejected(t, i) ==
    /\ buffer' =
         [buffer EXCEPT ![i] = CancelSlot(Scribbled(ReserveSlot(@), arg[t]))]
    /\ Return(t)
    /\ Goto(t, "idle")
    /\ UNCHANGED <<free, ready, inflight, carried, frontier, control>>

RecordAccepted(t, i) ==
    /\ free' = free \ {i}
    /\ buffer' = [buffer EXCEPT ![i] =
         [PublishSlot(ReserveSlot(@), Size[arg[t]]) EXCEPT
            !.sequence = accepted + 1, !.bytes = arg[t]]]
    /\ ready' = Append(ready, i)
    /\ accepted' = accepted + 1
    /\ log' = Append(log, arg[t])
    /\ Return(t)
    /\ GotoNotifying(t, "idle")
    /\ UNCHANGED <<inflight, carried, confirmed, last_receipt, control>>

(* assert!(buffer.credit.reserve()) fails: the buffer is lost. *)
RecordPanics(t, i) ==
    /\ free' = free \ {i}
    /\ Panic(t)
    /\ Finish(t)
    /\ Goto(t, "idle")
    /\ UNCHANGED <<ready, buffer, inflight, carried, frontier, closed, reply>>

RecordInto(t) ==
    /\ At(t, "record")
    /\ Refusal = "Proceed"
    /\ \E i \in free :
         IF ~CanReserve(buffer[i]) THEN RecordPanics(t, i)
         ELSE IF Encoding(arg[t]) = "Accepted" THEN RecordAccepted(t, i)
         ELSE RecordRejected(t, i)

-----------------------------------------------------------------------------
(* Client::flush *)

FlushBegin(t) ==
    /\ At(t, "idle")
    /\ Goto(t, "flush")
    /\ seen' = [seen EXCEPT ![t] = accepted]
    /\ UNCHANGED <<mutex, pool, frontier, control, arg, target>>

(* The loop condition holds for this target: Ok(last_receipt). *)
FlushSucceed(t, goal) ==
    /\ Covered(confirmed, goal)
    /\ Leave(t)

(* wait_timeout, which releases the mutex. *)
FlushWait(t, goal) ==
    /\ ~Covered(confirmed, goal)
    /\ mutex' = None
    /\ target' = [target EXCEPT ![t] = goal]
    /\ Goto(t, "waiting")
    /\ UNCHANGED <<pool, frontier, control, arg, seen>>

(* One turn of the loop; it may find that the deadline has passed. *)
FlushLoop(t, goal) ==
    \/ FlushSucceed(t, goal)
    \/ ~Covered(confirmed, goal) /\ Leave(t)
    \/ FlushWait(t, goal)

FlushEnter(t) ==
    /\ At(t, "enter")
    /\ IF poisoned THEN Leave(t) ELSE FlushLoop(t, accepted)

(* The wait reaches the flush deadline. *)
FlushElapse(t) ==
    /\ At(t, "waiting")
    /\ Goto(t, "late")
    /\ UNCHANGED <<mutex, pool, frontier, control, locals>>

(* Awake with the mutex: a client that was closed is an error even if the  *)
(* target has been covered in the meantime.                                *)
FlushRecheck(t) ==
    /\ pc[t] \in {"recheck", "lastcheck"}
    /\ IF \/ poisoned
          \/ At(t, "lastcheck") /\ confirmed < target[t]
          \/ closed
       THEN Leave(t)
       ELSE FlushLoop(t, target[t])

-----------------------------------------------------------------------------
(* Client::status only reads; Client::close, also what dropping it does. *)

OtherBegin(t) ==
    /\ At(t, "idle")
    /\ \E operation \in Calls \intersect {"status", "close"} : Goto(t, operation)
    /\ UNCHANGED <<mutex, pool, frontier, control, locals>>

StatusReport(t) == At(t, "report") /\ Leave(t)

(* Faulty variant: close wakes nobody.                                     *)
CloseFinishSilent(t) ==
    /\ At(t, "closing")
    /\ Return(t)
    /\ Goto(t, "idle")
    /\ closed' = (closed \/ ~poisoned)
    /\ UNCHANGED <<pool, frontier, poisoned, reply>>

CloseFinish(t) ==
    /\ At(t, "closing")
    /\ Return(t)
    /\ IF poisoned
       THEN Goto(t, "idle") /\ UNCHANGED closed
       ELSE GotoNotifying(t, "idle") /\ closed' = TRUE
    /\ UNCHANGED <<pool, frontier, poisoned, reply>>

-----------------------------------------------------------------------------
(* deliver: the worker, which ignores poison. *)

WorkerExit ==
    /\ At(Worker, "choose")
    /\ closed
    /\ mutex' = None
    /\ Goto(Worker, "exited")
    /\ UNCHANGED <<pool, frontier, control, locals>>

WorkerRest ==
    /\ At(Worker, "choose")
    /\ ~closed
    /\ ready = <<>>
    /\ mutex' = None
    /\ Goto(Worker, "resting")
    /\ UNCHANGED <<pool, frontier, control, locals>>

WorkerTake ==
    /\ At(Worker, "choose")
    /\ ~closed
    /\ ready # <<>>
    /\ ready' = Tail(ready)
    /\ LET i == Head(ready) IN
       IF CanLease(buffer[i])
       THEN /\ buffer' = [buffer EXCEPT ![i] = LeaseSlot(@)]
            /\ carried' = i
            /\ inflight' = i
            /\ mutex' = None
            /\ Goto(Worker, "sending")
            /\ UNCHANGED poisoned
       ELSE /\ Panic(Worker)
            /\ Goto(Worker, "panicked")
            /\ UNCHANGED <<buffer, carried, inflight>>
    /\ UNCHANGED <<free, frontier, closed, reply, locals>>

(* transport::submit_bytes returns, by its deadline at the latest. *)
Answer(returned) ==
    /\ At(Worker, "sending")
    /\ reply' = returned
    /\ Goto(Worker, "settle")
    /\ UNCHANGED <<mutex, pool, frontier, poisoned, closed, locals>>

(* Faulty variant: any receipt for this producer confirms.                 *)
ConfirmingAnyReceipt == reply # None /\ reply.ours

(* The receipt names this very buffer and the next sequence to confirm. *)
Confirming ==
    /\ reply # None
    /\ reply.ours
    /\ reply.sequence = buffer[carried].sequence
    /\ Confirms(accepted, confirmed, reply.sequence)

WorkerConfirm ==
    /\ At(Worker, "apply")
    /\ Confirming
    /\ confirmed' = buffer[carried].sequence
    /\ last_receipt' = reply
    /\ inflight' = None
    /\ carried' = None
    /\ IF CanRelease(buffer[carried])
       THEN /\ buffer' = [buffer EXCEPT ![carried] = ReleaseSlot(@)]
            /\ free' = free \union {carried}
            /\ mutex' = None
            /\ GotoNotifying(Worker, "top")
            /\ UNCHANGED poisoned
       ELSE /\ Panic(Worker)
            /\ Goto(Worker, "panicked")
            /\ UNCHANGED <<buffer, free>>
    /\ reply' = None
    /\ UNCHANGED <<ready, accepted, log, closed, locals>>

(* Faulty variant: the buffer to retry goes behind the others.             *)
WorkerRetryBehind ==
    /\ At(Worker, "apply")
    /\ ~Confirming
    /\ CanRetry(buffer[carried])
    /\ buffer' = [buffer EXCEPT ![carried] = RetrySlot(@)]
    /\ ready' = Append(ready, carried)
    /\ inflight' = None
    /\ carried' = None
    /\ mutex' = None
    /\ reply' = None
    /\ Goto(Worker, "backoff")
    /\ UNCHANGED <<free, frontier, poisoned, closed, locals>>

(* Anything else: the buffer goes back to the front, and the worker waits  *)
(* on `changed` for up to 100 ms.                                          *)
WorkerRetry ==
    /\ At(Worker, "apply")
    /\ ~Confirming
    /\ inflight' = None
    /\ carried' = None
    /\ mutex' = None
    /\ IF CanRetry(buffer[carried])
       THEN /\ buffer' = [buffer EXCEPT ![carried] = RetrySlot(@)]
            /\ ready' = <<carried>> \o ready
            /\ Goto(Worker, "backoff")
            /\ UNCHANGED poisoned
       ELSE /\ poisoned' = TRUE
            /\ Goto(Worker, "panicked")
            /\ UNCHANGED <<buffer, ready>>
    /\ reply' = None
    /\ UNCHANGED <<free, frontier, closed, locals>>

BackoffElapse ==
    /\ At(Worker, "backoff")
    /\ Goto(Worker, "relock")
    /\ UNCHANGED <<mutex, pool, frontier, control, locals>>

(* wait_timeout has taken the mutex again, and its guard is dropped unused. *)
BackoffDiscard ==
    /\ At(Worker, "discard")
    /\ mutex' = None
    /\ Goto(Worker, "top")
    /\ UNCHANGED <<pool, frontier, control, locals>>

-----------------------------------------------------------------------------
Call(t) ==
    \/ "record" \in Calls /\ \E payload \in Payloads : TryRecord(t, payload)
    \/ "flush" \in Calls /\ FlushBegin(t)
    \/ OtherBegin(t)

CallerStep(t) ==
    \/ Acquire(t)
    \/ RecordRefused(t) \/ RecordInto(t)
    \/ FlushEnter(t) \/ FlushElapse(t) \/ FlushRecheck(t)
    \/ StatusReport(t) \/ CloseFinish(t)

WorkerStep ==
    \/ Acquire(Worker)
    \/ WorkerExit \/ WorkerRest \/ WorkerTake
    \/ WorkerConfirm \/ WorkerRetry
    \/ BackoffElapse \/ BackoffDiscard

ClientNext ==
    \/ \E t \in Callers : Call(t) \/ CallerStep(t)
    \/ \E t \in Threads : Spurious(t)
    \/ WorkerStep

SdkNext == ClientNext \/ \E returned \in Replies : Answer(returned)

SdkSpec == SdkInit /\ [][SdkNext]_sdkVars
(* A thread in the library keeps running, a deadline passes, and a         *)
(* submission returns.  The mutex is not fair, but a blocked thread is     *)
(* not passed over for ever by a worker that waits in between.             *)
SdkFairSpec ==
    /\ SdkSpec
    /\ \A t \in Callers : SF_sdkVars(CallerStep(t)) /\ SF_sdkVars(FlushElapse(t))
    /\ SF_sdkVars(WorkerStep)
    /\ WF_sdkVars(\E returned \in Replies : Answer(returned))
-----------------------------------------------------------------------------
(* Properties *)

Labels == {"idle", "record", "flush", "enter", "waiting", "woken", "late",
           "recheck", "lastcheck", "status", "report", "close", "closing",
           "top", "choose", "resting", "sending", "settle", "apply",
           "backoff", "relock", "discard", "exited", "panicked"}

SdkTypeOK ==
    /\ mutex \in Threads \union {None}
    /\ poisoned \in BOOLEAN
    /\ free \subseteq SlotIds
    /\ ready \in Seq(SlotIds)
    /\ buffer \in [SlotIds -> Buffer]
    /\ accepted \in 0 .. U64Max
    /\ confirmed \in 0 .. U64Max
    /\ last_receipt \in Receipt \union {None}
    /\ inflight \in SlotIds \union {None}
    /\ closed \in BOOLEAN
    /\ carried \in SlotIds \union {None}
    /\ reply \in Receipt \union {None}
    /\ pc \in [Threads -> Labels]
    /\ arg \in [Callers -> Payloads \union {None}]
    /\ target \in [Callers -> Nat]
    /\ log \in Seq(Payloads)
    /\ seen \in [Callers -> Nat]

(* The slots that are charged, in the order of their sequences. *)
Charged == IF carried = None THEN ready ELSE <<carried>> \o ready
ChargedSlots == {Charged[k] : k \in DOMAIN Charged}

(* Every buffer is free, ready or in flight, and in one place only; its    *)
(* credit says which (assert_pool in sdk.rs, at every instant).            *)
PoolPartition ==
    /\ free \intersect ChargedSlots = {}
    /\ free \union ChargedSlots = SlotIds
    /\ \A j, k \in DOMAIN Charged : Charged[j] = Charged[k] => j = k
    /\ \A i \in free : buffer[i].phase = "Free" /\ buffer[i].len = 0
    /\ \A k \in DOMAIN ready : buffer[ready[k]].phase = "Ready"
    /\ carried # None => buffer[carried].phase = "Leased"
    /\ inflight = carried

(* A buffer holds what was accepted as sequence n. *)
Holds(charged, n) ==
    /\ charged.sequence = n
    /\ charged.bytes = log[n]
    /\ charged.len = Size[log[n]]

(* The charged buffers hold the accepted and unconfirmed sequences without *)
(* a gap, in order, each with the payload it was accepted with: retries,   *)
(* refusals and reused slots never mix contents up.                        *)
WindowContiguous ==
    /\ accepted = Len(log)
    /\ accepted = confirmed + Len(Charged)
    /\ \A k \in DOMAIN Charged : Holds(buffer[Charged[k]], confirmed + k)

(* No assert! or expect of the client can fail. *)
NeverPanics == ~poisoned /\ pc[Worker] # "panicked"

(* What flush returns is the receipt of the frontier itself. *)
ReceiptIsFrontier ==
    IF confirmed = 0 THEN last_receipt = None
    ELSE /\ last_receipt # None
         /\ last_receipt.ours
         /\ last_receipt.sequence = confirmed

(* Pool, window, assertions and receipt agree at every instant. *)
ClientInOrder ==
    PoolPartition /\ WindowContiguous /\ NeverPanics /\ ReceiptIsFrontier

(* A receipt that confirms nothing changes neither frontier nor pool, and  *)
(* the frontier moves by one at a time, over the oldest charged record.    *)
FrontierStepsByOne ==
    [][confirmed' # confirmed =>
         /\ confirmed' = confirmed + 1
         /\ carried # None
         /\ buffer[carried].sequence = confirmed'
         /\ reply # None /\ reply.sequence = confirmed']_sdkVars

(* try_record looks at the window and at the free list; Full is reported   *)
(* only when every slot is charged.                                        *)
SdkFullIsExact ==
    Refusal = "Full" => free = {} /\ Len(Charged) = Slots

(* flush succeeds only when everything accepted before the call has been   *)
(* confirmed, whatever other callers admit, the worker retries or the      *)
(* shared condition variable wakes in the meantime.                        *)
FlushCoversEntry ==
    [][\A t \in Callers :
         LET goal == IF At(t, "enter") THEN accepted ELSE target[t] IN
         pc[t] \in {"enter", "recheck", "lastcheck"} /\ FlushSucceed(t, goal) =>
           seen[t] <= confirmed]_sdkVars

(* The worker and every flush wait on one condition variable, and whoever  *)
(* changes what they wait for notifies: nobody sleeps on past its reason,  *)
(* but for a flush that begins on a client already closed, which sleeps    *)
(* to its deadline.                                                        *)
NoLostWakeup ==
    /\ At(Worker, "resting") => ready = <<>> /\ ~closed
    /\ \A t \in Callers : At(t, "waiting") => ~Covered(confirmed, target[t])

(* Once callers start no more operations, those under way return, whatever *)
(* the receiver answers, and the worker of a closed client exits.          *)
Quiet == <>[][\A t \in Callers : ~Call(t)]_sdkVars

OperationsReturn ==
    Quiet => \A t \in Callers : pc[t] # "idle" ~> pc[t] = "idle"

WorkerExits == Quiet => (closed ~> At(Worker, "exited"))

(* Every thread comes to its end: the callers' calls, the closed worker. *)
CallsReturn == OperationsReturn /\ WorkerExits
=============================================================================
