---------------------------- MODULE AdmissionQueue ----------------------------
(***************************************************************************)
(* The bounded multi-producer multi-consumer queue of fabric::admission.   *)
(*                                                                         *)
(* Shared state is one mutex-guarded cell per slot, one mutex-guarded      *)
(* State (ready, order, closed, rejected, leased) and two atomics (fault,  *)
(* probe).  A thread runs one operation at a time; pc[t] is its control    *)
(* point, and at, scan, held, lease and result are its locals.  Every      *)
(* try_lock, blocking lock, atomic access and unlock that another thread   *)
(* can observe is a step of its own.                                       *)
(*                                                                         *)
(* A critical section under the state mutex is one step, taken when its    *)
(* guard is released; the mutex is seen to be held from the earlier        *)
(* acquiring step on.  No code that can panic runs under the state mutex,  *)
(* so only slot mutexes are ever poisoned.                                 *)
(***************************************************************************)
EXTENDS AdmissionKernel, Sequences, FiniteSets

CONSTANTS
  Recorders,      (* threads that call try_record                           *)
  Drainers,       (* threads that call try_dequeue and drop leases          *)
  Controllers,    (* threads that call shutdown and rejected                *)
  Slots,          (* slots(max_bytes, max_record)                           *)
  MaxRecord,      (* bytes of one preallocated buffer                       *)
  Payloads,       (* observations, abstracted to what encoding them does    *)
  Size,           (* bytes each payload encodes to                          *)
  Malformed,      (* payloads Observation::validate refuses                 *)
  Unserializable, (* payloads the serializer refuses before the buffer ends *)
  Panicking,      (* payloads whose encoding unwinds                        *)
  ProbeRange,     (* the probe counter is fetch_add modulo this             *)
  None            (* no thread, buffer, slot, lease or result               *)

Threads == Recorders \union Drainers \union Controllers
SlotIds == 0 .. Slots - 1

Buffer == [phase : Phases, len : Nat, bytes : Payloads \union {None}]
Lease == [slot : SlotIds, ticket : Nat, buffer : Buffer]

ASSUME QueueAssumption ==
    /\ Slots \in Nat \ {0}
    /\ MaxRecord \in Nat
    /\ ProbeRange \in Nat \ {0}
    /\ Size \in [Payloads -> Nat]
    /\ Malformed \subseteq Payloads
    /\ Unserializable \subseteq Payloads
    /\ Panicking \subseteq Payloads
    /\ None \notin Payloads \union Threads \union Nat \union Buffer \union Lease

VARIABLES
  cell,      (* the buffer inside each slot's mutex, or None while taken     *)
  owner,     (* the thread that holds each slot's mutex, or None             *)
  poisoned,  (* each slot mutex's poison flag                                *)
  mutex,     (* the thread that holds the state mutex, or None               *)
  ready,     (* State.ready: the admitted slots and tickets in commit order  *)
  order,     (* State.order: the Fifo of tickets                             *)
  closed,    (* State.closed                                                 *)
  rejected,  (* State.rejected                                               *)
  leased,    (* State.leased                                                 *)
  fault,     (* the terminal fault flag                                      *)
  probe,     (* where the next scan starts                                   *)
  leases,    (* live Lease values in the hands of the application            *)
  panicked,  (* history: an encoding has unwound                             *)
  pc,        (* per thread: the control point of its operation               *)
  at,        (* per thread: the slot whose mutex it owns, or None            *)
  scan,      (* per thread: the payload and progress of its slot scan        *)
  held,      (* per thread: the reserved buffer, or None                     *)
  lease,     (* per thread: the Lease it is dropping, or None                *)
  result     (* per thread: the pending or the last outcome                  *)

shared == <<cell, owner, poisoned, mutex, ready, order, closed, rejected,
            leased, fault, probe, leases, panicked>>
locals == <<at, scan, held, lease, result>>
vars == <<shared, pc, locals>>

Outcomes == {"Accepted", "Invalid", "TooLarge", "Full", "Contended", "Closed",
             "Poisoned", "Exhausted", "Empty", "Leased", "Done", "Panicked"}

NoScan == [payload |-> None, start |-> 0, offset |-> 0, contended |-> FALSE]

Init ==
    /\ cell = [i \in SlotIds |-> [phase |-> "Free", len |-> 0, bytes |-> None]]
    /\ owner = [i \in SlotIds |-> None]
    /\ poisoned = [i \in SlotIds |-> FALSE]
    /\ mutex = None
    /\ ready = <<>>
    /\ order = EmptyFifo
    /\ closed = FALSE
    /\ rejected = 0
    /\ leased = 0
    /\ fault = FALSE
    /\ probe = 0
    /\ leases = {}
    /\ panicked = FALSE
    /\ pc = [t \in Threads |-> "idle"]
    /\ at = [t \in Threads |-> None]
    /\ scan = [t \in Threads |-> NoScan]
    /\ held = [t \in Threads |-> None]
    /\ lease = [t \in Threads |-> None]
    /\ result = [t \in Threads |-> None]

-----------------------------------------------------------------------------
(* Control flow of one thread. *)

At(t, label) == pc[t] = label

Goto(t, label) ==
    /\ pc' = [pc EXCEPT ![t] = label]
    /\ UNCHANGED locals

(* Move on with a new scan, lease or result and no slot. *)
Enter(t, label, progress, dropped, outcome) ==
    /\ pc' = [pc EXCEPT ![t] = label]
    /\ at' = [at EXCEPT ![t] = None]
    /\ scan' = [scan EXCEPT ![t] = progress]
    /\ held' = [held EXCEPT ![t] = None]
    /\ lease' = [lease EXCEPT ![t] = dropped]
    /\ result' = [result EXCEPT ![t] = outcome]

Finish(t, outcome) == Enter(t, "idle", NoScan, None, outcome)
Begin(t, label) == Enter(t, label, NoScan, None, None)

(* An operation that owns a slot guard still has to give it up: LeaveSlot. *)
Leave(t, buffer, outcome) ==
    /\ pc' = [pc EXCEPT ![t] = "leave"]
    /\ held' = [held EXCEPT ![t] = buffer]
    /\ lease' = [lease EXCEPT ![t] = None]
    /\ result' = [result EXCEPT ![t] = outcome]
    /\ UNCHANGED <<at, scan>>

Conclude(t, outcome) ==
    IF at[t] = None THEN Finish(t, outcome) ELSE Leave(t, held[t], outcome)

-----------------------------------------------------------------------------
(* try_record *)

(* The fault flag is loaded first, validation is pure, and the probe       *)
(* counter is only a hint for where to look first, so the fetch_add is     *)
(* joined to the load.                                                     *)
RecordBegin(t, payload) ==
    /\ At(t, "idle")
    /\ \/ /\ fault
          /\ Finish(t, "Poisoned")
          /\ UNCHANGED shared
       \/ /\ ~fault
          /\ payload \in Malformed
          /\ Enter(t, "reject", NoScan, None, "Invalid")
          /\ UNCHANGED shared
       \/ /\ ~fault
          /\ payload \notin Malformed
          /\ Enter(t, "scan", [NoScan EXCEPT !.payload = payload,
                                             !.start = probe % Slots],
                   None, None)
          /\ probe' = (probe + 1) % ProbeRange
          /\ UNCHANGED <<cell, owner, poisoned, mutex, ready, order, closed,
                         rejected, leased, fault, leases, panicked>>

Candidate(t) == (scan[t].start + scan[t].offset) % Slots

ScanNext(t, offset, contended) ==
    Enter(t, "scan", [scan[t] EXCEPT !.offset = offset, !.contended = contended],
          None, None)

(* Faulty variant: the scan goes round until a slot is free.               *)
AdvanceSpins(t, contended) == ScanNext(t, (scan[t].offset + 1) % Slots, contended)

(* Go on to the next slot; after the last one the scan has failed. *)
Advance(t, contended) ==
    IF scan[t].offset + 1 < Slots
    THEN ScanNext(t, scan[t].offset + 1, contended)
    ELSE IF contended
    THEN Finish(t, "Contended")
    ELSE Enter(t, "reject", NoScan, None, "Full")

ProbeSlot(t) ==
    /\ At(t, "scan")
    /\ LET i == Candidate(t) IN
       \/ /\ owner[i] # None
          /\ Advance(t, TRUE)
          /\ UNCHANGED shared
       \/ /\ owner[i] = None
          /\ poisoned[i]
          /\ fault' = TRUE
          /\ Finish(t, "Poisoned")
          /\ UNCHANGED <<cell, owner, poisoned, mutex, ready, order, closed,
                         rejected, leased, probe, leases, panicked>>
       \/ /\ owner[i] = None
          /\ ~poisoned[i]
          /\ owner' = [owner EXCEPT ![i] = t]
          /\ pc' = [pc EXCEPT ![t] = "inspect"]
          /\ at' = [at EXCEPT ![t] = i]
          /\ UNCHANGED <<scan, held, lease, result>>
          /\ UNCHANGED <<cell, poisoned, mutex, ready, order, closed, rejected,
                         leased, fault, probe, leases, panicked>>

(* Reserve the credit of the buffer in the slot and take the buffer out,   *)
(* or drop the guard at the end of the iteration.                          *)
InspectSlot(t) ==
    /\ At(t, "inspect")
    /\ LET i == at[t] IN
       IF cell[i] # None /\ CanReserve(cell[i])
       THEN /\ pc' = [pc EXCEPT ![t] = "encode"]
            /\ held' = [held EXCEPT ![t] = ReserveSlot(cell[i])]
            /\ cell' = [cell EXCEPT ![i] = None]
            /\ UNCHANGED <<owner, at, scan, lease, result>>
       ELSE /\ owner' = [owner EXCEPT ![i] = None]
            /\ Advance(t, scan[t].contended)
            /\ UNCHANGED cell
    /\ UNCHANGED <<poisoned, mutex, ready, order, closed, rejected, leased,
                   fault, probe, leases, panicked>>

(* The encoder writes into the reserved buffer, through Writer, which asks *)
(* the kernel for every byte.  A failed encoding leaves partial bytes.     *)
Encode(t) ==
    /\ At(t, "encode")
    /\ scan[t].payload \notin Panicking
    /\ LET payload == scan[t].payload
           fits == Fits(MaxRecord, 0, Size[payload])
       IN /\ held' = [held EXCEPT ![t].bytes = payload]
          /\ \/ /\ ~fits
                /\ pc' = [pc EXCEPT ![t] = "reject"]
                /\ result' = [result EXCEPT ![t] = "TooLarge"]
             \/ /\ fits /\ payload \in Unserializable
                /\ pc' = [pc EXCEPT ![t] = "reject"]
                /\ result' = [result EXCEPT ![t] = "Invalid"]
             \/ /\ fits /\ payload \notin Unserializable
                /\ pc' = [pc EXCEPT ![t] = "commit"]
                /\ UNCHANGED result
    /\ UNCHANGED <<shared, at, scan, lease>>

(* Reservation::drop: cancel the credit and put the buffer back. *)
Restored(t) == [cell EXCEPT ![at[t]] = CancelSlot(held[t])]

(* An unwinding encoder drops its locals in reverse: the reservation       *)
(* restores the buffer, FaultOnPanic raises the fault, and then ...        *)
PanicRestore(t) ==
    /\ At(t, "encode")
    /\ scan[t].payload \in Panicking
    /\ cell' = Restored(t)
    /\ fault' = TRUE
    /\ panicked' = TRUE
    /\ pc' = [pc EXCEPT ![t] = "unwind"]
    /\ held' = [held EXCEPT ![t] = None]
    /\ UNCHANGED <<owner, poisoned, mutex, ready, order, closed, rejected,
                   leased, probe, leases, at, scan, lease, result>>

(* ... the slot guard poisons the mutex it unlocks. *)
PanicUnlock(t) ==
    /\ At(t, "unwind")
    /\ poisoned' = [poisoned EXCEPT ![at[t]] = TRUE]
    /\ owner' = [owner EXCEPT ![at[t]] = None]
    /\ Finish(t, "Panicked")
    /\ UNCHANGED <<cell, mutex, ready, order, closed, rejected, leased, fault,
                   probe, leases, panicked>>

-----------------------------------------------------------------------------
(* The state mutex. *)

(* state.try_lock(): go to `inside` with the mutex, or refuse. *)
TryState(t, label, inside) ==
    /\ At(t, label)
    /\ \/ /\ mutex # None
          /\ Conclude(t, "Contended")
          /\ UNCHANGED shared
       \/ /\ mutex = None
          /\ mutex' = t
          /\ Goto(t, inside)
          /\ UNCHANGED <<cell, owner, poisoned, ready, order, closed, rejected,
                         leased, fault, probe, leases, panicked>>

(* reject(reason): count a refusal; Full needs every slot charged. *)
RejectLock(t) == TryState(t, "reject", "decide")

Charged == Len(ready) + leased

(* Faulty variant: the scan's Full is returned without a fresh count. *)
RejectDecideTrustsScan(t) ==
    /\ At(t, "decide")
    /\ IF fault \/ closed
       THEN /\ Conclude(t, IF fault THEN "Poisoned" ELSE "Closed")
            /\ UNCHANGED rejected
       ELSE /\ Conclude(t, result[t])
            /\ rejected' = SaturatingIncrement(rejected)
    /\ mutex' = None
    /\ UNCHANGED <<cell, owner, poisoned, ready, order, closed, leased, fault,
                   probe, leases, panicked>>

RejectDecide(t) ==
    /\ At(t, "decide")
    /\ LET reason == result[t] IN
       \/ /\ fault
          /\ Conclude(t, "Poisoned")
          /\ UNCHANGED <<rejected, fault>>
       \/ /\ ~fault /\ closed
          /\ Conclude(t, "Closed")
          /\ UNCHANGED <<rejected, fault>>
       \/ /\ ~fault /\ ~closed
          /\ reason = "Full" /\ Charged > Slots
          /\ fault' = TRUE
          /\ Conclude(t, "Poisoned")
          /\ UNCHANGED rejected
       \/ /\ ~fault /\ ~closed
          /\ reason = "Full" /\ Charged < Slots
          /\ Conclude(t, "Contended")
          /\ UNCHANGED <<rejected, fault>>
       \/ /\ ~fault /\ ~closed
          /\ reason = "Full" => Charged = Slots
          /\ rejected' = SaturatingIncrement(rejected)
          /\ Conclude(t, reason)
          /\ UNCHANGED fault
    /\ mutex' = None
    /\ UNCHANGED <<cell, owner, poisoned, ready, order, closed, leased, probe,
                   leases, panicked>>

(* The commit of an encoded record, under the slot and the state guards. *)
CommitLock(t) == TryState(t, "commit", "check")

(* Faulty variant: shutdown is looked at before encoding only. *)
CommitCheckIgnoresClose(t) ==
    /\ At(t, "check")
    /\ IF fault
       THEN Conclude(t, "Poisoned") /\ mutex' = None
       ELSE Goto(t, "push") /\ UNCHANGED mutex
    /\ UNCHANGED <<cell, owner, poisoned, ready, order, closed, rejected,
                   leased, fault, probe, leases, panicked>>

CommitCheck(t) ==
    /\ At(t, "check")
    /\ IF fault \/ closed
       THEN /\ Conclude(t, IF fault THEN "Poisoned" ELSE "Closed")
            /\ mutex' = None
       ELSE /\ Goto(t, "push")
            /\ UNCHANGED mutex
    /\ UNCHANGED <<cell, owner, poisoned, ready, order, closed, rejected,
                   leased, fault, probe, leases, panicked>>

CommitPush(t) ==
    /\ At(t, "push")
    /\ mutex' = None
    /\ LET i == at[t]
           len == Size[scan[t].payload]
       IN \/ /\ ~CanEnqueue(order)
             /\ Conclude(t, "Exhausted")
             /\ UNCHANGED <<cell, ready, order, fault>>
          \/ /\ CanEnqueue(order)
             /\ ~CanPublish(held[t], len, MaxRecord)
             /\ order' = Enqueue(order)
             /\ fault' = TRUE
             /\ Conclude(t, "Poisoned")
             /\ UNCHANGED <<cell, ready>>
          \/ /\ CanEnqueue(order)
             /\ CanPublish(held[t], len, MaxRecord)
             /\ cell' = [cell EXCEPT ![i] = PublishSlot(held[t], len)]
             /\ ready' = Append(ready, [slot |-> i, ticket |-> order.next])
             /\ order' = Enqueue(order)
             /\ Leave(t, None, "Accepted")
             /\ UNCHANGED fault
    /\ UNCHANGED <<owner, poisoned, closed, rejected, leased, probe, leases,
                   panicked>>

(* Faulty variant: a refused record's buffer is not put back. *)
LeaveSlotForgetsBuffer(t) ==
    /\ At(t, "leave")
    /\ owner' = [owner EXCEPT ![at[t]] = None]
    /\ Finish(t, result[t])
    /\ UNCHANGED <<cell, poisoned, mutex, ready, order, closed, rejected,
                   leased, fault, probe, leases, panicked>>

(* The reservation that was not taken is restored, then the guard drops.   *)
(* After a commit or a lease release there is none left to restore.        *)
LeaveSlot(t) ==
    /\ At(t, "leave")
    /\ LET i == at[t]
       IN /\ owner' = [owner EXCEPT ![i] = None]
          /\ IF held[t] = None
             THEN UNCHANGED <<cell, fault>>
             ELSE IF CanCancel(held[t])
             THEN cell' = Restored(t) /\ UNCHANGED fault
             ELSE cell' = [cell EXCEPT ![i] = held[t]] /\ fault' = TRUE
    /\ Finish(t, result[t])
    /\ UNCHANGED <<poisoned, mutex, ready, order, closed, rejected, leased,
                   probe, leases, panicked>>

-----------------------------------------------------------------------------
(* try_dequeue *)

DequeueBegin(t) ==
    /\ At(t, "idle")
    /\ IF fault THEN Finish(t, "Poisoned") ELSE Begin(t, "dequeue")
    /\ UNCHANGED shared

DequeueLock(t) == TryState(t, "dequeue", "front")

(* Look at the front entry and try its slot's mutex. *)
DequeueFront(t) ==
    /\ At(t, "front")
    /\ \/ /\ ready = <<>>
          /\ Finish(t, "Empty")
          /\ mutex' = None
          /\ UNCHANGED <<owner, fault>>
       \/ /\ ready # <<>>
          /\ owner[Head(ready).slot] # None
          /\ Finish(t, "Contended")
          /\ mutex' = None
          /\ UNCHANGED <<owner, fault>>
       \/ /\ ready # <<>>
          /\ owner[Head(ready).slot] = None
          /\ poisoned[Head(ready).slot]
          /\ fault' = TRUE
          /\ Finish(t, "Poisoned")
          /\ mutex' = None
          /\ UNCHANGED owner
       \/ /\ ready # <<>>
          /\ owner[Head(ready).slot] = None
          /\ ~poisoned[Head(ready).slot]
          /\ owner' = [owner EXCEPT ![Head(ready).slot] = t]
          /\ pc' = [pc EXCEPT ![t] = "take"]
          /\ at' = [at EXCEPT ![t] = Head(ready).slot]
          /\ UNCHANGED <<mutex, fault, scan, held, lease, result>>
    /\ UNCHANGED <<cell, poisoned, ready, order, closed, rejected, leased,
                   probe, leases, panicked>>

(* Both guards are held: take the buffer, the ticket and the lease, or     *)
(* raise the fault.  The slot guard drops before the state guard.          *)
DequeueTake(t) ==
    /\ At(t, "take")
    /\ LET i == at[t]
           ticket == Head(ready).ticket
           whole == leased < Slots /\ cell[i] # None
           grants == CanDequeue(order, ticket) /\ CanLease(cell[i])
       IN /\ owner' = [owner EXCEPT ![i] = None]
          /\ \/ /\ whole /\ grants
                /\ leases' = leases \union
                     {[slot |-> i, ticket |-> ticket,
                       buffer |-> LeaseSlot(cell[i])]}
                /\ cell' = [cell EXCEPT ![i] = None]
                /\ order' = Dequeue(order)
                /\ ready' = Tail(ready)
                /\ leased' = leased + 1
                /\ Enter(t, "handover", NoScan, None, "Leased")
                /\ UNCHANGED fault
             \/ /\ whole /\ ~grants
                /\ cell' = [cell EXCEPT ![i] = None]
                /\ order' = IF CanDequeue(order, ticket)
                            THEN Dequeue(order) ELSE order
                /\ fault' = TRUE
                /\ Enter(t, "handover", NoScan, None, "Poisoned")
                /\ UNCHANGED <<leases, ready, leased>>
             \/ /\ ~whole
                /\ fault' = TRUE
                /\ Enter(t, "handover", NoScan, None, "Poisoned")
                /\ UNCHANGED <<leases, cell, order, ready, leased>>
    /\ UNCHANGED <<poisoned, mutex, closed, rejected, probe, panicked>>

DequeueReturn(t) ==
    /\ At(t, "handover")
    /\ mutex' = None
    /\ Finish(t, result[t])
    /\ UNCHANGED <<cell, owner, poisoned, ready, order, closed, rejected,
                   leased, fault, probe, leases, panicked>>

-----------------------------------------------------------------------------
(* Lease::drop, by whichever thread lets the lease go. *)

DropBegin(t, dropped) ==
    /\ At(t, "idle")
    /\ leases' = leases \ {dropped}
    /\ Enter(t, "dropSlot", NoScan, dropped, None)
    /\ UNCHANGED <<cell, owner, poisoned, mutex, ready, order, closed,
                   rejected, leased, fault, probe, panicked>>

(* Blocking; a poisoned slot mutex is entered all the same. *)
DropLockSlot(t) ==
    /\ At(t, "dropSlot")
    /\ LET i == lease[t].slot IN
       /\ owner[i] = None
       /\ owner' = [owner EXCEPT ![i] = t]
       /\ pc' = [pc EXCEPT ![t] = "dropState"]
       /\ at' = [at EXCEPT ![t] = i]
    /\ UNCHANGED <<scan, held, lease, result>>
    /\ UNCHANGED <<cell, poisoned, mutex, ready, order, closed, rejected,
                   leased, fault, probe, leases, panicked>>

(* Blocking, with the slot's mutex held. *)
DropLockState(t) ==
    /\ At(t, "dropState")
    /\ mutex = None
    /\ mutex' = t
    /\ Goto(t, "dropFinish")
    /\ UNCHANGED <<cell, owner, poisoned, ready, order, closed, rejected,
                   leased, fault, probe, leases, panicked>>

DropFinish(t) ==
    /\ At(t, "dropFinish")
    /\ LET i == at[t]
           buffer == lease[t].buffer
       IN IF cell[i] # None \/ leased = 0 \/ ~CanRelease(buffer)
          THEN /\ fault' = TRUE
               /\ UNCHANGED <<cell, leased>>
          ELSE /\ leased' = leased - 1
               /\ cell' = [cell EXCEPT ![i] = ReleaseSlot(buffer)]
               /\ UNCHANGED fault
    /\ mutex' = None
    /\ Leave(t, None, "Done")
    /\ UNCHANGED <<owner, poisoned, ready, order, closed, rejected, probe,
                   leases, panicked>>

-----------------------------------------------------------------------------
(* shutdown and rejected *)

ShutdownBegin(t) == At(t, "idle") /\ Begin(t, "shutdown") /\ UNCHANGED shared
ShutdownLock(t) == TryState(t, "shutdown", "close")

ShutdownClose(t) ==
    /\ At(t, "close")
    /\ IF fault
       THEN Finish(t, "Poisoned") /\ UNCHANGED closed
       ELSE Finish(t, "Done") /\ closed' = TRUE
    /\ mutex' = None
    /\ UNCHANGED <<cell, owner, poisoned, ready, order, rejected, leased,
                   fault, probe, leases, panicked>>

(* rejected() waits for the mutex and only reads. *)
CountBegin(t) == At(t, "idle") /\ Begin(t, "count") /\ UNCHANGED shared

CountLock(t) ==
    /\ At(t, "count")
    /\ mutex = None
    /\ mutex' = t
    /\ Goto(t, "countRead")
    /\ UNCHANGED <<cell, owner, poisoned, ready, order, closed, rejected,
                   leased, fault, probe, leases, panicked>>

CountRead(t) ==
    /\ At(t, "countRead")
    /\ mutex' = None
    /\ Finish(t, IF fault THEN "Poisoned" ELSE "Done")
    /\ UNCHANGED <<cell, owner, poisoned, ready, order, closed, rejected,
                   leased, fault, probe, leases, panicked>>

-----------------------------------------------------------------------------
Record(t) ==
    \/ ProbeSlot(t) \/ InspectSlot(t) \/ Encode(t)
    \/ PanicRestore(t) \/ PanicUnlock(t)
    \/ RejectLock(t) \/ RejectDecide(t)
    \/ CommitLock(t) \/ CommitCheck(t) \/ CommitPush(t)

TryDequeue(t) ==
    DequeueLock(t) \/ DequeueFront(t) \/ DequeueTake(t) \/ DequeueReturn(t)

DropLease(t) == DropLockSlot(t) \/ DropLockState(t) \/ DropFinish(t)

Control(t) ==
    ShutdownLock(t) \/ ShutdownClose(t) \/ CountLock(t) \/ CountRead(t)

(* The next step of an operation that has begun. *)
Step(t) ==
    Record(t) \/ TryDequeue(t) \/ DropLease(t) \/ Control(t) \/ LeaveSlot(t)

(* The application starts an operation; it never has to. *)
Call ==
    \/ \E t \in Recorders : \E payload \in Payloads : RecordBegin(t, payload)
    \/ \E t \in Drainers : DequeueBegin(t)
    \/ \E t \in Drainers : \E dropped \in leases : DropBegin(t, dropped)
    \/ \E t \in Controllers : ShutdownBegin(t) \/ CountBegin(t)

Next == Call \/ \E t \in Threads : Step(t)

Spec == Init /\ [][Next]_vars

(* A thread inside the library keeps running; a blocking lock that stays   *)
(* free is taken.                                                          *)
FairSpec == Spec /\ \A t \in Threads : WF_vars(Step(t))
-----------------------------------------------------------------------------
(* Properties *)

Labels == {"idle", "scan", "inspect", "encode", "unwind", "reject", "decide",
           "commit", "check", "push", "leave", "dequeue", "front", "take",
           "handover", "dropSlot", "dropState", "dropFinish", "shutdown",
           "close", "count", "countRead"}

Scan == [payload : Payloads \union {None}, start : Nat, offset : Nat,
         contended : BOOLEAN]

(* The types of the shared state and of every thread's locals. *)
SharedTypeOK ==
    /\ cell \in [SlotIds -> Buffer \union {None}]
    /\ owner \in [SlotIds -> Threads \union {None}]
    /\ poisoned \in [SlotIds -> BOOLEAN]
    /\ mutex \in Threads \union {None}
    /\ ready \in Seq([slot : SlotIds, ticket : Nat])
    /\ order \in [head : Nat, next : 0 .. U64Max]
    /\ closed \in BOOLEAN
    /\ rejected \in 0 .. U64Max
    /\ leased \in 0 .. Slots
    /\ fault \in BOOLEAN
    /\ probe \in 0 .. ProbeRange - 1
    /\ leases \subseteq Lease
    /\ panicked \in BOOLEAN

LocalsTypeOK ==
    /\ pc \in [Threads -> Labels]
    /\ at \in [Threads -> SlotIds \union {None}]
    /\ scan \in [Threads -> Scan]
    /\ held \in [Threads -> Buffer \union {None}]
    /\ lease \in [Threads -> Lease \union {None}]
    /\ result \in [Threads -> Outcomes \union {None}]

TypeOK == SharedTypeOK /\ LocalsTypeOK

(* The control points at which a thread holds the state mutex, those at    *)
(* which it owns a slot mutex, and those at which it may do either.        *)
InState == {"decide", "check", "push", "front", "take", "handover",
            "dropFinish", "close", "countRead"}
InSlot == {"inspect", "encode", "unwind", "commit", "check", "push", "leave",
           "take", "dropState", "dropFinish"}
Refusing == {"reject", "decide"}
Encoded == {"encode", "commit", "check", "push"}
Dropping == {"dropSlot", "dropState", "dropFinish"}

(* A thread holds the mutexes exactly where its control point says, and    *)
(* the locals that the control point relies on are there.                  *)
ControlMatch(t) ==
    /\ mutex = t <=> pc[t] \in InState
    /\ \A i \in SlotIds : owner[i] = t <=> at[t] = i
    /\ pc[t] \in InSlot => at[t] # None
    /\ at[t] # None => pc[t] \in InSlot \union Refusing
    /\ pc[t] \in Encoded => held[t] # None
    /\ held[t] # None =>
         at[t] # None /\ pc[t] \in Encoded \union Refusing \union {"leave"}
    /\ pc[t] \in Refusing /\ at[t] # None => held[t] # None
    /\ pc[t] \in Encoded \union {"scan", "inspect"} => scan[t].payload # None
    /\ lease[t] # None <=> pc[t] \in Dropping
    /\ pc[t] \in {"dropState", "dropFinish"} => at[t] = lease[t].slot
    /\ pc[t] = "take" => ready # <<>> /\ at[t] = Head(ready).slot

ControlInv == TypeOK /\ \A t \in Threads : ControlMatch(t)

(* The leases that exist: the application's and those being dropped. *)
LiveLeases ==
    leases \union {lease[t] : t \in {u \in Threads : lease[u] # None}}

LentSlots == {live.slot : live \in LiveLeases}
ReadySlots == {ready[k].slot : k \in DOMAIN ready}
Reserves(t, i) == held[t] # None /\ at[t] = i

(* A slot's buffer is in its cell, in the reservation of the thread that   *)
(* owns the slot's mutex, or in a lease, and in one of these only.         *)
OnePlace ==
    \A i \in SlotIds :
      /\ i \in LentSlots => cell[i] = None
      /\ cell[i] = None => i \in LentSlots \/ \E t \in Threads : Reserves(t, i)
      /\ \A t \in Threads :
           Reserves(t, i) =>
             cell[i] = None /\ i \notin LentSlots /\ owner[i] = t

(* No two leases hold the same buffer, and none is dropped twice. *)
LeasesUnique ==
    /\ \A one, two \in LiveLeases : one.slot = two.slot => one = two
    /\ \A t, u \in Threads :
         lease[t] # None =>
           lease[t] \notin leases /\ (lease[u] = lease[t] => t = u)

(* The credit in a buffer knows where the buffer is. *)
PhasesAgree ==
    /\ \A i \in SlotIds :
         cell[i] # None =>
           cell[i].phase = IF i \in ReadySlots THEN "Ready" ELSE "Free"
    /\ \A i \in ReadySlots : cell[i] # None
    /\ \A t \in Threads : held[t] # None => held[t].phase = "Reserved"
    /\ \A live \in LiveLeases : live.buffer.phase = "Leased"

(* The conservation of buffers that refusals, unwinding and concurrent     *)
(* scans must never break (Reservation, Lease::drop, record_with_probe,    *)
(* try_dequeue), and the two counts that try_record trusts for Full.       *)
SlotAccounting ==
    /\ OnePlace
    /\ LeasesUnique
    /\ PhasesAgree
    /\ Len(ready) = Cardinality(ReadySlots)
    /\ leased = Cardinality(LentSlots)

(* The ready entries hold the tickets from order.head to order.next, so    *)
(* the ticket that try_dequeue presents is always the one the kernel       *)
(* expects, and a leased record's ticket has left the Fifo.                *)
TicketsContiguous ==
    /\ order.head + Len(ready) = order.next
    /\ \A k \in DOMAIN ready : ready[k].ticket = order.head + k - 1
    /\ \A live \in LiveLeases : live.ticket < order.head

(* Buffers and tickets are in order at every instant. *)
QueueInOrder == SlotAccounting /\ TicketsContiguous

(* The branches that raise the fault flag because the bookkeeping is       *)
(* inconsistent are dead: only an unwinding encoder ever poisons a queue.  *)
OnlyPanicsPoison == fault => panicked

(* Lease::drop blocks on the state mutex while it owns a slot, against the *)
(* order in which try_dequeue takes them.  No cycle can close: whoever     *)
(* holds the state mutex never waits, and whoever owns a slot waits for    *)
(* nothing but the state mutex.                                            *)
HoldersNeverDeadlock ==
    /\ mutex # None => pc[mutex] \notin {"dropSlot", "dropState", "count"}
    /\ \A i \in SlotIds :
         owner[i] # None => pc[owner[i]] \notin {"dropSlot", "count"}

(* A scan looks at the slots one after the other while others come and go. *)
(* Full is reported only at an instant at which every slot is charged.     *)
FullIsExact ==
    [][\A t \in Threads :
         At(t, "decide") /\ ~At(t, "decide")' /\ result'[t] = "Full" =>
           \A i \in SlotIds :
             i \in ReadySlots \union LentSlots]_vars

(* Callers see a bounded FIFO with leases: records come out once each, in  *)
(* commit order and with the contents they were admitted with, no more     *)
(* than Slots are charged, and nothing is admitted after shutdown.         *)
Contents(entry) ==
    [ticket |-> entry.ticket, payload |-> cell[entry.slot].bytes]

Fifo == INSTANCE BoundedFifo WITH
    Capacity <- Slots,
    LastTicket <- U64Max,
    queue <- [k \in DOMAIN ready |-> Contents(ready[k])],
    out <- {[ticket |-> live.ticket, payload |-> live.buffer.bytes] :
              live \in LiveLeases},
    issued <- order.next

ImplementsBoundedFifo == Fifo!FifoSpec

(* Every operation but Lease::drop and rejected makes a bounded number of  *)
(* attempts: it returns however the other threads interleave.              *)
Blocking == {"dropSlot", "dropState", "count"}

TryOperationsReturn ==
    \A t \in Threads :
      pc[t] \notin Blocking \union {"idle"} ~> pc[t] = "idle"

(* Once the application stops starting operations other than drops, every  *)
(* lease that is let go returns its slot and every waiting count returns:  *)
(* the blocking locks never wait on one another in a circle.               *)
Resting == Blocking \union {"idle", "dropFinish", "leave"}

DropsComplete ==
    (<>[](\A t \in Threads : pc[t] \in Resting)) =>
      \A t \in Threads : pc[t] \in Blocking ~> pc[t] = "idle"

(* Both kinds of calls come to their end. *)
CallsReturn == TryOperationsReturn /\ DropsComplete
=============================================================================
