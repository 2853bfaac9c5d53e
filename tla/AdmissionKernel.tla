--------------------------- MODULE AdmissionKernel ---------------------------
(***************************************************************************)
(* The admission-kernel crate: checked capacity arithmetic, the phases of  *)
(* one payload credit, ordering tickets and the delivery frontier.         *)
(*                                                                         *)
(* Each Rust method is a guard (the value of its boolean or the is_some()  *)
(* of its option) and a transition, used only where the guard holds: the   *)
(* methods leave the state alone when they refuse.                         *)
(***************************************************************************)
EXTENDS Naturals

CONSTANT U64Max   (* u64::MAX, the largest ticket, sequence and counter *)

ASSUME U64Assumption == U64Max \in Nat

(* reserve(capacity, used, charge): Some(used + charge), or None. *)
Fits(capacity, used, charge) == used <= capacity /\ charge <= capacity - used

(* Values of u64 counters that stop at the top instead of wrapping. *)
SaturatingIncrement(n) == IF n = U64Max THEN n ELSE n + 1

-----------------------------------------------------------------------------
(* Slot: the credit that travels with one payload buffer. *)

Phases == {"Free", "Reserved", "Ready", "Leased"}

CanReserve(slot) == slot.phase = "Free"
ReserveSlot(slot) == [slot EXCEPT !.phase = "Reserved"]

CanPublish(slot, len, capacity) == slot.phase = "Reserved" /\ len <= capacity
PublishSlot(slot, n) == [slot EXCEPT !.phase = "Ready", !.len = n]

CanLease(slot) == slot.phase = "Ready"
LeaseSlot(slot) == [slot EXCEPT !.phase = "Leased"]

CanCancel(slot) == slot.phase = "Reserved"
CancelSlot(slot) == [slot EXCEPT !.phase = "Free", !.len = 0]

CanRetry(slot) == slot.phase = "Leased"
RetrySlot(slot) == [slot EXCEPT !.phase = "Ready"]

CanRelease(slot) == slot.phase = "Leased"
ReleaseSlot(slot) == [slot EXCEPT !.phase = "Free", !.len = 0]

-----------------------------------------------------------------------------
(* Fifo: tickets of successful enqueues, never reused. *)

EmptyFifo == [head |-> 0, next |-> 0]

CanEnqueue(fifo) == fifo.next # U64Max
Enqueue(fifo) == [fifo EXCEPT !.next = @ + 1]

CanDequeue(fifo, ticket) == fifo.head < fifo.next /\ ticket = fifo.head
(* Faulty variant: the next expected ticket does not advance. *)
DequeueKeepsHead(fifo) == fifo

Dequeue(fifo) == [fifo EXCEPT !.head = @ + 1]

-----------------------------------------------------------------------------
(* The delivery frontier of the SDK. *)

(* Faulty variant: the window closes one record early.                     *)
HasNextSequenceEarly(accepted, confirmed, slots) ==
    /\ confirmed <= accepted
    /\ accepted < U64Max
    /\ accepted - confirmed + 1 < slots

(* next_sequence(accepted, confirmed, slots) is Some(accepted + 1). *)
HasNextSequence(accepted, confirmed, slots) ==
    /\ confirmed <= accepted
    /\ accepted < U64Max
    /\ accepted - confirmed < slots

(* confirm_sequence(accepted, confirmed, receipt) is Some(receipt). *)
Confirms(accepted, confirmed, receipt) ==
    confirmed < accepted /\ receipt = confirmed + 1

(* Faulty variant: the last record of the target is not waited for.        *)
CoveredEarly(confirmed, target) == target <= confirmed + 1

Covered(confirmed, target) == target <= confirmed
=============================================================================
