----------------------------- MODULE MCDelivery -----------------------------
(* Small instances of Delivery: one caller, and a budget of faults. *)
EXTENDS Delivery, TLC

CONSTANTS a, worker, plain, other

MCSize == [p \in Payloads |-> 1]

MCSwaps == Permutations(Payloads)
=============================================================================
