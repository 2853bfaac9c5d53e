-------------------------- MODULE MCAdmissionQueue --------------------------
(* Small instances of AdmissionQueue.  A payload is named for what encoding *)
(* it does; the two good ones tell contents apart.                          *)
EXTENDS AdmissionQueue, TLC

CONSTANTS t1, t2, t3, plain, other, wide, bad, cyclic, crash

MCSize == [p \in Payloads |-> IF p \in {other} THEN 2 ELSE IF p = wide THEN 3 ELSE 1]

=============================================================================
