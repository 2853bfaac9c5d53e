---------------------------- MODULE MCSdkClient ----------------------------
(* Small instances of SdkClient against a receiver that answers anything. *)
EXTENDS SdkClient, TLC

CONSTANTS a, b, worker, plain, other, wide, bad, deep

MCSize == [p \in Payloads |-> CASE p = wide -> 3 [] p = other -> 2 [] OTHER -> 1]

MCReceipts(ours, sequences) ==
    {[ours |-> o, sequence |-> n, id |-> 0] : o \in ours, n \in sequences}

(* Lost answers, and receipts of this and of other producers. *)
MCReplies == {None} \union MCReceipts(BOOLEAN, 1 .. U64Max)

(* Lost answers, and receipts of this producer. *)
MCOwnReplies == {None} \union MCReceipts({TRUE}, 1 .. U64Max)
=============================================================================
