------------------------------- MODULE Ledger -------------------------------
(***************************************************************************)
(* What durable custody promises, with no transactions, crashes, restarts  *)
(* or owners: a list of rows that only grows, one row per identity, whose  *)
(* index is the record id; a source's checkpoint that moves with a row     *)
(* submitted with it and never otherwise; and receipts for rows that are   *)
(* there.                                                                  *)
(***************************************************************************)
EXTENDS Naturals, Sequences

CONSTANTS
  Identities,  (* producer, generation and sequence                         *)
  IdentityOf,  (* the identity that the bytes of an observation carry       *)
  Sources,     (* sources with a checkpoint                                 *)
  Positions,
  None

Bodies == DOMAIN IdentityOf
Checkpoint == [source : Sources, position : Positions]

(* A row is remembered with the checkpoint submitted with it, or None. *)
Row == [body : Bodies, mark : Checkpoint \union {None}]

VARIABLES records,      (* the rows, in the order of their ids              *)
          checkpoints,  (* per source: its last position, or None           *)
          issued        (* the receipts that have been returned             *)

ledgerVars == <<records, checkpoints, issued>>

LedgerInit ==
    /\ records = <<>>
    /\ checkpoints = [s \in Sources |-> None]
    /\ issued = {}

IdentityAt(rows, id) == IdentityOf[rows[id].body]

Recorded(rows, body) ==
    {id \in DOMAIN rows : IdentityAt(rows, id) = IdentityOf[body]}

(* The checkpoints once `mark` has been stored over them. *)
Marking(positions, mark) ==
    IF mark = None THEN positions
    ELSE [positions EXCEPT ![mark.source] = mark.position]

Record(row) ==
    /\ Recorded(records, row.body) = {}
    /\ records' = Append(records, row)
    /\ checkpoints' = Marking(checkpoints, row.mark)
    /\ UNCHANGED issued

Acknowledge(id) ==
    /\ issued' = issued \union {[id |-> id, body |-> records[id].body]}
    /\ UNCHANGED <<records, checkpoints>>

LedgerNext ==
    \/ \E row \in Row : Record(row)
    \/ \E id \in DOMAIN records : Acknowledge(id)

LedgerSpec == LedgerInit /\ [][LedgerNext]_ledgerVars
=============================================================================
