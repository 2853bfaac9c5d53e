------------------------------- MODULE Custody -------------------------------
(***************************************************************************)
(* fabric::spindle::custody::Store: one owner of a storage directory, and  *)
(* one SQLite transaction for each observation submitted.                  *)
(*                                                                         *)
(* `records` and `checkpoints` are what is on disk.  A process runs one    *)
(* submission at a time, statement by statement; what its transaction has  *)
(* written is in its own `view`, which a crash loses and a commit makes    *)
(* the disk's.  Rows are never deleted, so the rowid is an index.  Any     *)
(* statement may fail.  A commit that fails may have become durable: with  *)
(* synchronous=EXTRA SQLite syncs the directory after the commit point.    *)
(***************************************************************************)
EXTENDS Ledger

CONSTANTS
  Processes,    (* processes that may open the directory                    *)
  Undecodable,  (* bodies observation::decode refuses                       *)
  Oversized,    (* checkpoints whose source or position has a bad length    *)
  Capacity      (* rows that fit in the quota                               *)

ASSUME CustodyAssumption ==
    /\ IdentityOf \in [Bodies -> Identities]
    /\ Undecodable \subseteq Bodies
    /\ Oversized \subseteq Checkpoint
    /\ Capacity \in Nat
    /\ None \notin Processes \union Positions \union Checkpoint

VARIABLES
  owner,  (* the process with the flock of owner.lock, or None              *)
  stage,  (* per process: where it is                                       *)
  job,    (* per process: the row it is submitting, or None                 *)
  view,   (* per process: the rows and positions its transaction sees       *)
  found   (* per process: the id its receipt will name                      *)

disk == <<records, checkpoints>>
custodyVars == <<disk, issued, owner, stage, job, view, found>>

Stages == {"down", "opening", "idle", "lookup", "insert", "mark", "commit",
           "reply"}
NoView == [records |-> <<>>, checkpoints |-> [s \in Sources |-> None]]

CustodyInit ==
    /\ LedgerInit
    /\ owner = None
    /\ stage = [p \in Processes |-> "down"]
    /\ job = [p \in Processes |-> None]
    /\ view = [p \in Processes |-> NoView]
    /\ found = [p \in Processes |-> 0]

Enter(p, from, to) == stage[p] = from /\ stage' = [stage EXCEPT ![p] = to]

(* Nothing of the submission is left in the process. *)
Forget(p) ==
    /\ job' = [job EXCEPT ![p] = None]
    /\ view' = [view EXCEPT ![p] = NoView]
    /\ found' = [found EXCEPT ![p] = 0]

-----------------------------------------------------------------------------
(* Store::open and Drop *)

(* Faulty variant: a shared lock. *)
OpenLockShared(p) ==
    /\ owner' = p
    /\ Enter(p, "down", "opening")
    /\ UNCHANGED <<disk, issued, job, view, found>>

OpenLock(p) ==
    /\ owner = None
    /\ owner' = p
    /\ Enter(p, "down", "opening")
    /\ UNCHANGED <<disk, issued, job, view, found>>

OpenStore(p) ==
    /\ Enter(p, "opening", "idle")
    /\ UNCHANGED <<disk, issued, owner, job, view, found>>

(* Drop, or an error of open once the lock is taken, or the end of the     *)
(* process at any statement: an uncommitted transaction is rolled back.    *)
Leave(p) ==
    /\ stage[p] # "down"
    /\ stage' = [stage EXCEPT ![p] = "down"]
    /\ owner' = None
    /\ Forget(p)
    /\ UNCHANGED <<disk, issued>>

-----------------------------------------------------------------------------
(* Store::submit *)

Acceptable(row) == row.body \notin Undecodable /\ row.mark \notin Oversized

Submit(p, row) ==
    /\ Acceptable(row)
    /\ Enter(p, "idle", "lookup")
    /\ job' = [job EXCEPT ![p] = row]
    /\ UNCHANGED <<disk, issued, owner, view, found>>

(* Faulty variant: the body that is there is not compared. *)
SubmitDuplicateAnyBody(p) ==
    /\ Enter(p, "lookup", "reply")
    /\ \E id \in Recorded(records, job[p].body) :
         found' = [found EXCEPT ![p] = id]
    /\ UNCHANGED <<disk, issued, owner, job, view>>

(* The same bytes again: the receipt of the row that is there, whatever    *)
(* checkpoint comes with them.                                             *)
SubmitDuplicate(p) ==
    /\ Enter(p, "lookup", "reply")
    /\ \E id \in Recorded(records, job[p].body) :
         /\ records[id].body = job[p].body
         /\ found' = [found EXCEPT ![p] = id]
    /\ UNCHANGED <<disk, issued, owner, job, view>>

(* An error is returned; a transaction that was begun is rolled back. *)
Refuse(p) ==
    /\ stage' = [stage EXCEPT ![p] = "idle"]
    /\ Forget(p)
    /\ UNCHANGED <<disk, issued, owner>>

SubmitConflict(p) ==
    /\ stage[p] = "lookup"
    /\ \E id \in Recorded(records, job[p].body) : records[id].body # job[p].body
    /\ Refuse(p)

SubmitFull(p) ==
    /\ stage[p] = "lookup"
    /\ Recorded(records, job[p].body) = {}
    /\ Len(records) >= Capacity
    /\ Refuse(p)

(* A statement fails: the lookup, one of the transaction, or its commit. *)
StatementFails(p) ==
    /\ stage[p] \in {"lookup", "insert", "mark", "commit"}
    /\ Refuse(p)

SubmitNew(p) ==
    /\ Enter(p, "lookup", "insert")
    /\ Recorded(records, job[p].body) = {}
    /\ Len(records) < Capacity
    /\ UNCHANGED <<disk, issued, owner, job, view, found>>

(* BEGIN, and the INSERT, which the UNIQUE constraint may still refuse. *)
Insert(p) ==
    /\ Enter(p, "insert", IF job[p].mark = None THEN "commit" ELSE "mark")
    /\ Recorded(records, job[p].body) = {}
    /\ view' = [view EXCEPT ![p] = [records |-> Append(records, job[p]),
                                    checkpoints |-> checkpoints]]
    /\ found' = [found EXCEPT ![p] = Len(records) + 1]
    /\ UNCHANGED <<disk, issued, owner, job>>

(* Faulty variant: the checkpoint is stored outside the transaction. *)
MarkOutside(p) ==
    /\ Enter(p, "mark", "commit")
    /\ checkpoints' = Marking(checkpoints, job[p].mark)
    /\ view' = [view EXCEPT ![p].checkpoints = Marking(@, job[p].mark)]
    /\ UNCHANGED <<records, issued, owner, job, found>>

Mark(p) ==
    /\ Enter(p, "mark", "commit")
    /\ view' = [view EXCEPT ![p].checkpoints = Marking(@, job[p].mark)]
    /\ UNCHANGED <<disk, issued, owner, job, found>>

MakeDurable(p) ==
    /\ records' = view[p].records
    /\ checkpoints' = view[p].checkpoints

Commit(p) ==
    /\ Enter(p, "commit", "reply")
    /\ MakeDurable(p)
    /\ UNCHANGED <<issued, owner, job, view, found>>

(* The commit reports an error after its commit point. *)
CommitUnreported(p) ==
    /\ Enter(p, "commit", "idle")
    /\ MakeDurable(p)
    /\ Forget(p)
    /\ UNCHANGED <<issued, owner>>

Reply(p) ==
    /\ Enter(p, "reply", "idle")
    /\ issued' = issued \union {[id |-> found[p], body |-> job[p].body]}
    /\ Forget(p)
    /\ UNCHANGED <<disk, owner>>

-----------------------------------------------------------------------------
CustodyNext ==
    \E p \in Processes :
        \/ OpenLock(p) \/ OpenStore(p) \/ Leave(p)
        \/ \E row \in Row : Submit(p, row)
        \/ SubmitDuplicate(p) \/ SubmitConflict(p) \/ SubmitFull(p)
        \/ SubmitNew(p) \/ Insert(p) \/ Mark(p) \/ StatementFails(p)
        \/ Commit(p) \/ CommitUnreported(p) \/ Reply(p)

CustodySpec == CustodyInit /\ [][CustodyNext]_custodyVars

-----------------------------------------------------------------------------
(* Properties *)

CustodyTypeOK ==
    /\ records \in Seq(Row)
    /\ checkpoints \in [Sources -> Positions \union {None}]
    /\ issued \subseteq [id : Nat, body : Bodies]
    /\ owner \in Processes \union {None}
    /\ stage \in [Processes -> Stages]
    /\ job \in [Processes -> Row \union {None}]
    /\ view \in [Processes ->
         [records : Seq(Row), checkpoints : [Sources -> Positions \union {None}]]]
    /\ found \in [Processes -> Nat]

(* One row per identity, across retries, refusals, crashes and owners. *)
IdentitiesUnique ==
    \A i, j \in DOMAIN records :
        IdentityAt(records, i) = IdentityAt(records, j) => i = j

(* A receipt names a row on disk with the very bytes submitted, now and    *)
(* after any crash; a receipt being returned already does.                 *)
ReceiptsDurable ==
    \A receipt \in issued :
        /\ receipt.id \in DOMAIN records
        /\ records[receipt.id].body = receipt.body

(* Rows are unique, and kept for whoever has a receipt. *)
RowsAreKept == IdentitiesUnique /\ ReceiptsDurable

MarksOf(source, rows) ==
    {id \in DOMAIN rows : rows[id].mark # None /\ rows[id].mark.source = source}

Follows(positions, rows) ==
    \A s \in Sources :
        IF MarksOf(s, rows) = {} THEN positions[s] = None
        ELSE \E last \in MarksOf(s, rows) :
               /\ \A id \in MarksOf(s, rows) : id <= last
               /\ positions[s] = rows[last].mark.position

(* A source's checkpoint is the position submitted with the last row of    *)
(* that source: never ahead of a row that was lost, never moved back by a  *)
(* retry, never left behind by a row that was kept.                        *)
CheckpointsFollowRows == Follows(checkpoints, records)

(* Seen from outside, a Store is a Ledger. *)
ImplementsLedger == LedgerSpec
=============================================================================
