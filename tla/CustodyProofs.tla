---------------------------- MODULE CustodyProofs ----------------------------
(***************************************************************************)
(* Custody's safety for every set of processes, bodies and checkpoints and *)
(* every quota: the invariants that MCCustody checks, and that a Store is  *)
(* a Ledger.                                                               *)
(*                                                                         *)
(* The invariants are not inductive by themselves: a commit makes durable  *)
(* what a transaction wrote many steps ago.  CustodyInv adds that only the *)
(* owner of the lock has a submission under way, and that the view of a    *)
(* transaction is the disk of this very moment with one row and its mark.  *)
(***************************************************************************)
EXTENDS Custody, TLAPS

(* Only the owner is out of "down". *)
Exclusive == \A p \in Processes : stage[p] # "down" => owner = p

(* The transaction of p is the disk plus the row it submits. *)
ViewAhead(p) ==
    /\ stage[p] \in {"lookup", "insert", "mark", "commit", "reply"} => job[p] \in Row
    /\ stage[p] \in {"mark", "commit"} =>
         /\ Recorded(records, job[p].body) = {}
         /\ view[p].records = Append(records, job[p])
         /\ found[p] = Len(records) + 1
    /\ stage[p] = "mark" => view[p].checkpoints = checkpoints
    /\ stage[p] = "commit" =>
         view[p].checkpoints = Marking(checkpoints, job[p].mark)
    /\ stage[p] = "reply" =>
         /\ found[p] \in DOMAIN records
         /\ records[found[p]].body = job[p].body

ViewsAhead == \A p \in Processes : ViewAhead(p)

CustodyInv ==
    /\ CustodyTypeOK
    /\ Exclusive
    /\ ViewsAhead
    /\ IdentitiesUnique
    /\ ReceiptsDurable
    /\ CheckpointsFollowRows

-----------------------------------------------------------------------------
(* What one row more does to the invariants about rows. *)

(* A row appended keeps every earlier row at its id. *)
LEMMA AppendKeeps ==
    ASSUME NEW rows \in Seq(Row), NEW row \in Row
    PROVE  /\ Append(rows, row) \in Seq(Row)
           /\ DOMAIN rows = 1 .. Len(rows)
           /\ DOMAIN Append(rows, row) = 1 .. Len(rows) + 1
           /\ Append(rows, row)[Len(rows) + 1] = row
           /\ \A id \in DOMAIN rows :
                id \in DOMAIN Append(rows, row) /\ Append(rows, row)[id] = rows[id]
  OBVIOUS

(* A row with an identity of its own keeps identities unique. *)
LEMMA AppendUnique ==
    ASSUME NEW rows \in Seq(Row), NEW row \in Row,
           Recorded(rows, row.body) = {},
           \A i, j \in DOMAIN rows : IdentityAt(rows, i) = IdentityAt(rows, j) => i = j
    PROVE  \A i, j \in DOMAIN Append(rows, row) :
             IdentityAt(Append(rows, row), i) = IdentityAt(Append(rows, row), j) => i = j
  <1> DEFINE more == Append(rows, row)
  <1>1. \A id \in DOMAIN rows : IdentityAt(rows, id) # IdentityOf[row.body]
    BY DEF Recorded
  <1>2. IdentityAt(more, Len(rows) + 1) = IdentityOf[row.body]
    BY AppendKeeps DEF IdentityAt
  <1>3. \A id \in DOMAIN rows : IdentityAt(more, id) = IdentityAt(rows, id)
    BY AppendKeeps DEF IdentityAt
  <1>4. \A id \in DOMAIN more : id \in DOMAIN rows \/ id = Len(rows) + 1
    BY AppendKeeps
  <1> HIDE DEF more
  <1>5. \A i, j \in DOMAIN more : IdentityAt(more, i) = IdentityAt(more, j) => i = j
    BY <1>1, <1>2, <1>3, <1>4
  <1> QED
    BY <1>5 DEF more

(* Storing a mark with the row that carries it keeps checkpoints in step. *)
LEMMA MarkingFollows ==
    ASSUME NEW rows \in Seq(Row), NEW row \in Row,
           NEW positions \in [Sources -> Positions \union {None}],
           Follows(positions, rows)
    PROVE  Follows(Marking(positions, row.mark), Append(rows, row))
  <1> DEFINE more == Append(rows, row)
             after == Marking(positions, row.mark)
  <1>1. SUFFICES ASSUME NEW s \in Sources
                 PROVE  IF MarksOf(s, more) = {} THEN after[s] = None
                        ELSE \E last \in MarksOf(s, more) :
                               /\ \A id \in MarksOf(s, more) : id <= last
                               /\ after[s] = more[last].mark.position
    BY DEF Follows
  <1>2. /\ row.mark # None => row.mark \in Checkpoint
        /\ row.mark \in Checkpoint => row.mark # None
    BY CustodyAssumption DEF Row
  <1>3. CASE row.mark # None /\ row.mark.source = s
    <2>1. Len(rows) + 1 \in MarksOf(s, more)
      BY <1>3, AppendKeeps DEF MarksOf
    <2>2. \A id \in MarksOf(s, more) : id <= Len(rows) + 1
      BY AppendKeeps DEF MarksOf
    <2>3. after[s] = row.mark.position
      BY <1>3 DEF Marking
    <2>4. more[Len(rows) + 1].mark.position = row.mark.position
      BY AppendKeeps
    <2> QED
      BY <2>1, <2>2, <2>3, <2>4
  <1>4. CASE ~(row.mark # None /\ row.mark.source = s)
    <2>1. after[s] = positions[s]
      BY <1>4, <1>2 DEF Marking, Checkpoint
    <2>2. MarksOf(s, more) = MarksOf(s, rows)
      BY <1>4, AppendKeeps DEF MarksOf
    <2>3. \A id \in MarksOf(s, rows) : more[id] = rows[id]
      BY AppendKeeps DEF MarksOf
    <2>4. IF MarksOf(s, rows) = {} THEN positions[s] = None
          ELSE \E last \in MarksOf(s, rows) :
                 /\ \A id \in MarksOf(s, rows) : id <= last
                 /\ positions[s] = rows[last].mark.position
      BY DEF Follows
    <2> QED
      BY <2>1, <2>2, <2>3, <2>4
  <1> QED
    BY <1>3, <1>4
-----------------------------------------------------------------------------
(* What a step does to everything but the process that takes it. *)

(* While p holds the lock, or may take it, everyone else is down. *)
LEMMA OthersDown ==
    ASSUME CustodyInv, NEW p \in Processes, stage[p] # "down" \/ owner = None
    PROVE  \A q \in Processes : q # p => stage[q] = "down"
  BY CustodyAssumption DEF CustodyInv, Exclusive

(* So exclusion and the views are a matter of p's own next state. *)
LEMMA StepOfOne ==
    ASSUME CustodyInv, NEW p \in Processes, NEW to \in Stages,
           stage[p] # "down" \/ owner = None,
           stage' = [stage EXCEPT ![p] = to],
           to # "down" => owner' = p,
           ViewAhead(p)'
    PROVE  Exclusive' /\ ViewsAhead'
  <1>1. \A q \in Processes : q # p => stage'[q] = "down"
    BY OthersDown DEF CustodyInv, CustodyTypeOK
  <1>2. stage'[p] = to
    BY DEF CustodyInv, CustodyTypeOK
  <1>3. Exclusive'
    BY <1>1, <1>2 DEF Exclusive
  <1>4. \A q \in Processes : q # p => ViewAhead(q)'
    BY <1>1 DEF ViewAhead
  <1>5. ViewsAhead'
    BY <1>4 DEF ViewsAhead
  <1> QED
    BY <1>3, <1>5

(* A step that leaves the disk alone keeps what is said of it. *)
LEMMA DiskKept ==
    ASSUME CustodyInv, UNCHANGED disk
    PROVE  /\ IdentitiesUnique' /\ CheckpointsFollowRows'
           /\ UNCHANGED issued => ReceiptsDurable'
  BY DEF CustodyInv, disk, IdentitiesUnique, CheckpointsFollowRows, Follows,
         MarksOf, ReceiptsDurable, IdentityAt

(* A commit, reported or not, adds one row and its mark to the disk. *)
LEMMA DiskGrows ==
    ASSUME CustodyInv, NEW p \in Processes, stage[p] = "commit",
           MakeDurable(p), UNCHANGED issued
    PROVE  /\ Record(job[p])
           /\ job[p] \in Row
           /\ records' \in Seq(Row)
           /\ checkpoints' \in [Sources -> Positions \union {None}]
           /\ found[p] \in DOMAIN records'
           /\ records'[found[p]] = job[p]
           /\ IdentitiesUnique' /\ CheckpointsFollowRows' /\ ReceiptsDurable'
  <1>1. /\ job[p] \in Row
        /\ Recorded(records, job[p].body) = {}
        /\ records' = Append(records, job[p])
        /\ found[p] = Len(records) + 1
        /\ checkpoints' = Marking(checkpoints, job[p].mark)
    BY DEF CustodyInv, ViewsAhead, ViewAhead, MakeDurable
  <1>2. /\ records \in Seq(Row)
        /\ checkpoints \in [Sources -> Positions \union {None}]
        /\ Follows(checkpoints, records)
    BY DEF CustodyInv, CustodyTypeOK, CheckpointsFollowRows
  <1>3. Record(job[p])
    BY <1>1 DEF Record
  <1>4. records' \in Seq(Row)
    BY <1>1, <1>2, AppendKeeps
  <1>5. checkpoints' \in [Sources -> Positions \union {None}]
    <2>1. CASE job[p].mark = None
      BY <1>1, <1>2, <2>1 DEF Marking
    <2>2. CASE job[p].mark # None
      <3>1. job[p].mark \in Checkpoint
        BY <1>1, <2>2 DEF Row
      <3>2. job[p].mark.source \in Sources /\ job[p].mark.position \in Positions
        BY <3>1 DEF Checkpoint
      <3> QED
        BY <1>1, <1>2, <2>2, <3>2 DEF Marking
    <2> QED
      BY <2>1, <2>2
  <1>6. found[p] \in DOMAIN records' /\ records'[found[p]] = job[p]
    BY <1>1, <1>2, AppendKeeps
  <1>7. IdentitiesUnique'
    <2>1. \A i, j \in DOMAIN records :
            IdentityAt(records, i) = IdentityAt(records, j) => i = j
      BY DEF CustodyInv, IdentitiesUnique
    <2> QED
      BY <1>1, <1>2, <2>1, AppendUnique DEF IdentitiesUnique, IdentityAt
  <1>8. CheckpointsFollowRows'
    <2>1. Follows(Marking(checkpoints, job[p].mark), Append(records, job[p]))
      BY <1>1, <1>2, MarkingFollows
    <2> QED
      BY <1>1, <2>1 DEF CheckpointsFollowRows, Follows, MarksOf
  <1>9. ReceiptsDurable'
    <2>1. \A id \in DOMAIN records : id \in DOMAIN records' /\ records'[id] = records[id]
      BY <1>1, <1>2, AppendKeeps
    <2> QED
      BY <2>1 DEF CustodyInv, ReceiptsDurable
  <1> QED
    BY <1>1, <1>3, <1>4, <1>5, <1>6, <1>7, <1>8, <1>9

-----------------------------------------------------------------------------
(* The steps, one lemma for each kind *)

(* Nothing is under way in p once it has forgotten its submission. *)
LEMMA ForgetTyped ==
    ASSUME CustodyInv, NEW p \in Processes, Forget(p)
    PROVE  /\ job' \in [Processes -> Row \union {None}]
           /\ view' \in [Processes -> [records : Seq(Row),
                           checkpoints : [Sources -> Positions \union {None}]]]
           /\ found' \in [Processes -> Nat]
  <1>1. NoView \in [records : Seq(Row),
                    checkpoints : [Sources -> Positions \union {None}]]
    BY DEF NoView
  <1> QED
    BY <1>1 DEF CustodyInv, CustodyTypeOK, Forget

LEMMA OpenLockInv ==
    ASSUME CustodyInv, NEW p \in Processes, OpenLock(p) PROVE CustodyInv'
  <1>1. CustodyTypeOK'
    BY DEF OpenLock, Enter, disk, CustodyInv, CustodyTypeOK, Stages
  <1>2. stage' = [stage EXCEPT ![p] = "opening"] /\ owner' = p /\ owner = None
    BY DEF OpenLock, Enter
  <1>3. ViewAhead(p)'
    BY <1>2 DEF CustodyInv, CustodyTypeOK, ViewAhead
  <1>4. Exclusive' /\ ViewsAhead'
    BY <1>2, <1>3, StepOfOne DEF Stages
  <1>5. IdentitiesUnique' /\ ReceiptsDurable' /\ CheckpointsFollowRows'
    BY DiskKept DEF OpenLock
  <1> QED
    BY <1>1, <1>4, <1>5 DEF CustodyInv

LEMMA OpenStoreInv ==
    ASSUME CustodyInv, NEW p \in Processes, OpenStore(p) PROVE CustodyInv'
  <1>1. CustodyTypeOK'
    BY DEF OpenStore, Enter, disk, CustodyInv, CustodyTypeOK, Stages
  <1>2. /\ stage[p] = "opening" /\ stage' = [stage EXCEPT ![p] = "idle"]
        /\ owner' = p
    BY DEF OpenStore, Enter, CustodyInv, Exclusive
  <1>3. ViewAhead(p)'
    BY <1>2 DEF CustodyInv, CustodyTypeOK, ViewAhead
  <1>4. Exclusive' /\ ViewsAhead'
    BY <1>2, <1>3, StepOfOne DEF Stages
  <1>5. IdentitiesUnique' /\ ReceiptsDurable' /\ CheckpointsFollowRows'
    BY DiskKept DEF OpenStore
  <1> QED
    BY <1>1, <1>4, <1>5 DEF CustodyInv

LEMMA LeaveInv ==
    ASSUME CustodyInv, NEW p \in Processes, Leave(p) PROVE CustodyInv'
  <1>1. CustodyTypeOK'
    BY ForgetTyped DEF Leave, disk, CustodyInv, CustodyTypeOK, Stages
  <1>2. stage[p] # "down" /\ stage' = [stage EXCEPT ![p] = "down"]
    BY DEF Leave
  <1>3. ViewAhead(p)'
    BY <1>2 DEF CustodyInv, CustodyTypeOK, ViewAhead
  <1>4. Exclusive' /\ ViewsAhead'
    BY <1>2, <1>3, StepOfOne DEF Stages
  <1>5. IdentitiesUnique' /\ ReceiptsDurable' /\ CheckpointsFollowRows'
    BY DiskKept DEF Leave
  <1> QED
    BY <1>1, <1>4, <1>5 DEF CustodyInv

LEMMA SubmitInv ==
    ASSUME CustodyInv, NEW p \in Processes, NEW row \in Row, Submit(p, row)
    PROVE  CustodyInv'
  <1>1. CustodyTypeOK'
    BY DEF Submit, Enter, disk, CustodyInv, CustodyTypeOK, Stages
  <1>2. /\ stage[p] = "idle" /\ stage' = [stage EXCEPT ![p] = "lookup"]
        /\ owner' = p /\ job'[p] = row
    BY DEF Submit, Enter, CustodyInv, CustodyTypeOK, Exclusive
  <1>3. ViewAhead(p)'
    BY <1>2 DEF CustodyInv, CustodyTypeOK, ViewAhead
  <1>4. Exclusive' /\ ViewsAhead'
    BY <1>2, <1>3, StepOfOne DEF Stages
  <1>5. IdentitiesUnique' /\ ReceiptsDurable' /\ CheckpointsFollowRows'
    BY DiskKept DEF Submit
  <1> QED
    BY <1>1, <1>4, <1>5 DEF CustodyInv

LEMMA SubmitDuplicateInv ==
    ASSUME CustodyInv, NEW p \in Processes, SubmitDuplicate(p) PROVE CustodyInv'
  <1>1. PICK id \in Recorded(records, job[p].body) :
          records[id].body = job[p].body /\ found' = [found EXCEPT ![p] = id]
    BY DEF SubmitDuplicate
  <1>2. id \in DOMAIN records /\ id \in Nat
    BY <1>1 DEF Recorded, CustodyInv, CustodyTypeOK
  <1>3. CustodyTypeOK'
    BY <1>1, <1>2 DEF SubmitDuplicate, Enter, disk, CustodyInv, CustodyTypeOK, Stages
  <1>4. /\ stage[p] = "lookup" /\ stage' = [stage EXCEPT ![p] = "reply"]
        /\ owner' = p /\ found'[p] = id /\ job' = job /\ records' = records
    BY <1>1 DEF SubmitDuplicate, Enter, disk, CustodyInv, CustodyTypeOK, Exclusive
  <1>5. ViewAhead(p)'
    BY <1>1, <1>2, <1>4 DEF CustodyInv, CustodyTypeOK, ViewsAhead, ViewAhead
  <1>6. Exclusive' /\ ViewsAhead'
    BY <1>4, <1>5, StepOfOne DEF Stages
  <1>7. IdentitiesUnique' /\ ReceiptsDurable' /\ CheckpointsFollowRows'
    BY DiskKept DEF SubmitDuplicate
  <1> QED
    BY <1>3, <1>6, <1>7 DEF CustodyInv

(* Every way to refuse a submission. *)
LEMMA RefuseInv ==
    ASSUME CustodyInv, NEW p \in Processes, stage[p] # "down", Refuse(p)
    PROVE  CustodyInv'
  <1>1. CustodyTypeOK'
    BY ForgetTyped DEF Refuse, disk, CustodyInv, CustodyTypeOK, Stages
  <1>2. stage' = [stage EXCEPT ![p] = "idle"] /\ owner' = p
    BY DEF Refuse, CustodyInv, Exclusive
  <1>3. ViewAhead(p)'
    BY <1>2 DEF CustodyInv, CustodyTypeOK, ViewAhead
  <1>4. Exclusive' /\ ViewsAhead'
    BY <1>2, <1>3, StepOfOne DEF Stages
  <1>5. IdentitiesUnique' /\ ReceiptsDurable' /\ CheckpointsFollowRows'
    BY DiskKept DEF Refuse
  <1> QED
    BY <1>1, <1>4, <1>5 DEF CustodyInv

LEMMA SubmitNewInv ==
    ASSUME CustodyInv, NEW p \in Processes, SubmitNew(p) PROVE CustodyInv'
  <1>1. CustodyTypeOK'
    BY DEF SubmitNew, Enter, disk, CustodyInv, CustodyTypeOK, Stages
  <1>2. /\ stage[p] = "lookup" /\ stage' = [stage EXCEPT ![p] = "insert"]
        /\ owner' = p /\ job' = job
    BY DEF SubmitNew, Enter, CustodyInv, Exclusive
  <1>3. ViewAhead(p)'
    BY <1>2 DEF CustodyInv, CustodyTypeOK, ViewsAhead, ViewAhead
  <1>4. Exclusive' /\ ViewsAhead'
    BY <1>2, <1>3, StepOfOne DEF Stages
  <1>5. IdentitiesUnique' /\ ReceiptsDurable' /\ CheckpointsFollowRows'
    BY DiskKept DEF SubmitNew
  <1> QED
    BY <1>1, <1>4, <1>5 DEF CustodyInv

LEMMA InsertInv ==
    ASSUME CustodyInv, NEW p \in Processes, Insert(p) PROVE CustodyInv'
  <1> DEFINE to == IF job[p].mark = None THEN "commit" ELSE "mark"
             seen == [records |-> Append(records, job[p]),
                      checkpoints |-> checkpoints]
  <1>1. /\ stage[p] = "insert" /\ stage' = [stage EXCEPT ![p] = to]
        /\ owner' = p /\ job' = job /\ UNCHANGED disk /\ UNCHANGED issued
        /\ Recorded(records, job[p].body) = {}
    BY DEF Insert, Enter, CustodyInv, Exclusive
  <1>2. job[p] \in Row
    BY <1>1 DEF CustodyInv, ViewsAhead, ViewAhead
  <1>3. /\ seen \in [records : Seq(Row),
                     checkpoints : [Sources -> Positions \union {None}]]
        /\ Len(records) + 1 \in Nat
    BY <1>2, AppendKeeps DEF CustodyInv, CustodyTypeOK
  <1>4. view' = [view EXCEPT ![p] = seen] /\ found' = [found EXCEPT ![p] = Len(records) + 1]
    BY DEF Insert
  <1>5. to \in Stages
    BY DEF Stages
  <1> HIDE DEF seen
  <1>6. CustodyTypeOK'
    BY <1>1, <1>3, <1>4, <1>5 DEF disk, CustodyInv, CustodyTypeOK
  <1>7. /\ view'[p] = seen /\ found'[p] = Len(records) + 1 /\ stage'[p] = to
        /\ records' = records /\ checkpoints' = checkpoints
    BY <1>1, <1>4 DEF disk, CustodyInv, CustodyTypeOK
  <1>8. seen.records = Append(records, job[p]) /\ seen.checkpoints = checkpoints
    BY DEF seen
  <1>9. to = "commit" => Marking(checkpoints, job[p].mark) = checkpoints
    BY DEF Marking
  <1>10. to # "reply" /\ to # "down" /\ (to = "mark" \/ to = "commit")
    OBVIOUS
  <1> HIDE DEF to
  <1>11. ViewAhead(p)'
    BY <1>1, <1>2, <1>7, <1>8, <1>9, <1>10 DEF ViewAhead, Recorded, IdentityAt, Marking
  <1>12. Exclusive' /\ ViewsAhead'
    BY <1>1, <1>5, <1>11, StepOfOne
  <1>13. IdentitiesUnique' /\ ReceiptsDurable' /\ CheckpointsFollowRows'
    BY <1>1, DiskKept
  <1> QED
    BY <1>6, <1>12, <1>13 DEF CustodyInv

LEMMA MarkInv ==
    ASSUME CustodyInv, NEW p \in Processes, Mark(p) PROVE CustodyInv'
  <1> DEFINE marked == Marking(checkpoints, job[p].mark)
  <1>1. /\ stage[p] = "mark" /\ stage' = [stage EXCEPT ![p] = "commit"]
        /\ owner' = p /\ job' = job /\ found' = found
        /\ UNCHANGED disk /\ UNCHANGED issued
    BY DEF Mark, Enter, CustodyInv, Exclusive
  <1>2. /\ job[p] \in Row
        /\ Recorded(records, job[p].body) = {}
        /\ view[p].records = Append(records, job[p])
        /\ view[p].checkpoints = checkpoints
        /\ found[p] = Len(records) + 1
    BY <1>1 DEF CustodyInv, ViewsAhead, ViewAhead
  <1>3. marked \in [Sources -> Positions \union {None}]
    <2>1. CASE job[p].mark = None
      BY <2>1 DEF Marking, CustodyInv, CustodyTypeOK
    <2>2. CASE job[p].mark # None
      <3>1. job[p].mark.source \in Sources /\ job[p].mark.position \in Positions
        BY <1>2, <2>2 DEF Row, Checkpoint
      <3> QED
        BY <2>2, <3>1 DEF Marking, CustodyInv, CustodyTypeOK
    <2> QED
      BY <2>1, <2>2
  <1>4. view' = [view EXCEPT ![p].checkpoints = marked]
    BY <1>2 DEF Mark
  <1> HIDE DEF marked
  <1>5. view' \in [Processes -> [records : Seq(Row),
                     checkpoints : [Sources -> Positions \union {None}]]]
    BY <1>3, <1>4 DEF CustodyInv, CustodyTypeOK
  <1>6. CustodyTypeOK'
    BY <1>1, <1>5 DEF disk, CustodyInv, CustodyTypeOK, Stages
  <1>7. view'[p].records = view[p].records /\ view'[p].checkpoints = marked
    BY <1>4 DEF CustodyInv, CustodyTypeOK
  <1>8. stage'[p] = "commit" /\ records' = records /\ checkpoints' = checkpoints
    BY <1>1 DEF disk, CustodyInv, CustodyTypeOK
  <1>9. ViewAhead(p)'
    BY <1>1, <1>2, <1>7, <1>8 DEF marked, ViewAhead, Recorded, IdentityAt, Marking
  <1>10. Exclusive' /\ ViewsAhead'
    BY <1>1, <1>9, StepOfOne DEF Stages
  <1>11. IdentitiesUnique' /\ ReceiptsDurable' /\ CheckpointsFollowRows'
    BY <1>1, DiskKept
  <1> QED
    BY <1>6, <1>10, <1>11 DEF CustodyInv

LEMMA CommitInv ==
    ASSUME CustodyInv, NEW p \in Processes, Commit(p) PROVE CustodyInv'
  <1>1. /\ stage[p] = "commit" /\ stage' = [stage EXCEPT ![p] = "reply"]
        /\ owner' = p /\ job' = job /\ found' = found
        /\ MakeDurable(p) /\ UNCHANGED issued
    BY DEF Commit, Enter, CustodyInv, Exclusive
  <1>2. /\ job[p] \in Row
        /\ records' \in Seq(Row)
        /\ checkpoints' \in [Sources -> Positions \union {None}]
        /\ found[p] \in DOMAIN records'
        /\ records'[found[p]] = job[p]
        /\ IdentitiesUnique' /\ CheckpointsFollowRows' /\ ReceiptsDurable'
    BY <1>1, DiskGrows
  <1>3. CustodyTypeOK'
    BY <1>1, <1>2 DEF Commit, CustodyInv, CustodyTypeOK, Stages
  <1>4. ViewAhead(p)'
    BY <1>1, <1>2 DEF CustodyInv, CustodyTypeOK, ViewAhead
  <1>5. Exclusive' /\ ViewsAhead'
    BY <1>1, <1>4, StepOfOne DEF Stages
  <1> QED
    BY <1>2, <1>3, <1>5 DEF CustodyInv

LEMMA CommitUnreportedInv ==
    ASSUME CustodyInv, NEW p \in Processes, CommitUnreported(p) PROVE CustodyInv'
  <1>1. /\ stage[p] = "commit" /\ stage' = [stage EXCEPT ![p] = "idle"]
        /\ owner' = p /\ MakeDurable(p) /\ UNCHANGED issued
    BY DEF CommitUnreported, Enter, CustodyInv, Exclusive
  <1>2. /\ records' \in Seq(Row)
        /\ checkpoints' \in [Sources -> Positions \union {None}]
        /\ IdentitiesUnique' /\ CheckpointsFollowRows' /\ ReceiptsDurable'
    BY <1>1, DiskGrows
  <1>3. CustodyTypeOK'
    BY <1>1, <1>2, ForgetTyped DEF CommitUnreported, CustodyInv, CustodyTypeOK, Stages
  <1>4. ViewAhead(p)'
    BY <1>1 DEF CustodyInv, CustodyTypeOK, ViewAhead
  <1>5. Exclusive' /\ ViewsAhead'
    BY <1>1, <1>4, StepOfOne DEF Stages
  <1> QED
    BY <1>2, <1>3, <1>5 DEF CustodyInv

LEMMA ReplyInv ==
    ASSUME CustodyInv, NEW p \in Processes, Reply(p) PROVE CustodyInv'
  <1> DEFINE receipt == [id |-> found[p], body |-> job[p].body]
  <1>1. /\ stage[p] = "reply" /\ stage' = [stage EXCEPT ![p] = "idle"]
        /\ owner' = p /\ UNCHANGED disk /\ Forget(p)
        /\ issued' = issued \union {receipt}
    BY DEF Reply, Enter, CustodyInv, Exclusive
  <1>2. /\ job[p] \in Row /\ found[p] \in DOMAIN records
        /\ records[found[p]].body = job[p].body
    BY <1>1 DEF CustodyInv, ViewsAhead, ViewAhead
  <1>3. receipt \in [id : Nat, body : Bodies]
    BY <1>2 DEF Row, CustodyInv, CustodyTypeOK
  <1>4. CustodyTypeOK'
    BY <1>1, <1>3, ForgetTyped DEF Reply, disk, CustodyInv, CustodyTypeOK, Stages
  <1>5. ViewAhead(p)'
    BY <1>1 DEF CustodyInv, CustodyTypeOK, ViewAhead
  <1>6. Exclusive' /\ ViewsAhead'
    BY <1>1, <1>5, StepOfOne DEF Stages
  <1>7. IdentitiesUnique' /\ CheckpointsFollowRows'
    BY <1>1, DiskKept
  <1>8. ReceiptsDurable'
    BY <1>1, <1>2 DEF disk, CustodyInv, ReceiptsDurable
  <1> QED
    BY <1>4, <1>6, <1>7, <1>8 DEF CustodyInv

-----------------------------------------------------------------------------
(* The theorems *)

LEMMA InitInv == CustodyInit => CustodyInv
  <1> SUFFICES ASSUME CustodyInit PROVE CustodyInv
    OBVIOUS
  <1>1. NoView \in [records : Seq(Row),
                    checkpoints : [Sources -> Positions \union {None}]]
    BY DEF NoView
  <1>2. CustodyTypeOK
    BY <1>1 DEF CustodyInit, LedgerInit, CustodyTypeOK, Stages
  <1>3. Exclusive /\ ViewsAhead
    BY DEF CustodyInit, Exclusive, ViewsAhead, ViewAhead
  <1>4. IdentitiesUnique /\ ReceiptsDurable
    BY DEF CustodyInit, LedgerInit, IdentitiesUnique, ReceiptsDurable
  <1>5. CheckpointsFollowRows
    BY DEF CustodyInit, LedgerInit, CheckpointsFollowRows, Follows, MarksOf
  <1> QED
    BY <1>2, <1>3, <1>4, <1>5 DEF CustodyInv

LEMMA NextInv == CustodyInv /\ [CustodyNext]_custodyVars => CustodyInv'
  <1> SUFFICES ASSUME CustodyInv, [CustodyNext]_custodyVars PROVE CustodyInv'
    OBVIOUS
  <1>1. CASE UNCHANGED custodyVars
    <2>1. CustodyTypeOK' /\ Exclusive'
      BY <1>1 DEF custodyVars, disk, CustodyInv, CustodyTypeOK, Exclusive
    <2>2. ASSUME NEW p \in Processes PROVE ViewAhead(p)'
      <3>1. ViewAhead(p)
        BY DEF CustodyInv, ViewsAhead
      <3> QED
        BY <1>1, <3>1 DEF custodyVars, disk, ViewAhead, Recorded, IdentityAt, Marking
    <2>3. IdentitiesUnique' /\ CheckpointsFollowRows' /\ ReceiptsDurable'
      BY <1>1, DiskKept DEF custodyVars
    <2> QED
      BY <2>1, <2>2, <2>3 DEF CustodyInv, ViewsAhead
  <1>2. ASSUME NEW p \in Processes, OpenLock(p) PROVE CustodyInv'
    BY <1>2, OpenLockInv
  <1>3. ASSUME NEW p \in Processes, OpenStore(p) PROVE CustodyInv'
    BY <1>3, OpenStoreInv
  <1>4. ASSUME NEW p \in Processes, Leave(p) PROVE CustodyInv'
    BY <1>4, LeaveInv
  <1>5. ASSUME NEW p \in Processes, NEW row \in Row, Submit(p, row)
        PROVE  CustodyInv'
    BY <1>5, SubmitInv
  <1>6. ASSUME NEW p \in Processes, SubmitDuplicate(p) PROVE CustodyInv'
    BY <1>6, SubmitDuplicateInv
  <1>7. ASSUME NEW p \in Processes,
               SubmitConflict(p) \/ SubmitFull(p) \/ StatementFails(p)
        PROVE  CustodyInv'
    <2>1. stage[p] # "down" /\ Refuse(p)
      BY <1>7 DEF SubmitConflict, SubmitFull, StatementFails
    <2> QED
      BY <2>1, RefuseInv
  <1>8. ASSUME NEW p \in Processes, SubmitNew(p) PROVE CustodyInv'
    BY <1>8, SubmitNewInv
  <1>9. ASSUME NEW p \in Processes, Insert(p) PROVE CustodyInv'
    BY <1>9, InsertInv
  <1>10. ASSUME NEW p \in Processes, Mark(p) PROVE CustodyInv'
    BY <1>10, MarkInv
  <1>11. ASSUME NEW p \in Processes, Commit(p) \/ CommitUnreported(p)
         PROVE  CustodyInv'
    BY <1>11, CommitInv, CommitUnreportedInv
  <1>12. ASSUME NEW p \in Processes, Reply(p) PROVE CustodyInv'
    BY <1>12, ReplyInv
  <1> QED
    BY <1>1, <1>2, <1>3, <1>4, <1>5, <1>6, <1>7, <1>8, <1>9, <1>10, <1>11, <1>12
    DEF CustodyNext

THEOREM CustodySafe == CustodySpec => []CustodyInv
  BY InitInv, NextInv, PTL DEF CustodySpec

(* Every variable of the store keeps its type. *)
THEOREM CustodyTyped == CustodySpec => []CustodyTypeOK
  <1>1. CustodyInv => CustodyTypeOK
    BY DEF CustodyInv
  <1> QED
    BY <1>1, CustodySafe, PTL

(* No identity is ever stored twice (the lookup of submit). *)
THEOREM UniqueIdentities == CustodySpec => []IdentitiesUnique
  <1>1. CustodyInv => IdentitiesUnique
    BY DEF CustodyInv
  <1> QED
    BY <1>1, CustodySafe, PTL

(* A receipt that submit has returned names, for ever, the row with those  *)
(* bytes.                                                                  *)
THEOREM DurableReceipts == CustodySpec => []ReceiptsDurable
  <1>1. CustodyInv => ReceiptsDurable
    BY DEF CustodyInv
  <1> QED
    BY <1>1, CustodySafe, PTL

(* RowsAreKept: rows are unique, and kept for whoever has a receipt. *)
THEOREM KeptRows == CustodySpec => []RowsAreKept
  <1>1. IdentitiesUnique /\ ReceiptsDurable => RowsAreKept
    BY DEF RowsAreKept
  <1> QED
    BY <1>1, UniqueIdentities, DurableReceipts, PTL

(* A record and its checkpoint are durable together or not at all.         *)
THEOREM AtomicCheckpoints == CustodySpec => []CheckpointsFollowRows
  <1>1. CustodyInv => CheckpointsFollowRows
    BY DEF CustodyInv
  <1> QED
    BY <1>1, CustodySafe, PTL

(* Every step of a store is a step of the ledger, or is not seen by it. *)
LEMMA StepRefines ==
    CustodyInv /\ [CustodyNext]_custodyVars => [LedgerNext]_ledgerVars
  <1> SUFFICES ASSUME CustodyInv, [CustodyNext]_custodyVars
               PROVE  [LedgerNext]_ledgerVars
    OBVIOUS
  <1>1. ASSUME NEW p \in Processes, Commit(p) \/ CommitUnreported(p)
        PROVE  LedgerNext
    <2>1. stage[p] = "commit" /\ MakeDurable(p) /\ UNCHANGED issued
      BY <1>1 DEF Commit, CommitUnreported, Enter
    <2>2. job[p] \in Row /\ Record(job[p])
      BY <2>1, DiskGrows
    <2> QED
      BY <2>2 DEF LedgerNext
  <1>2. ASSUME NEW p \in Processes, Reply(p) PROVE LedgerNext
    <2>1. /\ found[p] \in DOMAIN records
          /\ records[found[p]].body = job[p].body
      BY <1>2 DEF Reply, Enter, CustodyInv, ViewsAhead, ViewAhead
    <2>2. Acknowledge(found[p])
      BY <1>2, <2>1 DEF Reply, Acknowledge, disk
    <2> QED
      BY <2>1, <2>2 DEF LedgerNext
  <1>3. ASSUME NEW p \in Processes,
               \/ OpenLock(p) \/ OpenStore(p) \/ Leave(p)
               \/ \E row \in Row : Submit(p, row)
               \/ SubmitDuplicate(p) \/ SubmitConflict(p) \/ SubmitFull(p)
               \/ SubmitNew(p) \/ Insert(p) \/ Mark(p) \/ StatementFails(p)
        PROVE  UNCHANGED ledgerVars
    BY <1>3 DEF OpenLock, OpenStore, Leave, Submit, SubmitDuplicate,
       SubmitConflict, SubmitFull, SubmitNew, Insert, Mark, StatementFails,
       Refuse, disk, ledgerVars
  <1>4. CASE UNCHANGED custodyVars
    BY <1>4 DEF custodyVars, disk, ledgerVars
  <1> QED
    BY <1>1, <1>2, <1>3, <1>4 DEF CustodyNext

(* The store implements the ledger, whatever crashes, fails or is retried. *)
THEOREM StoreIsLedger == CustodySpec => ImplementsLedger
  <1>1. CustodyInit => LedgerInit
    BY DEF CustodyInit
  <1> QED
    BY <1>1, StepRefines, CustodySafe, PTL
    DEF CustodySpec, ImplementsLedger, LedgerSpec
=============================================================================
