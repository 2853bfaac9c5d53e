------------------------- MODULE AdmissionQueueProofs -------------------------
(***************************************************************************)
(* Proofs about AdmissionQueue, for every number of threads and slots and  *)
(* every assignment of sizes and defects to payloads.                      *)
(***************************************************************************)
EXTENDS AdmissionQueue, SequenceTheorems, TLAPS, FiniteSetTheorems

USE DEF Threads

LEMMA NoneDistinct ==
    /\ None \notin Threads /\ None \notin SlotIds /\ None \notin Payloads
    /\ None \notin Buffer /\ None \notin Lease
BY QueueAssumption DEF SlotIds

LEMMA BufferTypes ==
    ASSUME NEW b \in Buffer, NEW n \in Nat
    PROVE  /\ ReserveSlot(b) \in Buffer /\ PublishSlot(b, n) \in Buffer
           /\ LeaseSlot(b) \in Buffer /\ CancelSlot(b) \in Buffer
           /\ ReleaseSlot(b) \in Buffer
BY DEF Buffer, Phases, ReserveSlot, PublishSlot, LeaseSlot, CancelSlot, ReleaseSlot

LEMMA CandidateSlot ==
    ASSUME LocalsTypeOK, NEW t \in Threads
    PROVE  Candidate(t) \in SlotIds
BY QueueAssumption DEF LocalsTypeOK, Candidate, SlotIds, Scan

-----------------------------------------------------------------------------
(* A step of t moves its own locals and leaves the other threads' alone. *)
LocalsMove(t) ==
    /\ LocalsTypeOK'
    /\ \A u \in Threads \ {t} :
         /\ pc'[u] = pc[u] /\ at'[u] = at[u] /\ scan'[u] = scan[u]
         /\ held'[u] = held[u] /\ lease'[u] = lease[u]
         /\ result'[u] = result[u]

LEMMA EnterMoves ==
    ASSUME LocalsTypeOK, NEW t \in Threads, NEW l \in Labels, NEW p \in Scan,
           NEW d \in Lease \union {None}, NEW o \in Outcomes \union {None},
           Enter(t, l, p, d, o)
    PROVE  /\ LocalsMove(t)
           /\ pc'[t] = l /\ at'[t] = None /\ scan'[t] = p
           /\ held'[t] = None /\ lease'[t] = d /\ result'[t] = o
BY DEF LocalsTypeOK, Enter, LocalsMove

LEMMA LeaveMoves ==
    ASSUME LocalsTypeOK, NEW t \in Threads, NEW b \in Buffer \union {None},
           NEW o \in Outcomes \union {None}, Leave(t, b, o)
    PROVE  /\ LocalsMove(t)
           /\ pc'[t] = "leave" /\ at'[t] = at[t] /\ scan'[t] = scan[t]
           /\ held'[t] = b /\ lease'[t] = None /\ result'[t] = o
BY DEF LocalsTypeOK, Leave, LocalsMove, Labels

LEMMA GotoMoves ==
    ASSUME LocalsTypeOK, NEW t \in Threads, NEW l \in Labels, Goto(t, l)
    PROVE  /\ LocalsMove(t)
           /\ pc'[t] = l /\ at'[t] = at[t] /\ scan'[t] = scan[t]
           /\ held'[t] = held[t] /\ lease'[t] = lease[t]
           /\ result'[t] = result[t]
BY DEF LocalsTypeOK, Goto, locals, LocalsMove

LEMMA NoScanType ==
    /\ NoScan \in Scan
    /\ \A p \in Payloads, s \in Nat :
         [NoScan EXCEPT !.payload = p, !.start = s] \in Scan
BY DEF NoScan, Scan

LEMMA ScanMoves ==
    ASSUME NEW s \in Scan, NEW n \in Nat, NEW c \in BOOLEAN
    PROVE  [s EXCEPT !.offset = n, !.contended = c] \in Scan
BY DEF Scan

LEMMA ReadyHead ==
    ASSUME SharedTypeOK, ready # <<>>
    PROVE  /\ Head(ready) \in [slot : SlotIds, ticket : Nat]
           /\ Head(ready).slot \in SlotIds /\ Head(ready).ticket \in Nat
           /\ Tail(ready) \in Seq([slot : SlotIds, ticket : Nat])
<1>1. ready \in Seq([slot : SlotIds, ticket : Nat])
  BY DEF SharedTypeOK
<1>2. /\ Head(ready) \in [slot : SlotIds, ticket : Nat]
      /\ Tail(ready) \in Seq([slot : SlotIds, ticket : Nat])
  BY <1>1, HeadTailProperties
<1> QED
  BY <1>2

(* What is left to show of a step by t: the shared variables keep their    *)
(* types, only t's hold on the mutexes changes, the ready entries change   *)
(* only under t's state guard, and t is where its control point says.      *)
LEMMA Frame ==
    ASSUME ControlInv, NEW t \in Threads, LocalsMove(t), SharedTypeOK',
           \A u \in Threads \ {t} : mutex' = u <=> mutex = u,
           \A u \in Threads \ {t}, i \in SlotIds : owner'[i] = u <=> owner[i] = u,
           ready' = ready \/ mutex = t,
           ControlMatch(t)'
    PROVE  ControlInv'
<1>1. TypeOK'
  BY DEF LocalsMove, TypeOK
<1>2. ASSUME NEW u \in Threads \ {t} PROVE ControlMatch(u)'
  <2>1. pc[u] = "take" => ready' = ready
    BY DEF ControlInv, ControlMatch, InState
  <2> QED
    BY <2>1 DEF ControlInv, ControlMatch, LocalsMove
<1> QED
  BY <1>1, <1>2 DEF ControlInv

(* The part of Frame that does not depend on the thread's own locals. *)
Framed(t) ==
    /\ SharedTypeOK'
    /\ \A u \in Threads \ {t} : mutex' = u <=> mutex = u
    /\ \A u \in Threads \ {t}, i \in SlotIds : owner'[i] = u <=> owner[i] = u
    /\ ready' = ready \/ mutex = t

LEMMA EnterFrame ==
    ASSUME ControlInv, NEW t \in Threads, NEW l \in Labels, NEW p \in Scan,
           NEW d \in Lease \union {None}, NEW o \in Outcomes \union {None},
           Enter(t, l, p, d, o), Framed(t),
           mutex' = t <=> l \in InState,
           \A i \in SlotIds : owner'[i] # t,
           l \notin InSlot,
           l = "scan" => p.payload # None,
           d # None <=> l \in Dropping
    PROVE  ControlInv'
<1>1. /\ LocalsMove(t) /\ pc'[t] = l /\ at'[t] = None /\ scan'[t] = p
      /\ held'[t] = None /\ lease'[t] = d
  BY EnterMoves DEF ControlInv, TypeOK
<1>2. l \notin Encoded \union {"inspect", "dropState", "dropFinish", "take"}
  BY DEF InSlot, Encoded
<1>3. ControlMatch(t)'
  BY <1>1, <1>2, NoneDistinct DEF ControlMatch
<1> QED
  BY <1>1, <1>3, Frame DEF Framed

LEMMA FinishFrame ==
    ASSUME ControlInv, NEW t \in Threads, NEW o \in Outcomes \union {None},
           Finish(t, o), Framed(t), mutex' # t, \A i \in SlotIds : owner'[i] # t
    PROVE  ControlInv'
<1>1. "idle" \in Labels \ (InState \union InSlot \union Dropping)
  BY DEF Labels, InState, InSlot, Dropping
<1>2. NoScan \in Scan
  BY NoScanType
<1>3. Enter(t, "idle", NoScan, None, o)
  BY DEF Finish
<1> QED
  BY <1>1, <1>2, <1>3, EnterFrame

LEMMA BeginFrame ==
    ASSUME ControlInv, NEW t \in Threads, NEW l \in {"dequeue", "shutdown", "count"},
           Begin(t, l), Framed(t), mutex' # t, \A i \in SlotIds : owner'[i] # t
    PROVE  ControlInv'
<1>1. l \in Labels \ (InState \union InSlot \union Dropping) /\ l # "scan"
  BY DEF Labels, InState, InSlot, Dropping
<1>2. NoScan \in Scan
  BY NoScanType
<1>3. Enter(t, l, NoScan, None, None)
  BY DEF Begin
<1> QED
  BY <1>1, <1>2, <1>3, EnterFrame

LEMMA LeaveFrame ==
    ASSUME ControlInv, NEW t \in Threads, NEW b \in Buffer \union {None},
           NEW o \in Outcomes \union {None}, Leave(t, b, o), at[t] # None,
           Framed(t), mutex' # t, owner' = owner
    PROVE  ControlInv'
<1>1. /\ LocalsMove(t) /\ pc'[t] = "leave" /\ at'[t] = at[t]
      /\ held'[t] = b /\ lease'[t] = None
  BY LeaveMoves DEF ControlInv, TypeOK
<1>2. ControlMatch(t)'
  BY <1>1 DEF ControlInv, ControlMatch, InState, InSlot, Encoded, Refusing, Dropping
<1> QED
  BY <1>1, <1>2, Frame DEF Framed

LEMMA ConcludeFrame ==
    ASSUME ControlInv, NEW t \in Threads, NEW o \in Outcomes \union {None},
           Conclude(t, o), Framed(t), mutex' # t, owner' = owner
    PROVE  ControlInv'
<1>1. CASE at[t] = None
  <2>1. \A i \in SlotIds : owner'[i] # t
    BY <1>1, NoneDistinct DEF ControlInv, ControlMatch
  <2> QED
    BY <1>1, <2>1, FinishFrame DEF Conclude
<1>2. CASE at[t] # None
  <2>1. held[t] \in Buffer \union {None}
    BY DEF ControlInv, TypeOK, LocalsTypeOK
  <2> QED
    BY <1>2, <2>1, LeaveFrame DEF Conclude
<1> QED
  BY <1>1, <1>2

LEMMA GotoFrame ==
    ASSUME ControlInv, NEW t \in Threads, NEW l \in Labels, Goto(t, l), Framed(t),
           <<pc[t], l>> \in
             {<<"reject", "decide">>, <<"commit", "check">>, <<"check", "push">>,
              <<"dequeue", "front">>, <<"dropState", "dropFinish">>,
              <<"shutdown", "close">>, <<"count", "countRead">>},
           mutex' = t, owner' = owner
    PROVE  ControlInv'
<1>1. /\ LocalsMove(t) /\ pc'[t] = l /\ at'[t] = at[t] /\ scan'[t] = scan[t]
      /\ held'[t] = held[t] /\ lease'[t] = lease[t]
  BY GotoMoves DEF ControlInv, TypeOK
<1>2. ControlMatch(t)'
  BY <1>1 DEF ControlInv, ControlMatch, InState, InSlot, Encoded, Refusing, Dropping
<1> QED
  BY <1>1, <1>2, Frame DEF Framed

LEMMA TryStateFrame ==
    ASSUME ControlInv, NEW t \in Threads, NEW l, NEW inside, TryState(t, l, inside),
           <<l, inside>> \in
             {<<"reject", "decide">>, <<"commit", "check">>,
              <<"dequeue", "front">>, <<"shutdown", "close">>}
    PROVE  ControlInv'
<1>1. CASE mutex # None
  <2>1. Conclude(t, "Contended") /\ UNCHANGED shared
    BY <1>1 DEF TryState
  <2>2. Framed(t) /\ mutex' # t /\ owner' = owner
    BY <2>1 DEF TryState, At, Framed, ControlInv, ControlMatch, TypeOK, SharedTypeOK,
       shared, InState
  <2> QED
    BY <2>1, <2>2, ConcludeFrame DEF Outcomes
<1>2. CASE mutex = None
  <2>1. /\ Goto(t, inside) /\ mutex' = t /\ pc[t] = l
        /\ UNCHANGED <<cell, owner, poisoned, ready, order, closed, rejected,
                       leased, fault, probe, leases, panicked>>
    BY <1>2, NoneDistinct DEF TryState, At
  <2>2. Framed(t) /\ owner' = owner
    BY <1>2, <2>1, NoneDistinct DEF Framed, ControlInv, TypeOK, SharedTypeOK
  <2> QED
    BY <2>1, <2>2, GotoFrame DEF Labels
<1> QED
  BY <1>1, <1>2
-----------------------------------------------------------------------------
(* One lemma for every action of try_record. *)

LEMMA InitControl == Init => ControlInv
<1> SUFFICES ASSUME Init PROVE ControlInv
  OBVIOUS
<1>1. LocalsTypeOK
  BY NoScanType DEF Init, LocalsTypeOK, Labels, Outcomes
<1>2. SharedTypeOK
  <2>1. cell \in [SlotIds -> Buffer \union {None}]
    BY DEF Init, Buffer, Phases
  <2>2. /\ owner \in [SlotIds -> Threads \union {None}]
        /\ poisoned \in [SlotIds -> BOOLEAN]
        /\ mutex \in Threads \union {None}
        /\ ready \in Seq([slot : SlotIds, ticket : Nat])
        /\ leases \subseteq Lease
    BY DEF Init
  <2>3. order \in [head : Nat, next : 0 .. U64Max] /\ rejected \in 0 .. U64Max
    BY U64Assumption DEF Init, EmptyFifo
  <2>4. leased \in 0 .. Slots /\ probe \in 0 .. ProbeRange - 1
    BY QueueAssumption DEF Init
  <2> QED
    BY <2>1, <2>2, <2>3, <2>4 DEF Init, SharedTypeOK
<1>3. ASSUME NEW t \in Threads PROVE ControlMatch(t)
  BY NoneDistinct DEF Init, ControlMatch, InState, InSlot, Encoded, Refusing, Dropping
<1> QED
  BY <1>1, <1>2, <1>3 DEF ControlInv, TypeOK

(* A thread that is not at a control point of InSlot or Refusing owns no   *)
(* slot's mutex, and one outside InState does not hold the state mutex.    *)
LEMMA OwnsNothing ==
    ASSUME ControlInv, NEW t \in Threads
    PROVE  /\ pc[t] \notin InSlot \union Refusing => at[t] = None
           /\ at[t] = None => \A i \in SlotIds : owner[i] # t
           /\ pc[t] \notin InState <=> mutex # t
BY NoneDistinct DEF ControlInv, ControlMatch, TypeOK, LocalsTypeOK

LEMMA UnchangedFramed ==
    ASSUME ControlInv, NEW t \in Threads, UNCHANGED shared
    PROVE  Framed(t)
BY DEF ControlInv, TypeOK, SharedTypeOK, Framed, shared

LEMMA RecordBeginControl ==
    ASSUME ControlInv, NEW t \in Threads, NEW payload \in Payloads,
           RecordBegin(t, payload)
    PROVE  ControlInv'
<1>0. /\ mutex # t /\ \A i \in SlotIds : owner[i] # t
  BY OwnsNothing DEF RecordBegin, At, InSlot, InState, Refusing
<1>1. mutex' = mutex /\ owner' = owner
  BY DEF RecordBegin, shared
<1>2. Framed(t)
  <2>1. CASE UNCHANGED shared
    BY <2>1, UnchangedFramed
  <2>2. CASE /\ probe' = (probe + 1) % ProbeRange
             /\ UNCHANGED <<cell, owner, poisoned, mutex, ready, order, closed,
                            rejected, leased, fault, leases, panicked>>
    BY <2>2, QueueAssumption DEF ControlInv, TypeOK, SharedTypeOK, Framed
  <2> QED
    BY <2>1, <2>2 DEF RecordBegin
<1>3. CASE Finish(t, "Poisoned")
  BY <1>0, <1>1, <1>2, <1>3, FinishFrame DEF Outcomes
<1>4. CASE Enter(t, "reject", NoScan, None, "Invalid")
  <2>1. "reject" \in Labels \ (InState \union InSlot \union Dropping)
    BY DEF Labels, InState, InSlot, Dropping
  <2>2. "Invalid" \in Outcomes /\ NoScan \in Scan
    BY NoScanType DEF Outcomes
  <2> QED
    BY <1>0, <1>1, <1>2, <1>4, <2>1, <2>2, EnterFrame
<1>5. CASE Enter(t, "scan", [NoScan EXCEPT !.payload = payload, !.start = probe % Slots],
                 None, None)
  <2> DEFINE p == [NoScan EXCEPT !.payload = payload, !.start = probe % Slots]
  <2>1. "scan" \in Labels \ (InState \union InSlot \union Dropping)
    BY DEF Labels, InState, InSlot, Dropping
  <2>2. probe % Slots \in Nat
    BY QueueAssumption DEF ControlInv, TypeOK, SharedTypeOK
  <2>3. p \in Scan
    BY <2>2, NoScanType
  <2>4. p.payload # None
    BY NoneDistinct DEF NoScan
  <2> HIDE DEF p
  <2>5. Enter(t, "scan", p, None, None)
    BY <1>5 DEF p
  <2> QED
    BY <1>0, <1>1, <1>2, <2>1, <2>3, <2>4, <2>5, EnterFrame
<1> QED
  BY <1>3, <1>4, <1>5 DEF RecordBegin

LEMMA AdvanceControl ==
    ASSUME ControlInv, NEW t \in Threads, NEW c \in BOOLEAN, Advance(t, c),
           Framed(t), mutex' # t, \A i \in SlotIds : owner'[i] # t,
           scan[t].payload # None
    PROVE  ControlInv'
<1>1. {"scan", "reject"} \subseteq Labels \ (InState \union InSlot \union Dropping)
  BY DEF Labels, InState, InSlot, Dropping
<1>2. {"Contended", "Full"} \subseteq Outcomes
  BY DEF Outcomes
<1>3. CASE ScanNext(t, scan[t].offset + 1, c)
  <2> DEFINE p == [scan[t] EXCEPT !.offset = scan[t].offset + 1, !.contended = c]
  <2>0. scan[t] \in Scan
    BY DEF ControlInv, TypeOK, LocalsTypeOK
  <2>a. scan[t].offset + 1 \in Nat /\ p.payload = scan[t].payload
    BY <2>0 DEF Scan
  <2>1. p \in Scan /\ p.payload # None
    BY <2>0, <2>a, ScanMoves
  <2>2. Enter(t, "scan", p, None, None)
    BY <1>3 DEF ScanNext
  <2> HIDE DEF p
  <2> QED
    BY <1>1, <2>1, <2>2, EnterFrame
<1>4. CASE Finish(t, "Contended")
  BY <1>2, <1>4, FinishFrame
<1>5. CASE Enter(t, "reject", NoScan, None, "Full")
  BY <1>1, <1>2, <1>5, NoScanType, EnterFrame
<1> QED
  BY <1>3, <1>4, <1>5 DEF Advance

LEMMA ProbeSlotControl ==
    ASSUME ControlInv, NEW t \in Threads, ProbeSlot(t)
    PROVE  ControlInv'
<1> DEFINE i == Candidate(t)
<1>1. i \in SlotIds
  BY CandidateSlot DEF ControlInv, TypeOK
<1>2. /\ pc[t] = "scan" /\ mutex # t /\ \A j \in SlotIds : owner[j] # t
      /\ at[t] = None
  BY OwnsNothing DEF ProbeSlot, At, InSlot, InState, Refusing
<1>3. scan[t].payload # None
  BY <1>2 DEF ControlInv, ControlMatch
<1>4. CASE Advance(t, TRUE) /\ UNCHANGED shared
  <2>1. Framed(t)
    BY <1>4, UnchangedFramed
  <2> QED
    BY <1>2, <1>3, <1>4, <2>1, AdvanceControl DEF shared
<1>5. CASE /\ fault' = TRUE
           /\ Finish(t, "Poisoned")
           /\ UNCHANGED <<cell, owner, poisoned, mutex, ready, order, closed,
                          rejected, leased, probe, leases, panicked>>
  <2>1. Framed(t)
    BY <1>5 DEF ControlInv, TypeOK, SharedTypeOK, Framed
  <2>2. "Poisoned" \in Outcomes
    BY DEF Outcomes
  <2> QED
    BY <1>2, <1>5, <2>1, <2>2, FinishFrame
<1>6. CASE /\ owner[i] = None
           /\ owner' = [owner EXCEPT ![i] = t]
           /\ pc' = [pc EXCEPT ![t] = "inspect"]
           /\ at' = [at EXCEPT ![t] = i]
           /\ UNCHANGED <<scan, held, lease, result>>
           /\ UNCHANGED <<cell, poisoned, mutex, ready, order, closed, rejected,
                          leased, fault, probe, leases, panicked>>
  <2> HIDE DEF i
  <2>1. /\ LocalsMove(t)
        /\ pc'[t] = "inspect" /\ at'[t] = i /\ scan'[t] = scan[t]
        /\ held'[t] = held[t] /\ lease'[t] = lease[t]
    BY <1>1, <1>6 DEF ControlInv, TypeOK, LocalsTypeOK, LocalsMove, Labels
  <2>2. Framed(t) /\ \A j \in SlotIds : owner'[j] = t <=> j = i
    BY <1>1, <1>2, <1>6, NoneDistinct
    DEF ControlInv, TypeOK, SharedTypeOK, Framed
  <2>3. held[t] = None /\ lease[t] = None
    BY <1>2 DEF ControlInv, ControlMatch, Dropping
  <2>4. ControlMatch(t)'
    BY <1>1, <1>2, <1>3, <1>6, <2>1, <2>2, <2>3, NoneDistinct
    DEF ControlMatch, InState, InSlot, Encoded, Refusing, Dropping
  <2> QED
    BY <2>1, <2>2, <2>4, Frame DEF Framed
<1> QED
  BY <1>4, <1>5, <1>6 DEF ProbeSlot

(* What a thread at a control point of InSlot knows of its slot. *)
LEMMA OwnsItsSlot ==
    ASSUME ControlInv, NEW t \in Threads, at[t] # None
    PROVE  /\ at[t] \in SlotIds
           /\ \A j \in SlotIds : owner[j] = t <=> j = at[t]
BY DEF ControlInv, ControlMatch, TypeOK, LocalsTypeOK

(* Unlocking its slot's mutex leaves the other threads' hold alone. *)
LEMMA UnlockSlot ==
    ASSUME ControlInv, NEW t \in Threads, at[t] # None,
           owner' = [owner EXCEPT ![at[t]] = None]
    PROVE  /\ owner' \in [SlotIds -> Threads \union {None}]
           /\ \A j \in SlotIds : owner'[j] # t
           /\ \A u \in Threads \ {t}, j \in SlotIds : owner'[j] = u <=> owner[j] = u
BY OwnsItsSlot, NoneDistinct DEF ControlInv, TypeOK, SharedTypeOK

LEMMA InspectSlotControl ==
    ASSUME ControlInv, NEW t \in Threads, InspectSlot(t)
    PROVE  ControlInv'
<1> DEFINE i == at[t]
<1>1. /\ pc[t] = "inspect" /\ mutex # t /\ i # None
      /\ scan[t].payload # None /\ lease[t] = None
  BY OwnsNothing DEF InspectSlot, At, InState, InSlot, Encoded, Dropping, ControlInv,
     ControlMatch
<1>2. i \in SlotIds /\ \A j \in SlotIds : owner[j] = t <=> j = i
  BY <1>1, OwnsItsSlot
<1>3. UNCHANGED <<poisoned, mutex, ready, order, closed, rejected, leased,
                  fault, probe, leases, panicked>>
  BY DEF InspectSlot
<1>4. CASE cell[i] # None /\ CanReserve(cell[i])
  <2>1. /\ pc' = [pc EXCEPT ![t] = "encode"]
        /\ held' = [held EXCEPT ![t] = ReserveSlot(cell[i])]
        /\ cell' = [cell EXCEPT ![i] = None]
        /\ UNCHANGED <<owner, at, scan, lease, result>>
    BY <1>4 DEF InspectSlot
  <2>2. cell[i] \in Buffer
    BY <1>2, <1>4 DEF ControlInv, TypeOK, SharedTypeOK
  <2>3. ReserveSlot(cell[i]) \in Buffer
    BY <2>2, BufferTypes
  <2>4. /\ LocalsMove(t) /\ pc'[t] = "encode" /\ at'[t] = at[t]
        /\ scan'[t] = scan[t] /\ held'[t] # None /\ lease'[t] = lease[t]
    BY <2>1, <2>3, NoneDistinct DEF ControlInv, TypeOK, LocalsTypeOK, LocalsMove, Labels
  <2>5. Framed(t)
    BY <1>3, <2>1 DEF ControlInv, TypeOK, SharedTypeOK, Framed
  <2>6. ControlMatch(t)'
    BY <1>1, <1>2, <1>3, <2>1, <2>4
    DEF ControlMatch, InState, InSlot, Encoded, Refusing, Dropping
  <2> QED
    BY <2>4, <2>5, <2>6, Frame DEF Framed
<1>5. CASE ~(cell[i] # None /\ CanReserve(cell[i]))
  <2>1. /\ owner' = [owner EXCEPT ![i] = None]
        /\ Advance(t, scan[t].contended)
        /\ UNCHANGED cell
    BY <1>5 DEF InspectSlot
  <2>2. Framed(t) /\ \A j \in SlotIds : owner'[j] # t
    BY <1>1, <1>3, <2>1, UnlockSlot DEF ControlInv, TypeOK, SharedTypeOK, Framed
  <2>3. scan[t].contended \in BOOLEAN
    BY DEF ControlInv, TypeOK, LocalsTypeOK, Scan
  <2> QED
    BY <1>1, <1>3, <2>1, <2>2, <2>3, AdvanceControl
<1> QED
  BY <1>4, <1>5
LEMMA EncodeControl ==
    ASSUME ControlInv, NEW t \in Threads, Encode(t)
    PROVE  ControlInv'
<1>1. /\ pc[t] = "encode" /\ mutex # t /\ at[t] # None /\ held[t] # None
      /\ scan[t].payload # None /\ lease[t] = None
  BY OwnsNothing DEF Encode, At, InState, InSlot, Encoded, Dropping, ControlInv,
     ControlMatch
<1>2. scan[t].payload \in Payloads /\ held[t] \in Buffer
  BY <1>1 DEF ControlInv, TypeOK, LocalsTypeOK, Scan
<1>3. [held[t] EXCEPT !.bytes = scan[t].payload] \in Buffer
  BY <1>2 DEF Buffer
<1>4. /\ UNCHANGED <<shared, at, scan, lease>>
      /\ held' = [held EXCEPT ![t] = [held[t] EXCEPT !.bytes = scan[t].payload]]
      /\ pc' = [pc EXCEPT ![t] = pc'[t]]
      /\ pc'[t] \in {"reject", "commit"}
      /\ result' = [result EXCEPT ![t] = result'[t]]
      /\ result'[t] \in Outcomes \union {None}
  BY DEF Encode, Outcomes, ControlInv, TypeOK, LocalsTypeOK
<1>5. /\ LocalsMove(t) /\ at'[t] = at[t] /\ scan'[t] = scan[t]
      /\ held'[t] # None /\ lease'[t] = lease[t]
  BY <1>3, <1>4, NoneDistinct DEF ControlInv, TypeOK, LocalsTypeOK, LocalsMove, Labels
<1>6. Framed(t)
  BY <1>4, UnchangedFramed
<1>7. ControlMatch(t)'
  BY <1>1, <1>4, <1>5, OwnsItsSlot
  DEF shared, ControlMatch, InState, InSlot, Encoded, Refusing, Dropping
<1> QED
  BY <1>5, <1>6, <1>7, Frame DEF Framed

LEMMA RestoredType ==
    ASSUME ControlInv, NEW t \in Threads, at[t] # None, held[t] # None
    PROVE  Restored(t) \in [SlotIds -> Buffer \union {None}]
<1>1. held[t] \in Buffer
  BY DEF ControlInv, TypeOK, LocalsTypeOK
<1>2. CancelSlot(held[t]) \in Buffer
  BY <1>1, BufferTypes
<1> QED
  BY <1>2 DEF Restored, ControlInv, TypeOK, SharedTypeOK

LEMMA PanicRestoreControl ==
    ASSUME ControlInv, NEW t \in Threads, PanicRestore(t)
    PROVE  ControlInv'
<1>1. /\ pc[t] = "encode" /\ mutex # t /\ at[t] # None /\ held[t] # None
      /\ lease[t] = None
  BY OwnsNothing DEF PanicRestore, At, InState, InSlot, Encoded, Dropping,
     ControlInv, ControlMatch
<1>2. /\ UNCHANGED <<owner, poisoned, mutex, ready, order, closed, rejected,
                     leased, probe, leases, at, scan, lease, result>>
      /\ cell' = Restored(t) /\ fault' = TRUE /\ panicked' = TRUE
      /\ pc' = [pc EXCEPT ![t] = "unwind"]
      /\ held' = [held EXCEPT ![t] = None]
  BY DEF PanicRestore
<1>3. /\ LocalsMove(t) /\ pc'[t] = "unwind" /\ at'[t] = at[t]
      /\ scan'[t] = scan[t] /\ held'[t] = None /\ lease'[t] = lease[t]
  BY <1>2 DEF ControlInv, TypeOK, LocalsTypeOK, LocalsMove, Labels
<1>4. Framed(t)
  BY <1>1, <1>2, RestoredType DEF ControlInv, TypeOK, SharedTypeOK, Framed
<1>5. ControlMatch(t)'
  BY <1>1, <1>2, <1>3, OwnsItsSlot
  DEF ControlMatch, InState, InSlot, Encoded, Refusing, Dropping
<1> QED
  BY <1>3, <1>4, <1>5, Frame DEF Framed

LEMMA PanicUnlockControl ==
    ASSUME ControlInv, NEW t \in Threads, PanicUnlock(t)
    PROVE  ControlInv'
<1>1. mutex # t /\ at[t] # None
  BY OwnsNothing DEF PanicUnlock, At, InState, InSlot, ControlInv, ControlMatch
<1>2. /\ poisoned' = [poisoned EXCEPT ![at[t]] = TRUE]
      /\ owner' = [owner EXCEPT ![at[t]] = None]
      /\ UNCHANGED <<cell, mutex, ready, order, closed, rejected, leased,
                     fault, probe, leases, panicked>>
      /\ Finish(t, "Panicked")
  BY DEF PanicUnlock
<1>3. Framed(t) /\ \A j \in SlotIds : owner'[j] # t
  BY <1>1, <1>2, UnlockSlot DEF ControlInv, TypeOK, SharedTypeOK, Framed
<1>4. "Panicked" \in Outcomes
  BY DEF Outcomes
<1> QED
  BY <1>1, <1>2, <1>3, <1>4, FinishFrame

LEMMA SaturatingType ==
    ASSUME NEW n \in 0 .. U64Max
    PROVE  SaturatingIncrement(n) \in 0 .. U64Max
BY U64Assumption DEF SaturatingIncrement

(* Giving up the state mutex: what Framed asks of mutex. *)
LEMMA UnlockState ==
    ASSUME ControlInv, NEW t \in Threads, pc[t] \in InState, mutex' = None
    PROVE  /\ mutex = t /\ mutex' # t
           /\ mutex' \in Threads \union {None}
           /\ \A u \in Threads \ {t} : mutex' = u <=> mutex = u
BY OwnsNothing, NoneDistinct

LEMMA RejectDecideControl ==
    ASSUME ControlInv, NEW t \in Threads, RejectDecide(t)
    PROVE  ControlInv'
<1>1. pc[t] = "decide" /\ pc[t] \in InState
  BY DEF RejectDecide, At, InState
<1>2. /\ mutex' = None
      /\ UNCHANGED <<cell, owner, poisoned, ready, order, closed, leased,
                     probe, leases, panicked>>
  BY DEF RejectDecide
<1>3. /\ rejected' \in {rejected, SaturatingIncrement(rejected)}
      /\ fault' \in {fault, TRUE}
      /\ \E o \in Outcomes \union {None} : Conclude(t, o)
  <2>1. result[t] \in Outcomes \union {None}
    BY DEF ControlInv, TypeOK, LocalsTypeOK
  <2> QED
    BY <2>1 DEF RejectDecide, Outcomes
<1>4. Framed(t)
  BY <1>1, <1>2, <1>3, UnlockState, SaturatingType
  DEF ControlInv, TypeOK, SharedTypeOK, Framed
<1> QED
  BY <1>1, <1>2, <1>3, <1>4, UnlockState, ConcludeFrame

LEMMA CommitCheckControl ==
    ASSUME ControlInv, NEW t \in Threads, CommitCheck(t)
    PROVE  ControlInv'
<1>1. pc[t] = "check" /\ pc[t] \in InState /\ mutex = t
  BY OwnsNothing DEF CommitCheck, At, InState
<1>2. UNCHANGED <<cell, owner, poisoned, ready, order, closed, rejected,
                  leased, fault, probe, leases, panicked>>
  BY DEF CommitCheck
<1>3. CASE fault \/ closed
  <2>1. /\ mutex' = None
        /\ \E o \in Outcomes : Conclude(t, o)
    BY <1>3 DEF CommitCheck, Outcomes
  <2>2. Framed(t)
    BY <1>1, <1>2, <2>1, UnlockState DEF ControlInv, TypeOK, SharedTypeOK, Framed
  <2> QED
    BY <1>1, <1>2, <2>1, <2>2, UnlockState, ConcludeFrame
<1>4. CASE ~(fault \/ closed)
  <2>1. Goto(t, "push") /\ mutex' = mutex
    BY <1>4 DEF CommitCheck
  <2>2. Framed(t)
    BY <1>2, <2>1 DEF ControlInv, TypeOK, SharedTypeOK, Framed
  <2>3. "push" \in Labels
    BY DEF Labels
  <2> QED
    BY <1>1, <1>2, <2>1, <2>2, <2>3, GotoFrame
<1> QED
  BY <1>3, <1>4
LEMMA CommitPushControl ==
    ASSUME ControlInv, NEW t \in Threads, CommitPush(t)
    PROVE  ControlInv'
<1> DEFINE i == at[t]
           len == Size[scan[t].payload]
<1>1. /\ pc[t] = "push" /\ pc[t] \in InState /\ mutex = t /\ i # None
      /\ held[t] # None /\ scan[t].payload # None
  BY OwnsNothing DEF CommitPush, At, InState, InSlot, Encoded, ControlInv, ControlMatch
<1>2. /\ i \in SlotIds /\ len \in Nat /\ held[t] \in Buffer
  BY <1>1, QueueAssumption DEF ControlInv, TypeOK, LocalsTypeOK, Scan
<1>3. /\ mutex' = None
      /\ UNCHANGED <<owner, poisoned, closed, rejected, leased, probe, leases,
                     panicked>>
  BY DEF CommitPush
<1>4. CanEnqueue(order) => Enqueue(order) \in [head : Nat, next : 0 .. U64Max]
  BY U64Assumption DEF CanEnqueue, Enqueue, ControlInv, TypeOK, SharedTypeOK
<1>5. CASE /\ ~CanEnqueue(order)
           /\ Conclude(t, "Exhausted")
           /\ UNCHANGED <<cell, ready, order, fault>>
  <2>1. Framed(t)
    BY <1>1, <1>3, <1>5, UnlockState DEF ControlInv, TypeOK, SharedTypeOK, Framed
  <2> QED
    BY <1>1, <1>3, <1>5, <2>1, UnlockState, ConcludeFrame DEF Outcomes
<1>6. CASE /\ CanEnqueue(order)
           /\ order' = Enqueue(order)
           /\ fault' = TRUE
           /\ Conclude(t, "Poisoned")
           /\ UNCHANGED <<cell, ready>>
  <2>1. Framed(t)
    BY <1>1, <1>3, <1>4, <1>6, UnlockState DEF ControlInv, TypeOK, SharedTypeOK, Framed
  <2> QED
    BY <1>1, <1>3, <1>6, <2>1, UnlockState, ConcludeFrame DEF Outcomes
<1>7. CASE /\ CanEnqueue(order)
           /\ cell' = [cell EXCEPT ![i] = PublishSlot(held[t], len)]
           /\ ready' = Append(ready, [slot |-> i, ticket |-> order.next])
           /\ order' = Enqueue(order)
           /\ Leave(t, None, "Accepted")
           /\ UNCHANGED fault
  <2>1. cell' \in [SlotIds -> Buffer \union {None}]
    BY <1>2, <1>7, BufferTypes DEF ControlInv, TypeOK, SharedTypeOK
  <2>2. [slot |-> i, ticket |-> order.next] \in [slot : SlotIds, ticket : Nat]
    BY <1>2, U64Assumption DEF ControlInv, TypeOK, SharedTypeOK
  <2>3. ready' \in Seq([slot : SlotIds, ticket : Nat])
    BY <1>7, <2>2 DEF ControlInv, TypeOK, SharedTypeOK
  <2>4. Framed(t)
    BY <1>1, <1>3, <1>4, <1>7, <2>1, <2>3, UnlockState
    DEF ControlInv, TypeOK, SharedTypeOK, Framed
  <2> QED
    BY <1>1, <1>3, <1>7, <2>4, UnlockState, LeaveFrame DEF Outcomes
<1> QED
  BY <1>5, <1>6, <1>7 DEF CommitPush

LEMMA LeaveSlotControl ==
    ASSUME ControlInv, NEW t \in Threads, LeaveSlot(t)
    PROVE  ControlInv'
<1>1. mutex # t /\ at[t] # None
  BY OwnsNothing DEF LeaveSlot, At, InState, InSlot, ControlInv, ControlMatch
<1>2. /\ owner' = [owner EXCEPT ![at[t]] = None]
      /\ UNCHANGED <<poisoned, mutex, ready, order, closed, rejected, leased,
                     probe, leases, panicked>>
      /\ Finish(t, result[t])
      /\ fault' \in {fault, TRUE}
  BY DEF LeaveSlot
<1>3. cell' \in [SlotIds -> Buffer \union {None}]
  <2>1. CASE held[t] = None
    BY <2>1 DEF LeaveSlot, ControlInv, TypeOK, SharedTypeOK
  <2>2. CASE held[t] # None /\ CanCancel(held[t])
    BY <1>1, <2>2, RestoredType DEF LeaveSlot
  <2>3. CASE held[t] # None /\ ~CanCancel(held[t])
    BY <2>3 DEF LeaveSlot, ControlInv, TypeOK, SharedTypeOK, LocalsTypeOK
  <2> QED
    BY <2>1, <2>2, <2>3
<1>4. Framed(t) /\ \A j \in SlotIds : owner'[j] # t
  BY <1>1, <1>2, <1>3, UnlockSlot DEF ControlInv, TypeOK, SharedTypeOK, Framed
<1>5. result[t] \in Outcomes \union {None}
  BY DEF ControlInv, TypeOK, LocalsTypeOK
<1> QED
  BY <1>1, <1>2, <1>4, <1>5, FinishFrame

-----------------------------------------------------------------------------
(* The same for try_dequeue, ... *)

LEMMA BeginOperation ==
    ASSUME ControlInv, NEW t \in Threads, pc[t] = "idle",
           NEW l \in {"dequeue", "shutdown", "count"}, Begin(t, l), UNCHANGED shared
    PROVE  ControlInv'
BY OwnsNothing, UnchangedFramed, BeginFrame DEF InSlot, InState, Refusing, shared

LEMMA DequeueBeginControl ==
    ASSUME ControlInv, NEW t \in Threads, DequeueBegin(t)
    PROVE  ControlInv'
<1>1. pc[t] = "idle" /\ UNCHANGED shared
  BY DEF DequeueBegin, At
<1>2. CASE Finish(t, "Poisoned")
  <2>1. mutex' # t /\ \A i \in SlotIds : owner'[i] # t
    BY <1>1, OwnsNothing DEF InSlot, InState, Refusing, shared
  <2> QED
    BY <1>1, <1>2, <2>1, UnchangedFramed, FinishFrame DEF Outcomes
<1>3. CASE Begin(t, "dequeue")
  BY <1>1, <1>3, BeginOperation
<1> QED
  BY <1>2, <1>3 DEF DequeueBegin

LEMMA DequeueFrontControl ==
    ASSUME ControlInv, NEW t \in Threads, DequeueFront(t)
    PROVE  ControlInv'
<1> DEFINE i == Head(ready).slot
<1>1. /\ pc[t] = "front" /\ pc[t] \in InState /\ mutex = t
      /\ at[t] = None /\ \A j \in SlotIds : owner[j] # t
      /\ held[t] = None /\ lease[t] = None
  <2>1. pc[t] = "front"
    BY DEF DequeueFront, At
  <2>2. pc[t] \in InState /\ at[t] = None /\ \A j \in SlotIds : owner[j] # t
    BY <2>1, OwnsNothing DEF InState, InSlot, Refusing
  <2>3. mutex = t
    BY <2>2, OwnsNothing
  <2> QED
    BY <2>1, <2>2, <2>3 DEF ControlInv, ControlMatch, Dropping
<1>2. UNCHANGED <<cell, poisoned, ready, order, closed, rejected, leased,
                  probe, leases, panicked>>
  BY DEF DequeueFront
<1>3. CASE /\ \E o \in {"Empty", "Contended", "Poisoned"} : Finish(t, o)
           /\ mutex' = None
           /\ UNCHANGED owner
           /\ fault' \in {fault, TRUE}
  <2>1. Framed(t)
    BY <1>1, <1>2, <1>3, UnlockState DEF ControlInv, TypeOK, SharedTypeOK, Framed
  <2>2. {"Empty", "Contended", "Poisoned"} \subseteq Outcomes
    BY DEF Outcomes
  <2> QED
    BY <1>1, <1>3, <2>1, <2>2, UnlockState, FinishFrame
<1>4. CASE /\ ready # <<>>
           /\ owner[i] = None
           /\ owner' = [owner EXCEPT ![i] = t]
           /\ pc' = [pc EXCEPT ![t] = "take"]
           /\ at' = [at EXCEPT ![t] = i]
           /\ UNCHANGED <<mutex, fault, scan, held, lease, result>>
  <2>1. i \in SlotIds
    BY <1>4, ReadyHead DEF ControlInv, TypeOK
  <2>2. at'[t] = Head(ready').slot /\ ready' # <<>>
    BY <1>2, <1>4 DEF ControlInv, TypeOK, LocalsTypeOK
  <2> HIDE DEF i
  <2>3. /\ LocalsMove(t) /\ pc'[t] = "take" /\ at'[t] = i
        /\ scan'[t] = scan[t] /\ held'[t] = None /\ lease'[t] = None
    BY <1>1, <1>4, <2>1 DEF ControlInv, TypeOK, LocalsTypeOK, LocalsMove, Labels
  <2>4. Framed(t) /\ \A j \in SlotIds : owner'[j] = t <=> j = i
    BY <1>1, <1>2, <1>4, <2>1, NoneDistinct
    DEF ControlInv, TypeOK, SharedTypeOK, Framed
  <2>5. ControlMatch(t)'
    BY <1>1, <1>4, <2>1, <2>2, <2>3, <2>4, NoneDistinct
    DEF ControlMatch, InState, InSlot, Encoded, Refusing, Dropping
  <2> QED
    BY <2>3, <2>4, <2>5, Frame DEF Framed
<1> QED
  BY <1>3, <1>4 DEF DequeueFront
LEMMA DequeueTakeControl ==
    ASSUME ControlInv, NEW t \in Threads, DequeueTake(t)
    PROVE  ControlInv'
<1> DEFINE i == at[t]
           ticket == Head(ready).ticket
           whole == leased < Slots /\ cell[i] # None
           grants == CanDequeue(order, ticket) /\ CanLease(cell[i])
<1>1. /\ pc[t] = "take" /\ pc[t] \in InState /\ mutex = t /\ i # None
      /\ ready # <<>> /\ lease[t] = None
  <2>1. pc[t] = "take" /\ pc[t] \in InState
    BY DEF DequeueTake, At, InState
  <2> QED
    BY <2>1, OwnsNothing DEF InSlot, Dropping, ControlInv, ControlMatch
<1>2. i \in SlotIds
  BY <1>1, OwnsItsSlot
<1>3. /\ owner' = [owner EXCEPT ![i] = None]
      /\ UNCHANGED <<poisoned, mutex, closed, rejected, probe, panicked>>
  BY DEF DequeueTake
<1>4. "handover" \in Labels \ (InSlot \union Dropping) /\ "handover" \in InState
  BY DEF Labels, InState, InSlot, Dropping
<1>5. CanDequeue(order, ticket) =>
        Dequeue(order) \in [head : Nat, next : 0 .. U64Max]
  BY DEF CanDequeue, Dequeue, ControlInv, TypeOK, SharedTypeOK
<1>6. /\ cell' \in [SlotIds -> Buffer \union {None}]
      /\ order' \in [head : Nat, next : 0 .. U64Max]
      /\ ready' \in Seq([slot : SlotIds, ticket : Nat])
      /\ leased' \in 0 .. Slots
      /\ leases' \subseteq Lease
      /\ fault' \in BOOLEAN
      /\ \E o \in {"Leased", "Poisoned"} : Enter(t, "handover", NoScan, None, o)
  <2>1. CASE /\ whole /\ grants
             /\ leases' = leases \union
                  {[slot |-> i, ticket |-> ticket, buffer |-> LeaseSlot(cell[i])]}
             /\ cell' = [cell EXCEPT ![i] = None]
             /\ order' = Dequeue(order)
             /\ ready' = Tail(ready)
             /\ leased' = leased + 1
             /\ Enter(t, "handover", NoScan, None, "Leased")
             /\ UNCHANGED fault
    <3>1. cell[i] \in Buffer /\ ticket \in Nat
      BY <1>1, <1>2, <2>1, ReadyHead DEF ControlInv, TypeOK, SharedTypeOK
    <3>2. [slot |-> i, ticket |-> ticket, buffer |-> LeaseSlot(cell[i])] \in Lease
      BY <1>2, <3>1, BufferTypes DEF Lease
    <3>3. leases' \subseteq Lease
      BY <2>1, <3>2 DEF ControlInv, TypeOK, SharedTypeOK
    <3>4. ready' \in Seq([slot : SlotIds, ticket : Nat])
      BY <1>1, <2>1, ReadyHead DEF ControlInv, TypeOK
    <3>5. leased' \in 0 .. Slots
      BY <2>1, QueueAssumption DEF ControlInv, TypeOK, SharedTypeOK
    <3>6. cell' \in [SlotIds -> Buffer \union {None}] /\ fault' \in BOOLEAN
      BY <2>1 DEF ControlInv, TypeOK, SharedTypeOK
    <3>7. order' \in [head : Nat, next : 0 .. U64Max]
      BY <1>5, <2>1
    <3>8. Enter(t, "handover", NoScan, None, "Leased")
      BY <2>1
    <3> QED
      BY <3>3, <3>4, <3>5, <3>6, <3>7, <3>8
  <2>2. CASE /\ cell' = [cell EXCEPT ![i] = None]
             /\ order' = IF CanDequeue(order, ticket) THEN Dequeue(order) ELSE order
             /\ fault' = TRUE
             /\ Enter(t, "handover", NoScan, None, "Poisoned")
             /\ UNCHANGED <<leases, ready, leased>>
    BY <1>5, <2>2 DEF ControlInv, TypeOK, SharedTypeOK
  <2>3. CASE /\ fault' = TRUE
             /\ Enter(t, "handover", NoScan, None, "Poisoned")
             /\ UNCHANGED <<leases, cell, order, ready, leased>>
    BY <2>3 DEF ControlInv, TypeOK, SharedTypeOK
  <2> QED
    BY <2>1, <2>2, <2>3 DEF DequeueTake
<1>7. Framed(t) /\ \A j \in SlotIds : owner'[j] # t
  BY <1>1, <1>3, <1>6, UnlockSlot DEF ControlInv, TypeOK, SharedTypeOK, Framed
<1>8. {"Leased", "Poisoned"} \subseteq Outcomes /\ NoScan \in Scan
  BY NoScanType DEF Outcomes
<1> QED
  BY <1>1, <1>3, <1>4, <1>6, <1>7, <1>8, EnterFrame

LEMMA DequeueReturnControl ==
    ASSUME ControlInv, NEW t \in Threads, DequeueReturn(t)
    PROVE  ControlInv'
<1>1. pc[t] = "handover" /\ pc[t] \in InState
  BY DEF DequeueReturn, At, InState
<1>2. at[t] = None /\ \A i \in SlotIds : owner[i] # t
  BY <1>1, OwnsNothing DEF InSlot, Refusing
<1>3. /\ mutex' = None
      /\ Finish(t, result[t])
      /\ UNCHANGED <<cell, owner, poisoned, ready, order, closed, rejected,
                     leased, fault, probe, leases, panicked>>
  BY DEF DequeueReturn
<1>4. Framed(t)
  BY <1>1, <1>3, UnlockState DEF ControlInv, TypeOK, SharedTypeOK, Framed
<1>5. result[t] \in Outcomes \union {None}
  BY DEF ControlInv, TypeOK, LocalsTypeOK
<1> QED
  BY <1>1, <1>2, <1>3, <1>4, <1>5, UnlockState, FinishFrame

-----------------------------------------------------------------------------
(* ... for Lease::drop, ... *)

LEMMA DropBeginControl ==
    ASSUME ControlInv, NEW t \in Threads, NEW dropped \in leases,
           DropBegin(t, dropped)
    PROVE  ControlInv'
<1>1. /\ pc[t] = "idle" /\ mutex # t /\ \A i \in SlotIds : owner[i] # t
  BY OwnsNothing DEF DropBegin, At, InState, InSlot, Refusing
<1>2. /\ leases' = leases \ {dropped}
      /\ Enter(t, "dropSlot", NoScan, dropped, None)
      /\ UNCHANGED <<cell, owner, poisoned, mutex, ready, order, closed,
                     rejected, leased, fault, probe, panicked>>
  BY DEF DropBegin
<1>3. Framed(t) /\ dropped \in Lease
  BY <1>2 DEF ControlInv, TypeOK, SharedTypeOK, Framed
<1>4. /\ "dropSlot" \in Labels \ (InState \union InSlot)
      /\ "dropSlot" \in Dropping
      /\ NoScan \in Scan
  BY NoScanType DEF Labels, InState, InSlot, Dropping
<1> QED
  BY <1>1, <1>2, <1>3, <1>4, NoneDistinct, EnterFrame

LEMMA DropLockSlotControl ==
    ASSUME ControlInv, NEW t \in Threads, DropLockSlot(t)
    PROVE  ControlInv'
<1> DEFINE i == lease[t].slot
<1>1. /\ pc[t] = "dropSlot" /\ mutex # t /\ at[t] = None
      /\ \A j \in SlotIds : owner[j] # t
      /\ held[t] = None /\ lease[t] # None
  BY OwnsNothing
  DEF DropLockSlot, At, InState, InSlot, Refusing, Dropping, ControlInv, ControlMatch
<1>2. i \in SlotIds
  BY <1>1 DEF ControlInv, TypeOK, LocalsTypeOK, Lease
<1>3. /\ owner[i] = None
      /\ owner' = [owner EXCEPT ![i] = t]
      /\ pc' = [pc EXCEPT ![t] = "dropState"]
      /\ at' = [at EXCEPT ![t] = i]
      /\ UNCHANGED <<scan, held, lease, result>>
      /\ UNCHANGED <<cell, poisoned, mutex, ready, order, closed, rejected,
                     leased, fault, probe, leases, panicked>>
  BY DEF DropLockSlot
<1> HIDE DEF i
<1>4. /\ LocalsMove(t) /\ pc'[t] = "dropState" /\ at'[t] = i
      /\ held'[t] = held[t] /\ scan'[t] = scan[t] /\ lease'[t] = lease[t]
  BY <1>2, <1>3 DEF ControlInv, TypeOK, LocalsTypeOK, LocalsMove, Labels
<1>5. Framed(t) /\ \A j \in SlotIds : owner'[j] = t <=> j = i
  BY <1>1, <1>2, <1>3, NoneDistinct DEF ControlInv, TypeOK, SharedTypeOK, Framed
<1>6. ControlMatch(t)'
  BY <1>1, <1>2, <1>3, <1>4, <1>5, NoneDistinct
  DEF i, ControlMatch, InState, InSlot, Encoded, Refusing, Dropping
<1> QED
  BY <1>4, <1>5, <1>6, Frame DEF Framed

LEMMA DropLockStateControl ==
    ASSUME ControlInv, NEW t \in Threads, DropLockState(t)
    PROVE  ControlInv'
<1>1. /\ pc[t] = "dropState" /\ mutex = None /\ mutex' = t
      /\ Goto(t, "dropFinish")
      /\ UNCHANGED <<cell, owner, poisoned, ready, order, closed, rejected,
                     leased, fault, probe, leases, panicked>>
  BY DEF DropLockState, At
<1>2. Framed(t)
  BY <1>1, NoneDistinct DEF ControlInv, TypeOK, SharedTypeOK, Framed
<1>3. "dropFinish" \in Labels
  BY DEF Labels
<1> QED
  BY <1>1, <1>2, <1>3, GotoFrame

LEMMA DropFinishControl ==
    ASSUME ControlInv, NEW t \in Threads, DropFinish(t)
    PROVE  ControlInv'
<1> DEFINE i == at[t]
           buffer == lease[t].buffer
<1>1. pc[t] = "dropFinish" /\ pc[t] \in InState /\ i # None /\ lease[t] # None
  BY DEF DropFinish, At, InState, InSlot, Dropping, ControlInv, ControlMatch
<1>2. buffer \in Buffer
  BY <1>1 DEF ControlInv, TypeOK, LocalsTypeOK, Lease
<1>3. /\ mutex' = None
      /\ Leave(t, None, "Done")
      /\ UNCHANGED <<owner, poisoned, ready, order, closed, rejected, probe,
                     leases, panicked>>
      /\ fault' \in {fault, TRUE}
  BY DEF DropFinish
<1>4. cell' \in [SlotIds -> Buffer \union {None}] /\ leased' \in 0 .. Slots
  <2>1. CASE UNCHANGED <<cell, leased>>
    BY <2>1 DEF ControlInv, TypeOK, SharedTypeOK
  <2>2. CASE /\ leased # 0 /\ leased' = leased - 1
             /\ cell' = [cell EXCEPT ![i] = ReleaseSlot(buffer)]
    <3>1. ReleaseSlot(buffer) \in Buffer
      BY <1>2, BufferTypes
    <3>2. leased' \in 0 .. Slots
      BY <2>2, QueueAssumption DEF ControlInv, TypeOK, SharedTypeOK
    <3>3. cell' \in [SlotIds -> Buffer \union {None}]
      BY <2>2, <3>1 DEF ControlInv, TypeOK, SharedTypeOK
    <3> QED
      BY <3>2, <3>3
  <2> QED
    BY <2>1, <2>2 DEF DropFinish
<1>5. Framed(t)
  BY <1>1, <1>3, <1>4, UnlockState DEF ControlInv, TypeOK, SharedTypeOK, Framed
<1> QED
  BY <1>1, <1>3, <1>5, UnlockState, LeaveFrame DEF Outcomes

-----------------------------------------------------------------------------
(* ... and for shutdown and rejected. *)

LEMMA ShutdownCloseControl ==
    ASSUME ControlInv, NEW t \in Threads, ShutdownClose(t)
    PROVE  ControlInv'
<1>1. pc[t] = "close" /\ pc[t] \in InState
  BY DEF ShutdownClose, At, InState
<1>2. at[t] = None /\ \A i \in SlotIds : owner[i] # t
  BY <1>1, OwnsNothing DEF InSlot, Refusing
<1>3. /\ mutex' = None
      /\ closed' \in {closed, TRUE}
      /\ \E o \in {"Poisoned", "Done"} : Finish(t, o)
      /\ UNCHANGED <<cell, owner, poisoned, ready, order, rejected, leased,
                     fault, probe, leases, panicked>>
  BY DEF ShutdownClose
<1>4. Framed(t)
  BY <1>1, <1>3, UnlockState DEF ControlInv, TypeOK, SharedTypeOK, Framed
<1>5. {"Poisoned", "Done"} \subseteq Outcomes
  BY DEF Outcomes
<1> QED
  BY <1>1, <1>2, <1>3, <1>4, <1>5, UnlockState, FinishFrame

LEMMA CountLockControl ==
    ASSUME ControlInv, NEW t \in Threads, CountLock(t)
    PROVE  ControlInv'
<1>1. /\ pc[t] = "count" /\ mutex = None /\ mutex' = t
      /\ Goto(t, "countRead")
      /\ UNCHANGED <<cell, owner, poisoned, ready, order, closed, rejected,
                     leased, fault, probe, leases, panicked>>
  BY DEF CountLock, At
<1>2. Framed(t)
  BY <1>1, NoneDistinct DEF ControlInv, TypeOK, SharedTypeOK, Framed
<1>3. "countRead" \in Labels
  BY DEF Labels
<1> QED
  BY <1>1, <1>2, <1>3, GotoFrame

LEMMA CountReadControl ==
    ASSUME ControlInv, NEW t \in Threads, CountRead(t)
    PROVE  ControlInv'
<1>1. pc[t] = "countRead" /\ pc[t] \in InState
  BY DEF CountRead, At, InState
<1>2. at[t] = None /\ \A i \in SlotIds : owner[i] # t
  BY <1>1, OwnsNothing DEF InSlot, Refusing
<1>3. /\ mutex' = None
      /\ \E o \in {"Poisoned", "Done"} : Finish(t, o)
      /\ UNCHANGED <<cell, owner, poisoned, ready, order, closed, rejected,
                     leased, fault, probe, leases, panicked>>
  BY DEF CountRead
<1>4. Framed(t)
  BY <1>1, <1>3, UnlockState DEF ControlInv, TypeOK, SharedTypeOK, Framed
<1>5. {"Poisoned", "Done"} \subseteq Outcomes
  BY DEF Outcomes
<1> QED
  BY <1>1, <1>2, <1>3, <1>4, <1>5, UnlockState, FinishFrame

-----------------------------------------------------------------------------
LEMMA StepControl ==
    ASSUME ControlInv, NEW t \in Threads, Step(t)
    PROVE  ControlInv'
<1>1. CASE RejectLock(t)
  BY <1>1, TryStateFrame DEF RejectLock
<1>2. CASE CommitLock(t)
  BY <1>2, TryStateFrame DEF CommitLock
<1>3. CASE DequeueLock(t)
  BY <1>3, TryStateFrame DEF DequeueLock
<1>4. CASE ShutdownLock(t)
  BY <1>4, TryStateFrame DEF ShutdownLock
<1>5. CASE Record(t)
  BY <1>1, <1>2, <1>5, ProbeSlotControl, InspectSlotControl, EncodeControl,
     PanicRestoreControl, PanicUnlockControl, RejectDecideControl,
     CommitCheckControl, CommitPushControl DEF Record
<1>6. CASE TryDequeue(t)
  BY <1>3, <1>6, DequeueFrontControl, DequeueTakeControl, DequeueReturnControl
  DEF TryDequeue
<1>7. CASE DropLease(t)
  BY <1>7, DropLockSlotControl, DropLockStateControl, DropFinishControl DEF DropLease
<1>8. CASE Control(t)
  BY <1>4, <1>8, ShutdownCloseControl, CountLockControl, CountReadControl DEF Control
<1>9. CASE LeaveSlot(t)
  BY <1>9, LeaveSlotControl
<1> QED
  BY <1>5, <1>6, <1>7, <1>8, <1>9 DEF Step

LEMMA CallControl == ControlInv /\ Call => ControlInv'
<1> SUFFICES ASSUME ControlInv, Call PROVE ControlInv'
  OBVIOUS
<1>1. ASSUME NEW t \in Recorders, NEW payload \in Payloads, RecordBegin(t, payload)
      PROVE  ControlInv'
  BY <1>1, RecordBeginControl
<1>2. ASSUME NEW t \in Drainers, DequeueBegin(t) PROVE ControlInv'
  BY <1>2, DequeueBeginControl
<1>3. ASSUME NEW t \in Drainers, NEW dropped \in leases, DropBegin(t, dropped)
      PROVE  ControlInv'
  BY <1>3, DropBeginControl
<1>4. ASSUME NEW t \in Controllers, ShutdownBegin(t) PROVE ControlInv'
  BY <1>4, BeginOperation DEF ShutdownBegin, At
<1>5. ASSUME NEW t \in Controllers, CountBegin(t) PROVE ControlInv'
  BY <1>5, BeginOperation DEF CountBegin, At
<1> QED
  BY <1>1, <1>2, <1>3, <1>4, <1>5 DEF Call

LEMMA StutterControl == ControlInv /\ UNCHANGED vars => ControlInv'
BY DEF ControlInv, TypeOK, SharedTypeOK, LocalsTypeOK, ControlMatch, vars, shared, locals

LEMMA NextControl == ControlInv /\ [Next]_vars => ControlInv'
BY StepControl, CallControl, StutterControl DEF Next

(* Every thread holds the mutexes its control point says it holds, and the *)
(* values those mutexes guard keep their types, in every interleaving.     *)
THEOREM ControlSafe == Spec => []ControlInv
BY InitControl, NextControl, PTL DEF Spec

(* TypeOK: tickets and the refusal counter never pass U64Max, and no more  *)
(* than Slots leases are counted.                                          *)
THEOREM TypeCorrect == Spec => []TypeOK
<1>1. ControlInv => TypeOK
  BY DEF ControlInv
<1> QED
  BY <1>1, ControlSafe, PTL

(* HoldersNeverDeadlock: whoever holds the state mutex is at a point of    *)
(* InState and whoever owns a slot's mutex at one of InSlot or Refusing;   *)
(* the points that wait for the mutex held are in neither.                 *)
THEOREM NoDeadlock == Spec => []HoldersNeverDeadlock
<1>1. ControlInv => HoldersNeverDeadlock
  <2> SUFFICES ASSUME ControlInv PROVE HoldersNeverDeadlock
    OBVIOUS
  <2>1. ASSUME mutex # None
        PROVE  pc[mutex] \notin {"dropSlot", "dropState", "count"}
    <3>1. mutex \in Threads
      BY <2>1 DEF ControlInv, TypeOK, SharedTypeOK
    <3> QED
      BY <3>1 DEF ControlInv, ControlMatch, InState
  <2>2. ASSUME NEW i \in SlotIds, owner[i] # None
        PROVE  pc[owner[i]] \notin {"dropSlot", "count"}
    <3>1. owner[i] \in Threads
      BY <2>2 DEF ControlInv, TypeOK, SharedTypeOK
    <3>2. at[owner[i]] = i
      BY <3>1 DEF ControlInv, ControlMatch
    <3>3. at[owner[i]] # None
      BY <3>2, NoneDistinct
    <3> QED
      BY <3>1, <3>3 DEF ControlInv, ControlMatch, InSlot, Refusing
  <2> QED
    BY <2>1, <2>2 DEF HoldersNeverDeadlock
<1> QED
  BY <1>1, ControlSafe, PTL

-----------------------------------------------------------------------------
(* The moves of buffers.  Every action is one of them or leaves buffers,   *)
(* entries and leases where they are; which of them is what the actions'   *)
(* lemmas say, and what they preserve is shown once for each.              *)

Others(t) ==
    \A u \in Threads \ {t} :
      /\ pc'[u] = pc[u] /\ at'[u] = at[u] /\ scan'[u] = scan[u]
      /\ held'[u] = held[u] /\ lease'[u] = lease[u]

Quiet(t) ==
    /\ Others(t)
    /\ UNCHANGED <<cell, ready, order, leased, leases>>
    /\ lease'[t] = lease[t]
    /\ held'[t] = None <=> held[t] = None
    /\ held[t] # None => held'[t].phase = held[t].phase /\ at'[t] = at[t]

Reserving(t) ==
    /\ Others(t)
    /\ UNCHANGED <<ready, order, leased, leases, closed>>
    /\ at'[t] = at[t] /\ lease'[t] = lease[t] /\ held[t] = None
    /\ cell[at[t]] # None /\ CanReserve(cell[at[t]])
    /\ cell' = [cell EXCEPT ![at[t]] = None]
    /\ held'[t] = ReserveSlot(cell[at[t]])

Restoring(t) ==
    /\ Others(t)
    /\ UNCHANGED <<ready, order, leased, leases, closed>>
    /\ lease'[t] = lease[t] /\ held[t] # None /\ held'[t] = None
    /\ cell' = Restored(t)

Publishing(t) ==
    /\ Others(t)
    /\ UNCHANGED <<leased, leases, closed>>
    /\ lease'[t] = lease[t] /\ held[t] # None /\ held'[t] = None
    /\ ~closed /\ CanEnqueue(order) /\ held[t].bytes \in Payloads
    /\ cell' = [cell EXCEPT ![at[t]] = PublishSlot(held[t], Size[held[t].bytes])]
    /\ ready' = Append(ready, [slot |-> at[t], ticket |-> order.next])
    /\ order' = Enqueue(order)

Taken(t) ==
    [slot |-> at[t], ticket |-> Head(ready).ticket, buffer |-> LeaseSlot(cell[at[t]])]

Leasing(t) ==
    /\ Others(t)
    /\ closed' = closed
    /\ held[t] = None /\ held'[t] = None /\ lease[t] = None /\ lease'[t] = None
    /\ ready # <<>> /\ at[t] = Head(ready).slot
    /\ leases' = leases \union {Taken(t)}
    /\ cell' = [cell EXCEPT ![at[t]] = None]
    /\ order' = Dequeue(order)
    /\ ready' = Tail(ready)
    /\ leased' = leased + 1

LettingGo(t, dropped) ==
    /\ Others(t)
    /\ UNCHANGED <<cell, ready, order, leased, closed>>
    /\ held[t] = None /\ held'[t] = None /\ lease[t] = None
    /\ dropped \in leases /\ lease'[t] = dropped
    /\ leases' = leases \ {dropped}

Releasing(t) ==
    /\ Others(t)
    /\ UNCHANGED <<ready, order, leases, closed>>
    /\ held[t] = None /\ held'[t] = None /\ lease[t] # None /\ lease'[t] = None
    /\ cell' = [cell EXCEPT ![lease[t].slot] = ReleaseSlot(lease[t].buffer)]
    /\ leased' = leased - 1

-----------------------------------------------------------------------------
(* What is inductive: QueueInOrder with the entries' slots and the leases' *)
(* tickets distinct, and what the control points know of the record.       *)

PlacesDistinct ==
    /\ \A i \in SlotIds :
         /\ i \in LentSlots => cell[i] = None
         /\ cell[i] = None => i \in LentSlots \/ \E t \in Threads : Reserves(t, i)
         /\ \A t \in Threads : Reserves(t, i) => cell[i] = None /\ i \notin LentSlots
    /\ \A j, k \in DOMAIN ready : ready[j].slot = ready[k].slot => j = k
    /\ \A one, two \in LiveLeases : one.ticket = two.ticket => one = two
    /\ leased = Cardinality(LentSlots)

BuffersInv == PlacesDistinct /\ LeasesUnique /\ PhasesAgree /\ TicketsContiguous

RecordKnown(t) ==
    /\ pc[t] \in {"commit", "check", "push"} =>
         /\ held[t].bytes = scan[t].payload
         /\ Size[scan[t].payload] <= MaxRecord
    /\ pc[t] = "push" => ~closed
    /\ pc[t] = "unwind" => panicked

PoisonInv ==
    /\ fault => panicked
    /\ \A i \in SlotIds : poisoned[i] => panicked
    /\ \A t \in Threads : RecordKnown(t)

QueueInv == ControlInv /\ BuffersInv /\ PoisonInv

-----------------------------------------------------------------------------
(* Types of what the invariant speaks of. *)
LEMMA Typed ==
    ASSUME ControlInv
    PROVE  /\ cell \in [SlotIds -> Buffer \union {None}]
           /\ held \in [Threads -> Buffer \union {None}]
           /\ at \in [Threads -> SlotIds \union {None}]
           /\ lease \in [Threads -> Lease \union {None}]
           /\ LiveLeases \subseteq Lease
           /\ LentSlots \subseteq SlotIds
           /\ ready \in Seq([slot : SlotIds, ticket : Nat])
           /\ DOMAIN ready = 1 .. Len(ready) /\ Len(ready) \in Nat
           /\ \A k \in DOMAIN ready : ready[k].slot \in SlotIds /\ ready[k].ticket \in Nat
           /\ ReadySlots \subseteq SlotIds
           /\ order \in [head : Nat, next : Nat]
<1>1. /\ cell \in [SlotIds -> Buffer \union {None}]
      /\ held \in [Threads -> Buffer \union {None}]
      /\ at \in [Threads -> SlotIds \union {None}]
      /\ lease \in [Threads -> Lease \union {None}]
      /\ leases \subseteq Lease
      /\ ready \in Seq([slot : SlotIds, ticket : Nat])
  BY DEF ControlInv, TypeOK, SharedTypeOK, LocalsTypeOK
<1>2. LiveLeases \subseteq Lease
  BY <1>1 DEF LiveLeases
<1>3. LentSlots \subseteq SlotIds
  BY <1>2 DEF LentSlots, Lease
<1>4. DOMAIN ready = 1 .. Len(ready) /\ Len(ready) \in Nat
  BY <1>1
<1>5. \A k \in DOMAIN ready : ready[k] \in [slot : SlotIds, ticket : Nat]
  BY <1>1, <1>4, ElementOfSeq
<1>6. ReadySlots \subseteq SlotIds
  BY <1>5 DEF ReadySlots
<1>7. order \in [head : Nat, next : Nat]
  BY U64Assumption DEF ControlInv, TypeOK, SharedTypeOK
<1> QED
  BY <1>1, <1>2, <1>3, <1>4, <1>5, <1>6, <1>7

(* A reservation is of a slot, in no other thread's hands. *)
LEMMA ReservesOne ==
    ASSUME ControlInv, NEW t \in Threads, held[t] # None
    PROVE  /\ at[t] \in SlotIds /\ held[t] \in Buffer /\ lease[t] = None
           /\ Reserves(t, at[t])
           /\ \A u \in Threads : at[u] = at[t] => u = t
<1>1. at[t] # None /\ pc[t] \in Encoded \union Refusing \union {"leave"}
  BY DEF ControlInv, ControlMatch
<1>2. at[t] \in SlotIds /\ held[t] \in Buffer
  BY <1>1, Typed
<1>3. \A u \in Threads : at[u] = at[t] => u = t
  BY <1>2 DEF ControlInv, ControlMatch
<1>4. lease[t] = None
  BY <1>1 DEF ControlInv, ControlMatch, Encoded, Refusing, Dropping
<1> QED
  BY <1>1, <1>2, <1>3, <1>4 DEF Reserves

LEMMA LentFinite ==
    ASSUME ControlInv
    PROVE  /\ IsFiniteSet(SlotIds) /\ Cardinality(SlotIds) = Slots
           /\ IsFiniteSet(LentSlots) /\ IsFiniteSet(ReadySlots)
           /\ Cardinality(LentSlots) \in Nat /\ Cardinality(ReadySlots) \in Nat
<1>1. IsFiniteSet(SlotIds) /\ Cardinality(SlotIds) = Slots
  BY FS_Interval, QueueAssumption DEF SlotIds
<1>2. LentSlots \in SUBSET SlotIds /\ ReadySlots \in SUBSET SlotIds
  BY Typed
<1> QED
  BY <1>1, <1>2, FS_Subset, FS_CardinalityType

(* The initial state. *)
LEMMA InitQueue == Init => QueueInv
<1> SUFFICES ASSUME Init PROVE QueueInv
  OBVIOUS
<1>1. ControlInv
  BY InitControl
<1>2. LiveLeases = {} /\ LentSlots = {} /\ DOMAIN ready = {} /\ ReadySlots = {}
  BY DEF Init, LiveLeases, LentSlots, ReadySlots
<1>3. \A t \in Threads : held[t] = None /\ lease[t] = None /\ pc[t] = "idle"
  BY DEF Init
<1>4. leased = Cardinality(LentSlots)
  BY <1>2, FS_EmptySet DEF Init
<1>5. \A i \in SlotIds : cell[i] = [phase |-> "Free", len |-> 0, bytes |-> None]
  BY DEF Init
<1>6. \A i \in SlotIds : cell[i] # None /\ cell[i].phase = "Free"
  <2>1. [phase |-> "Free", len |-> 0, bytes |-> None] \in Buffer
    BY DEF Buffer, Phases
  <2> QED
    BY <1>5, <2>1, NoneDistinct
<1>7. PlacesDistinct
  BY <1>2, <1>3, <1>4, <1>6 DEF PlacesDistinct, Reserves
<1>8. LeasesUnique /\ PhasesAgree
  BY <1>2, <1>3, <1>6 DEF LeasesUnique, PhasesAgree
<1>9. TicketsContiguous
  BY <1>2 DEF Init, TicketsContiguous, EmptyFifo
<1>10. PoisonInv
  BY <1>3 DEF Init, PoisonInv, RecordKnown
<1> QED
  BY <1>1, <1>7, <1>8, <1>9, <1>10 DEF QueueInv, BuffersInv

-----------------------------------------------------------------------------
(* What each move preserves. *)

LEMMA QuietKeeps ==
    ASSUME ControlInv, BuffersInv, NEW t \in Threads, Quiet(t)
    PROVE  /\ BuffersInv'
           /\ LiveLeases' = LiveLeases
<1>1. /\ UNCHANGED <<cell, ready, order, leased, leases>>
      /\ \A u \in Threads :
           /\ lease'[u] = lease[u]
           /\ held'[u] = None <=> held[u] = None
           /\ held[u] # None => held'[u].phase = held[u].phase /\ at'[u] = at[u]
  BY DEF Quiet, Others
<1>2. LiveLeases' = LiveLeases
  BY <1>1 DEF LiveLeases
<1>3. LentSlots' = LentSlots /\ ReadySlots' = ReadySlots
  BY <1>1, <1>2 DEF LentSlots, ReadySlots
<1>4. \A u \in Threads, i \in SlotIds : Reserves(u, i)' <=> Reserves(u, i)
  BY <1>1 DEF Reserves
<1>5. PlacesDistinct'
  BY <1>1, <1>2, <1>3, <1>4 DEF BuffersInv, PlacesDistinct
<1>6. LeasesUnique' /\ TicketsContiguous'
  BY <1>1, <1>2 DEF BuffersInv, LeasesUnique, TicketsContiguous
<1>7. PhasesAgree'
  BY <1>1, <1>2, <1>3 DEF BuffersInv, PhasesAgree
<1> QED
  BY <1>2, <1>5, <1>6, <1>7 DEF BuffersInv

(* Moves of t's reservation change no lease. *)
LEMMA LeasesStay ==
    ASSUME NEW t \in Threads, Others(t), lease'[t] = lease[t], leases' = leases
    PROVE  /\ LiveLeases' = LiveLeases /\ LentSlots' = LentSlots
           /\ LeasesUnique <=> LeasesUnique'
BY DEF Others, LiveLeases, LentSlots, LeasesUnique

LEMMA ReservingKeeps ==
    ASSUME ControlInv, BuffersInv, NEW t \in Threads, Reserving(t), at[t] \in SlotIds
    PROVE  BuffersInv' /\ LiveLeases' = LiveLeases
<1> DEFINE i == at[t]
<1>0. /\ LiveLeases' = LiveLeases /\ LentSlots' = LentSlots /\ ReadySlots' = ReadySlots
      /\ LeasesUnique'
  BY LeasesStay DEF Reserving, ReadySlots, BuffersInv
<1>1. /\ cell[i] \in Buffer /\ cell[i].phase = "Free" /\ cell[i] # None
      /\ held'[t] = ReserveSlot(cell[i]) /\ at'[t] = i
      /\ held'[t] # None /\ held'[t].phase = "Reserved"
  <2>1. cell[i] \in Buffer /\ cell[i].phase = "Free"
    BY Typed DEF Reserving, CanReserve
  <2>2. held'[t] = ReserveSlot(cell[i]) /\ ReserveSlot(cell[i]) \in Buffer
    BY <2>1, BufferTypes DEF Reserving
  <2> QED
    BY <2>1, <2>2, NoneDistinct DEF Reserving, ReserveSlot, Buffer
<1>2. i \notin LentSlots /\ i \notin ReadySlots /\ \A u \in Threads : ~Reserves(u, i)
  BY <1>1 DEF BuffersInv, PlacesDistinct, PhasesAgree
<1>3. /\ cell'[i] = None
      /\ \A j \in SlotIds \ {i} : cell'[j] = cell[j]
  BY Typed DEF Reserving
<1>4. \A u \in Threads, j \in SlotIds :
        Reserves(u, j)' <=> Reserves(u, j) \/ (u = t /\ j = i)
  BY <1>1 DEF Reserving, Others, Reserves
<1>5. PlacesDistinct'
  BY <1>0, <1>2, <1>3, <1>4 DEF Reserving, BuffersInv, PlacesDistinct
<1>6. PhasesAgree'
  <2>1. \A u \in Threads : held'[u] # None => held'[u].phase = "Reserved"
    BY <1>1 DEF Reserving, Others, BuffersInv, PhasesAgree
  <2>2. \A j \in SlotIds : cell'[j] # None => cell'[j] = cell[j]
    BY <1>3
  <2>3. \A j \in ReadySlots : cell'[j] # None
    BY <1>2, <1>3, Typed DEF BuffersInv, PhasesAgree
  <2> QED
    BY <1>0, <2>1, <2>2, <2>3 DEF BuffersInv, PhasesAgree
<1>7. TicketsContiguous'
  BY <1>0 DEF Reserving, BuffersInv, TicketsContiguous
<1> QED
  BY <1>0, <1>5, <1>6, <1>7 DEF BuffersInv

(* The slot of a reservation that is given back, to the cell. *)
LEMMA CellFilled ==
    ASSUME ControlInv, BuffersInv, NEW t \in Threads, held[t] # None, Others(t),
           held'[t] = None, NEW b \in Buffer, cell' = [cell EXCEPT ![at[t]] = b]
    PROVE  /\ at[t] \in SlotIds /\ cell[at[t]] = None
           /\ at[t] \notin LentSlots /\ at[t] \notin ReadySlots
           /\ cell'[at[t]] = b /\ b # None
           /\ \A j \in SlotIds \ {at[t]} : cell'[j] = cell[j]
           /\ \A u \in Threads, j \in SlotIds :
                Reserves(u, j)' <=> Reserves(u, j) /\ u # t
           /\ \A u \in Threads, j \in SlotIds \ {at[t]} :
                Reserves(u, j) => u # t
           /\ \A u \in Threads \ {t} : ~Reserves(u, at[t])
<1>1. /\ at[t] \in SlotIds /\ Reserves(t, at[t])
      /\ \A u \in Threads : at[u] = at[t] => u = t
  BY ReservesOne
<1>2. cell[at[t]] = None /\ at[t] \notin LentSlots
  BY <1>1 DEF BuffersInv, PlacesDistinct
<1>3. at[t] \notin ReadySlots
  BY <1>2 DEF BuffersInv, PhasesAgree
<1>4. /\ cell'[at[t]] = b /\ b # None
      /\ \A j \in SlotIds \ {at[t]} : cell'[j] = cell[j]
  BY <1>1, Typed, NoneDistinct
<1>5. \A u \in Threads, j \in SlotIds : Reserves(u, j)' <=> Reserves(u, j) /\ u # t
  BY DEF Others, Reserves
<1> QED
  BY <1>1, <1>2, <1>3, <1>4, <1>5 DEF Reserves

LEMMA RestoringKeeps ==
    ASSUME ControlInv, BuffersInv, NEW t \in Threads, Restoring(t)
    PROVE  BuffersInv' /\ LiveLeases' = LiveLeases
<1> DEFINE i == at[t]
           b == CancelSlot(held[t])
<1>0. /\ LiveLeases' = LiveLeases /\ LentSlots' = LentSlots /\ ReadySlots' = ReadySlots
      /\ LeasesUnique'
  BY LeasesStay DEF Restoring, ReadySlots, BuffersInv
<1>1. b \in Buffer /\ b.phase = "Free"
  <2>1. held[t] \in Buffer
    BY ReservesOne DEF Restoring
  <2> QED
    BY <2>1, BufferTypes DEF CancelSlot, Buffer
<1>2. cell' = [cell EXCEPT ![i] = b] /\ held[t] # None /\ held'[t] = None /\ Others(t)
  BY DEF Restoring, Restored
<1> HIDE DEF b
<1>3. /\ i \in SlotIds /\ cell[i] = None /\ i \notin LentSlots /\ i \notin ReadySlots
      /\ cell'[i] = b /\ b # None
      /\ \A j \in SlotIds \ {i} : cell'[j] = cell[j]
      /\ \A u \in Threads, j \in SlotIds : Reserves(u, j)' <=> Reserves(u, j) /\ u # t
      /\ \A u \in Threads, j \in SlotIds \ {i} : Reserves(u, j) => u # t
      /\ \A u \in Threads \ {t} : ~Reserves(u, i)
  BY <1>1, <1>2, CellFilled
<1> HIDE DEF i
<1>4. PlacesDistinct'
  BY <1>0, <1>3 DEF Restoring, BuffersInv, PlacesDistinct
<1>5. PhasesAgree'
  <2>1. \A u \in Threads : held'[u] # None => held'[u].phase = "Reserved"
    BY <1>2 DEF Others, BuffersInv, PhasesAgree
  <2>2. \A j \in ReadySlots : cell'[j] # None
    BY <1>3, Typed DEF BuffersInv, PhasesAgree
  <2>3. \A j \in SlotIds :
          cell'[j] # None => cell'[j].phase = IF j \in ReadySlots THEN "Ready" ELSE "Free"
    BY <1>1, <1>3 DEF BuffersInv, PhasesAgree
  <2> QED
    BY <1>0, <2>1, <2>2, <2>3 DEF BuffersInv, PhasesAgree
<1>6. TicketsContiguous'
  BY <1>0 DEF Restoring, BuffersInv, TicketsContiguous
<1> QED
  BY <1>0, <1>4, <1>5, <1>6 DEF BuffersInv

(* One more entry at the end of the ready queue. *)
LEMMA ReadyGrows ==
    ASSUME ControlInv, NEW e \in [slot : SlotIds, ticket : Nat], ready' = Append(ready, e)
    PROVE  /\ Len(ready') = Len(ready) + 1
           /\ DOMAIN ready' = 1 .. Len(ready) + 1
           /\ \A k \in DOMAIN ready : ready'[k] = ready[k]
           /\ ready'[Len(ready) + 1] = e
           /\ ReadySlots' = ReadySlots \union {e.slot}
<1>1. ready \in Seq([slot : SlotIds, ticket : Nat])
  BY Typed
<1>2. /\ ready' \in Seq([slot : SlotIds, ticket : Nat])
      /\ Len(ready') = Len(ready) + 1
      /\ \A k \in 1 .. Len(ready) : ready'[k] = ready[k]
      /\ ready'[Len(ready) + 1] = e
  BY <1>1, AppendProperties
<1>3. DOMAIN ready = 1 .. Len(ready) /\ Len(ready) \in Nat
  BY Typed
<1>4. DOMAIN ready' = 1 .. Len(ready) + 1
  BY <1>2
<1>5. ReadySlots' = {ready'[k].slot : k \in 1 .. Len(ready) + 1}
  BY <1>4 DEF ReadySlots
<1>6. ReadySlots = {ready[k].slot : k \in 1 .. Len(ready)}
  BY <1>3 DEF ReadySlots
<1>7. \A k \in 1 .. Len(ready) + 1 : k \in 1 .. Len(ready) \/ k = Len(ready) + 1
  BY <1>3
<1>8. 1 .. Len(ready) \subseteq 1 .. Len(ready) + 1 /\ Len(ready) + 1 \in 1 .. Len(ready) + 1
  BY <1>3
<1>9. ReadySlots' = ReadySlots \union {e.slot}
  BY <1>2, <1>5, <1>6, <1>7, <1>8
<1> QED
  BY <1>2, <1>3, <1>4, <1>9

LEMMA PublishingKeeps ==
    ASSUME ControlInv, BuffersInv, NEW t \in Threads, Publishing(t)
    PROVE  BuffersInv' /\ LiveLeases' = LiveLeases
<1> DEFINE i == at[t]
           n == Size[held[t].bytes]
           b == PublishSlot(held[t], n)
           e == [slot |-> i, ticket |-> order.next]
<1>0. LiveLeases' = LiveLeases /\ LentSlots' = LentSlots /\ LeasesUnique'
  BY LeasesStay DEF Publishing, BuffersInv
<1>1. b \in Buffer /\ b.phase = "Ready"
  <2>1. held[t] \in Buffer /\ n \in Nat
    BY ReservesOne, QueueAssumption DEF Publishing
  <2> QED
    BY <2>1, BufferTypes DEF PublishSlot, Buffer
<1>2. /\ cell' = [cell EXCEPT ![i] = b] /\ held[t] # None /\ held'[t] = None /\ Others(t)
      /\ ready' = Append(ready, e)
  BY DEF Publishing
<1>a. /\ order' = [order EXCEPT !.next = order.next + 1]
      /\ order' \in [head : Nat, next : Nat]
      /\ order'.head = order.head /\ order'.next = order.next + 1
  BY Typed DEF Publishing, Enqueue
<1> HIDE DEF b
<1>3. /\ i \in SlotIds /\ cell[i] = None /\ i \notin LentSlots /\ i \notin ReadySlots
      /\ cell'[i] = b /\ b # None
      /\ \A j \in SlotIds \ {i} : cell'[j] = cell[j]
      /\ \A u \in Threads, j \in SlotIds : Reserves(u, j)' <=> Reserves(u, j) /\ u # t
      /\ \A u \in Threads, j \in SlotIds \ {i} : Reserves(u, j) => u # t
      /\ \A u \in Threads \ {t} : ~Reserves(u, i)
  BY <1>1, <1>2, CellFilled
<1>4. e \in [slot : SlotIds, ticket : Nat] /\ e.slot = i /\ e.ticket = order.next
  BY <1>3, Typed
<1> HIDE DEF i, e
<1>5. /\ Len(ready') = Len(ready) + 1
      /\ DOMAIN ready' = 1 .. Len(ready) + 1
      /\ \A k \in DOMAIN ready : ready'[k] = ready[k]
      /\ ready'[Len(ready) + 1] = e
      /\ ReadySlots' = ReadySlots \union {i}
  BY <1>2, <1>4, ReadyGrows
<1>6. DOMAIN ready = 1 .. Len(ready) /\ Len(ready) \in Nat
  BY Typed
<1>b. \A k \in DOMAIN ready' : k \in DOMAIN ready \/ k = Len(ready) + 1
  BY <1>5, <1>6
<1>7. \A j, k \in DOMAIN ready' : ready'[j].slot = ready'[k].slot => j = k
  <2>1. \A k \in DOMAIN ready : ready[k].slot # i
    BY <1>3 DEF ReadySlots
  <2>2. \A j, k \in DOMAIN ready : ready[j].slot = ready[k].slot => j = k
    BY DEF BuffersInv, PlacesDistinct
  <2>3. ready'[Len(ready) + 1].slot = i
    BY <1>4, <1>5
  <2> QED
    BY <1>5, <1>b, <2>1, <2>2, <2>3
<1>8. PlacesDistinct'
  <2>1. /\ \A j \in SlotIds :
             /\ j \in LentSlots' => cell'[j] = None
             /\ cell'[j] = None => j \in LentSlots' \/ \E u \in Threads : Reserves(u, j)'
             /\ \A u \in Threads : Reserves(u, j)' => cell'[j] = None /\ j \notin LentSlots'
    BY <1>0, <1>3 DEF BuffersInv, PlacesDistinct
  <2>2. \A one, two \in LiveLeases' : one.ticket = two.ticket => one = two
    BY <1>0 DEF BuffersInv, PlacesDistinct
  <2>3. leased' = Cardinality(LentSlots')
    BY <1>0 DEF Publishing, BuffersInv, PlacesDistinct
  <2> QED
    BY <1>7, <2>1, <2>2, <2>3 DEF PlacesDistinct
<1>9. PhasesAgree'
  <2>1. \A u \in Threads : held'[u] # None => held'[u].phase = "Reserved"
    BY <1>2 DEF Others, BuffersInv, PhasesAgree
  <2>2. \A j \in ReadySlots' : cell'[j] # None
    BY <1>3, <1>5, Typed DEF BuffersInv, PhasesAgree
  <2>3. \A j \in SlotIds :
          cell'[j] # None => cell'[j].phase = IF j \in ReadySlots' THEN "Ready" ELSE "Free"
    BY <1>1, <1>3, <1>5 DEF BuffersInv, PhasesAgree
  <2> QED
    BY <1>0, <2>1, <2>2, <2>3 DEF BuffersInv, PhasesAgree
<1>10. TicketsContiguous'
  <2>1. order.head + Len(ready) = order.next
    BY DEF BuffersInv, TicketsContiguous
  <2>2. order'.head + Len(ready') = order'.next
    BY <1>a, <1>5, <1>6, <2>1, Typed
  <2>3. ASSUME NEW k \in DOMAIN ready' PROVE ready'[k].ticket = order'.head + k - 1
    <3>1. CASE k \in DOMAIN ready
      <4>1. ready[k].ticket = order.head + k - 1
        BY <3>1 DEF BuffersInv, TicketsContiguous
      <4> QED
        BY <1>a, <1>5, <3>1, <4>1
    <3>2. CASE k = Len(ready) + 1
      <4>1. ready'[k].ticket = order.next
        BY <1>4, <1>5, <3>2
      <4> QED
        BY <1>6, <1>a, <2>1, <3>2, <4>1, Typed
    <3> QED
      BY <1>b, <3>1, <3>2
  <2>4. \A live \in LiveLeases' : live.ticket < order'.head
    BY <1>0, <1>a DEF BuffersInv, TicketsContiguous
  <2> QED
    BY <2>2, <2>3, <2>4 DEF TicketsContiguous
<1> QED
  BY <1>0, <1>8, <1>9, <1>10 DEF BuffersInv

LEMMA LettingGoKeeps ==
    ASSUME ControlInv, BuffersInv, NEW t \in Threads, NEW dropped, LettingGo(t, dropped)
    PROVE  BuffersInv' /\ LiveLeases' = LiveLeases
<1>0. /\ UNCHANGED <<cell, ready, order, leased>>
      /\ \A u \in Threads : held'[u] = held[u]
      /\ \A u \in Threads \ {t} : lease'[u] = lease[u] /\ at'[u] = at[u]
      /\ lease[t] = None /\ lease'[t] = dropped /\ held[t] = None
      /\ dropped \in leases /\ leases' = leases \ {dropped}
  BY DEF LettingGo, Others
<1>1. dropped # None
  BY <1>0, Typed, NoneDistinct DEF LiveLeases
<1>2. LiveLeases' = LiveLeases
  BY <1>0, <1>1 DEF LiveLeases
<1>3. LentSlots' = LentSlots /\ ReadySlots' = ReadySlots
  BY <1>0, <1>2 DEF LentSlots, ReadySlots
<1>4. \A u \in Threads, i \in SlotIds : Reserves(u, i)' <=> Reserves(u, i)
  BY <1>0 DEF Reserves
<1>5. PlacesDistinct'
  BY <1>0, <1>2, <1>3, <1>4 DEF BuffersInv, PlacesDistinct
<1>6. LeasesUnique'
  <2>1. \A u \in Threads \ {t} : lease[u] # None => lease[u] \notin leases
    BY DEF BuffersInv, LeasesUnique
  <2>2. \A u \in Threads \ {t} : lease'[u] # dropped
    BY <1>0, <1>1, <2>1
  <2> QED
    BY <1>0, <1>1, <1>2, <2>1, <2>2 DEF BuffersInv, LeasesUnique
<1>7. PhasesAgree'
  BY <1>0, <1>2, <1>3 DEF BuffersInv, PhasesAgree
<1>8. TicketsContiguous'
  BY <1>0, <1>2 DEF BuffersInv, TicketsContiguous
<1> QED
  BY <1>2, <1>5, <1>6, <1>7, <1>8 DEF BuffersInv

(* The entry at the head of the ready queue, without which it goes on. *)
LEMMA ReadyShrinks ==
    ASSUME ControlInv, BuffersInv, ready # <<>>, ready' = Tail(ready)
    PROVE  /\ Len(ready') = Len(ready) - 1 /\ Len(ready) \in Nat \ {0}
           /\ DOMAIN ready' = 1 .. Len(ready) - 1
           /\ \A k \in DOMAIN ready' : k + 1 \in DOMAIN ready /\ ready'[k] = ready[k + 1]
           /\ Head(ready) = ready[1] /\ 1 \in DOMAIN ready
           /\ ReadySlots' = ReadySlots \ {Head(ready).slot}
<1>1. ready \in Seq([slot : SlotIds, ticket : Nat])
  BY Typed
<1>2. /\ ready' \in Seq([slot : SlotIds, ticket : Nat])
      /\ Len(ready') = Len(ready) - 1
      /\ \A k \in 1 .. Len(ready') : ready'[k] = ready[k + 1]
  BY <1>1, HeadTailProperties
<1>3. /\ DOMAIN ready = 1 .. Len(ready) /\ Len(ready) \in Nat \ {0}
      /\ Head(ready) = ready[1]
  BY <1>1, EmptySeq
<1>4. DOMAIN ready' = 1 .. Len(ready) - 1
  BY <1>2
<1>5. \A k \in DOMAIN ready' : k + 1 \in DOMAIN ready /\ ready'[k] = ready[k + 1]
  BY <1>2, <1>3, <1>4
<1>6. \A j \in DOMAIN ready : j = 1 \/ \E k \in DOMAIN ready' : j = k + 1
  <2> SUFFICES ASSUME NEW j \in DOMAIN ready, j # 1 PROVE \E k \in DOMAIN ready' : j = k + 1
    OBVIOUS
  <2>1. j - 1 \in DOMAIN ready' /\ j = (j - 1) + 1
    BY <1>3, <1>4
  <2> QED
    BY <2>1
<1>7. 1 \in DOMAIN ready /\ \A k \in DOMAIN ready' : k + 1 # 1
  BY <1>3, <1>4
<1>8. \A j, k \in DOMAIN ready : ready[j].slot = ready[k].slot => j = k
  BY DEF BuffersInv, PlacesDistinct
<1>9. ReadySlots' = ReadySlots \ {ready[1].slot}
  <2>1. \A s \in ReadySlots' : s \in ReadySlots /\ s # ready[1].slot
    BY <1>5, <1>7, <1>8 DEF ReadySlots
  <2>2. \A s \in ReadySlots : s # ready[1].slot => s \in ReadySlots'
    BY <1>5, <1>6 DEF ReadySlots
  <2> QED
    BY <2>1, <2>2
<1> QED
  BY <1>2, <1>3, <1>4, <1>5, <1>7, <1>9

(* What the head entry stands for: a ready buffer that nobody else has. *)
LEMMA HeadEntry ==
    ASSUME ControlInv, BuffersInv, ready # <<>>
    PROVE  /\ Head(ready).slot \in SlotIds /\ Head(ready).ticket = order.head
           /\ cell[Head(ready).slot] \in Buffer /\ CanLease(cell[Head(ready).slot])
           /\ cell[Head(ready).slot] # None
           /\ Head(ready).slot \notin LentSlots
           /\ \A u \in Threads : ~Reserves(u, Head(ready).slot)
           /\ CanDequeue(order, Head(ready).ticket)
           /\ leased < Slots
<1>1. /\ ready \in Seq([slot : SlotIds, ticket : Nat])
      /\ DOMAIN ready = 1 .. Len(ready) /\ Len(ready) \in Nat
  BY Typed
<1>2. Head(ready) = ready[1] /\ 1 \in DOMAIN ready /\ Len(ready) # 0
  BY <1>1, EmptySeq
<1> DEFINE i == ready[1].slot
<1>3. i \in SlotIds /\ i \in ReadySlots
  BY <1>2, Typed DEF ReadySlots
<1>4. cell[i] \in Buffer /\ cell[i] # None /\ cell[i].phase = "Ready"
  BY <1>3, Typed DEF BuffersInv, PhasesAgree
<1>5. i \notin LentSlots /\ \A u \in Threads : ~Reserves(u, i)
  BY <1>3, <1>4 DEF BuffersInv, PlacesDistinct
<1>6. ready[1].ticket = order.head /\ order.head < order.next
  <2>1. ready[1].ticket = order.head + 1 - 1 /\ order.head + Len(ready) = order.next
    BY <1>2 DEF BuffersInv, TicketsContiguous
  <2> QED
    BY <1>1, <1>2, <2>1, Typed
<1>7. leased < Slots
  <2>1. LentSlots \in SUBSET SlotIds /\ LentSlots # SlotIds
    BY <1>3, <1>5, Typed
  <2>2. leased = Cardinality(LentSlots)
    BY DEF BuffersInv, PlacesDistinct
  <2> QED
    BY <2>1, <2>2, LentFinite, FS_Subset, QueueAssumption
<1> QED
  BY <1>2, <1>3, <1>4, <1>5, <1>6, <1>7 DEF CanLease, CanDequeue

LEMMA LeasingKeeps ==
    ASSUME ControlInv, BuffersInv, NEW t \in Threads, Leasing(t)
    PROVE  /\ BuffersInv'
           /\ LiveLeases' = LiveLeases \union {Taken(t)}
<1> DEFINE i == at[t]
           new == Taken(t)
<1>0. /\ Others(t) /\ held[t] = None /\ held'[t] = None
      /\ lease[t] = None /\ lease'[t] = None
      /\ ready # <<>> /\ i = Head(ready).slot
      /\ leases' = leases \union {new}
      /\ cell' = [cell EXCEPT ![i] = None]
      /\ order' = [order EXCEPT !.head = order.head + 1]
      /\ ready' = Tail(ready)
      /\ leased' = leased + 1
  BY DEF Leasing, Dequeue
<1>1. /\ i \in SlotIds /\ cell[i] \in Buffer /\ cell[i].phase = "Ready" /\ cell[i] # None
      /\ i \notin LentSlots /\ \A u \in Threads : ~Reserves(u, i)
  BY <1>0, HeadEntry DEF CanLease
<1>2. /\ new.slot = i /\ new.ticket = order.head /\ new \notin LiveLeases
      /\ new.buffer.phase = "Leased"
  <2>1. new.slot = i /\ new.ticket = order.head
    BY <1>0, HeadEntry DEF Taken
  <2>2. new.buffer.phase = "Leased"
    BY <1>1 DEF Taken, LeaseSlot, Buffer
  <2> QED
    BY <1>1, <2>1, <2>2 DEF LentSlots
<1>3. /\ cell'[i] = None /\ \A j \in SlotIds \ {i} : cell'[j] = cell[j]
  BY <1>0, <1>1, Typed
<1>4. order'.head = order.head + 1 /\ order'.next = order.next /\ order.head \in Nat
  BY <1>0, Typed
<1> HIDE DEF new
<1>5. LiveLeases' = LiveLeases \union {new}
  BY <1>0 DEF LiveLeases, Others
<1>6. LentSlots' = LentSlots \union {i}
  BY <1>2, <1>5 DEF LentSlots
<1>7. /\ Len(ready') = Len(ready) - 1 /\ Len(ready) \in Nat \ {0}
      /\ DOMAIN ready' = 1 .. Len(ready) - 1
      /\ \A k \in DOMAIN ready' : k + 1 \in DOMAIN ready /\ ready'[k] = ready[k + 1]
      /\ ReadySlots' = ReadySlots \ {i}
  BY <1>0, ReadyShrinks
<1> HIDE DEF i
<1>8. \A u \in Threads, j \in SlotIds : Reserves(u, j)' <=> Reserves(u, j)
  BY <1>0 DEF Reserves, Others
<1>9. PlacesDistinct'
  <2>1. /\ \A j \in SlotIds :
             /\ j \in LentSlots' => cell'[j] = None
             /\ cell'[j] = None => j \in LentSlots' \/ \E u \in Threads : Reserves(u, j)'
             /\ \A u \in Threads : Reserves(u, j)' => cell'[j] = None /\ j \notin LentSlots'
    BY <1>1, <1>3, <1>6, <1>8 DEF BuffersInv, PlacesDistinct
  <2>2. ASSUME NEW j \in DOMAIN ready', NEW k \in DOMAIN ready',
               ready'[j].slot = ready'[k].slot
        PROVE  j = k
    <3>1. j + 1 = k + 1
      BY <1>7, <2>2 DEF BuffersInv, PlacesDistinct
    <3> QED
      BY <1>7, <3>1
  <2>3. \A one \in LiveLeases : one.ticket < order.head /\ one.ticket # order.head
    <3>1. \A one \in LiveLeases : one.ticket < order.head /\ one.ticket \in Nat
      BY Typed DEF BuffersInv, TicketsContiguous, Lease
    <3> QED
      BY <1>4, <3>1
  <2>4. \A one, two \in LiveLeases' : one.ticket = two.ticket => one = two
    BY <1>2, <1>5, <2>3 DEF BuffersInv, PlacesDistinct
  <2>5. leased' = Cardinality(LentSlots')
    BY <1>0, <1>1, <1>6, LentFinite, FS_AddElement DEF BuffersInv, PlacesDistinct
  <2> QED
    BY <2>1, <2>2, <2>4, <2>5 DEF PlacesDistinct
<1>10. LeasesUnique'
  <2>1. \A one \in LiveLeases : one.slot # i
    BY <1>1 DEF LentSlots
  <2>2. \A one, two \in LiveLeases' : one.slot = two.slot => one = two
    BY <1>2, <1>5, <2>1 DEF BuffersInv, LeasesUnique
  <2>3. \A u \in Threads : lease'[u] = lease[u] /\ (lease[u] # None => lease[u] # new)
    BY <1>0, <1>2 DEF Others, LiveLeases
  <2> QED
    BY <1>0, <2>2, <2>3 DEF BuffersInv, LeasesUnique
<1>11. PhasesAgree'
  <2>1. \A u \in Threads : held'[u] # None => held'[u].phase = "Reserved"
    BY <1>0 DEF Others, BuffersInv, PhasesAgree
  <2>2. \A j \in ReadySlots' : cell'[j] # None
    BY <1>3, <1>7, Typed DEF BuffersInv, PhasesAgree
  <2>3. \A j \in SlotIds :
          cell'[j] # None => cell'[j].phase = IF j \in ReadySlots' THEN "Ready" ELSE "Free"
    BY <1>3, <1>7 DEF BuffersInv, PhasesAgree
  <2>4. \A live \in LiveLeases' : live.buffer.phase = "Leased"
    BY <1>2, <1>5 DEF BuffersInv, PhasesAgree
  <2> QED
    BY <2>1, <2>2, <2>3, <2>4 DEF PhasesAgree
<1>12. TicketsContiguous'
  <2>1. order.head + Len(ready) = order.next
    BY DEF BuffersInv, TicketsContiguous
  <2>2. order'.head + Len(ready') = order'.next
    BY <1>4, <1>7, <2>1
  <2>3. ASSUME NEW k \in DOMAIN ready' PROVE ready'[k].ticket = order'.head + k - 1
    <3>1. ready'[k].ticket = order.head + (k + 1) - 1 /\ k \in Nat
      BY <1>7 DEF BuffersInv, TicketsContiguous
    <3> QED
      BY <1>4, <3>1
  <2>4. ASSUME NEW live \in LiveLeases' PROVE live.ticket < order'.head
    <3>1. CASE live \in LiveLeases
      <4>1. live.ticket < order.head /\ live.ticket \in Nat
        BY <3>1, Typed DEF BuffersInv, TicketsContiguous, Lease
      <4> QED
        BY <1>4, <4>1
    <3>2. CASE live = new
      BY <1>2, <1>4, <3>2
    <3> QED
      BY <1>5, <3>1, <3>2
  <2> QED
    BY <2>2, <2>3, <2>4 DEF TicketsContiguous
<1> QED
  BY <1>5, <1>9, <1>10, <1>11, <1>12 DEF BuffersInv, new

LEMMA ReleasingKeeps ==
    ASSUME ControlInv, BuffersInv, NEW t \in Threads, Releasing(t)
    PROVE  /\ BuffersInv'
           /\ lease[t] \in LiveLeases /\ LiveLeases' = LiveLeases \ {lease[t]}
<1> DEFINE old == lease[t]
           i == old.slot
           b == ReleaseSlot(old.buffer)
<1>0. /\ Others(t) /\ held[t] = None /\ held'[t] = None
      /\ old # None /\ lease'[t] = None
      /\ UNCHANGED <<ready, order, leases>>
      /\ cell' = [cell EXCEPT ![i] = b]
      /\ leased' = leased - 1
  BY DEF Releasing
<1>1. /\ old \in LiveLeases /\ old \in Lease /\ i \in SlotIds /\ i \in LentSlots
      /\ b \in Buffer /\ b.phase = "Free" /\ b # None
  <2>1. old \in LiveLeases /\ old \in Lease /\ i \in LentSlots
    BY <1>0, Typed DEF LiveLeases, LentSlots
  <2>2. i \in SlotIds /\ old.buffer \in Buffer
    BY <2>1 DEF Lease
  <2>3. b \in Buffer /\ b.phase = "Free"
    BY <2>2, BufferTypes DEF ReleaseSlot, Buffer
  <2> QED
    BY <2>1, <2>2, <2>3, NoneDistinct
<1>2. LiveLeases' = LiveLeases \ {old}
  <2>1. old \notin leases /\ \A u \in Threads \ {t} : lease[u] # old
    BY <1>0 DEF BuffersInv, LeasesUnique
  <2> QED
    BY <1>0, <2>1 DEF LiveLeases, Others
<1>3. LentSlots' = LentSlots \ {i}
  <2>1. \A one \in LiveLeases : one.slot = i => one = old
    BY <1>1 DEF BuffersInv, LeasesUnique
  <2> QED
    BY <1>2, <2>1 DEF LentSlots
<1>4. cell[i] = None /\ i \notin ReadySlots /\ \A u \in Threads : ~Reserves(u, i)
  <2>1. cell[i] = None /\ \A u \in Threads : ~Reserves(u, i)
    BY <1>1 DEF BuffersInv, PlacesDistinct
  <2> QED
    BY <2>1 DEF BuffersInv, PhasesAgree
<1>5. cell'[i] = b /\ \A j \in SlotIds \ {i} : cell'[j] = cell[j]
  BY <1>0, <1>1, Typed
<1>6. ReadySlots' = ReadySlots
  BY <1>0 DEF ReadySlots
<1>7. \A u \in Threads, j \in SlotIds : Reserves(u, j)' <=> Reserves(u, j)
  BY <1>0 DEF Reserves, Others
<1> HIDE DEF b, i, old
<1>8. PlacesDistinct'
  <2>1. /\ \A j \in SlotIds :
             /\ j \in LentSlots' => cell'[j] = None
             /\ cell'[j] = None => j \in LentSlots' \/ \E u \in Threads : Reserves(u, j)'
             /\ \A u \in Threads : Reserves(u, j)' => cell'[j] = None /\ j \notin LentSlots'
    BY <1>1, <1>3, <1>4, <1>5, <1>7 DEF BuffersInv, PlacesDistinct
  <2>2. leased' = Cardinality(LentSlots')
    BY <1>0, <1>1, <1>3, LentFinite, FS_RemoveElement DEF BuffersInv, PlacesDistinct
  <2> QED
    BY <1>0, <1>2, <2>1, <2>2 DEF BuffersInv, PlacesDistinct
<1>9. LeasesUnique'
  <2>1. \A u \in Threads : lease'[u] # None => lease'[u] = lease[u]
    BY <1>0 DEF Others
  <2> QED
    BY <1>0, <1>2, <2>1 DEF BuffersInv, LeasesUnique
<1>10. PhasesAgree'
  <2>1. \A u \in Threads : held'[u] # None => held'[u].phase = "Reserved"
    BY <1>0 DEF Others, BuffersInv, PhasesAgree
  <2>2. \A j \in ReadySlots : cell'[j] # None
    BY <1>4, <1>5, Typed DEF BuffersInv, PhasesAgree
  <2>3. \A j \in SlotIds :
          cell'[j] # None => cell'[j].phase = IF j \in ReadySlots THEN "Ready" ELSE "Free"
    BY <1>1, <1>4, <1>5 DEF BuffersInv, PhasesAgree
  <2> QED
    BY <1>2, <1>6, <2>1, <2>2, <2>3 DEF BuffersInv, PhasesAgree
<1>11. TicketsContiguous'
  BY <1>0, <1>2 DEF BuffersInv, TicketsContiguous
<1> QED
  BY <1>1, <1>2, <1>8, <1>9, <1>10, <1>11 DEF BuffersInv, old

-----------------------------------------------------------------------------
(* Which move each action is, and that only an unwinding encoder poisons.  *)

Known == {"commit", "check", "push", "unwind"}

LEMMA EnterIs ==
    ASSUME ControlInv, NEW t \in Threads, NEW l, NEW p, NEW d, NEW o, Enter(t, l, p, d, o)
    PROVE  /\ Others(t) /\ pc'[t] = l /\ at'[t] = None
           /\ held'[t] = None /\ lease'[t] = d
BY DEF Enter, Others, ControlInv, TypeOK, LocalsTypeOK

LEMMA GotoIs ==
    ASSUME ControlInv, NEW t \in Threads, NEW l, Goto(t, l)
    PROVE  /\ Others(t) /\ pc'[t] = l /\ at'[t] = at[t] /\ scan'[t] = scan[t]
           /\ held'[t] = held[t] /\ lease'[t] = lease[t]
BY DEF Goto, locals, Others, ControlInv, TypeOK, LocalsTypeOK

LEMMA LeaveIs ==
    ASSUME ControlInv, NEW t \in Threads, NEW b, NEW o, Leave(t, b, o)
    PROVE  /\ Others(t) /\ pc'[t] = "leave" /\ at'[t] = at[t]
           /\ held'[t] = b /\ lease'[t] = None
BY DEF Leave, Others, ControlInv, TypeOK, LocalsTypeOK

LEMMA ConcludeIs ==
    ASSUME ControlInv, NEW t \in Threads, NEW o, Conclude(t, o), lease[t] = None
    PROVE  /\ Others(t) /\ pc'[t] \in {"idle", "leave"} /\ held'[t] = held[t]
           /\ lease'[t] = None /\ (held[t] # None => at'[t] = at[t])
<1>1. CASE at[t] = None
  <2>1. Enter(t, "idle", NoScan, None, o)
    BY <1>1 DEF Conclude, Finish
  <2>2. held[t] = None
    BY <1>1 DEF ControlInv, ControlMatch
  <2> QED
    BY <2>1, <2>2, EnterIs
<1>2. CASE at[t] # None
  BY <1>2, LeaveIs DEF Conclude
<1> QED
  BY <1>1, <1>2

(* The next local state of Advance. *)
LEMMA AdvanceIs ==
    ASSUME ControlInv, NEW t \in Threads, NEW c, Advance(t, c)
    PROVE  /\ Others(t) /\ pc'[t] \in {"scan", "idle", "reject"}
           /\ held'[t] = None /\ lease'[t] = None
<1>1. \E l \in {"scan", "idle", "reject"} : \E p, o : Enter(t, l, p, None, o)
  BY DEF Advance, ScanNext, Finish
<1> QED
  BY <1>1, EnterIs

LEMMA PoisonKept ==
    ASSUME ControlInv, PoisonInv, NEW t \in Threads, Others(t),
           panicked => panicked', fault' => panicked',
           \A i \in SlotIds : poisoned'[i] => panicked',
           closed' = closed \/ mutex = t, RecordKnown(t)'
    PROVE  PoisonInv'
<1>1. ASSUME NEW u \in Threads \ {t} PROVE RecordKnown(u)'
  <2>1. RecordKnown(u)
    BY DEF PoisonInv
  <2>2. pc[u] = "push" => closed' = closed
    BY DEF ControlInv, ControlMatch, InState
  <2> QED
    BY <2>1, <2>2 DEF RecordKnown, Others
<1> QED
  BY <1>1 DEF PoisonInv

(* The usual case: the flags stay, and t comes to a point of no record. *)
LEMMA PoisonStays ==
    ASSUME ControlInv, PoisonInv, NEW t \in Threads, Others(t),
           UNCHANGED <<fault, poisoned, panicked>>,
           closed' = closed \/ mutex = t, pc'[t] \notin Known
    PROVE  PoisonInv'
BY PoisonKept DEF PoisonInv, RecordKnown, Known

Kept(t) == Quiet(t) /\ closed' = closed

(* A step of a thread that has neither record nor lease moves nothing. *)
LEMMA NothingMoves ==
    ASSUME NEW t \in Threads, Others(t), held[t] = None, held'[t] = None,
           lease'[t] = lease[t],
           UNCHANGED <<cell, ready, order, closed, leased, leases>>
    PROVE  Kept(t)
BY DEF Kept, Quiet

LEMMA RecordBeginMoves ==
    ASSUME QueueInv, NEW t \in Threads, NEW payload \in Payloads, RecordBegin(t, payload)
    PROVE  Kept(t) /\ PoisonInv'
<1>1. ControlInv /\ PoisonInv /\ pc[t] = "idle"
  BY DEF QueueInv, RecordBegin, At
<1>2. held[t] = None /\ lease[t] = None
  BY <1>1 DEF ControlInv, ControlMatch, Encoded, Refusing, Dropping
<1>3. \E l \in {"idle", "reject", "scan"} : \E p, o : Enter(t, l, p, None, o)
  BY DEF RecordBegin, Finish
<1>4. /\ Others(t) /\ pc'[t] \in {"idle", "reject", "scan"} /\ held'[t] = None
      /\ lease'[t] = None
  BY <1>1, <1>3, EnterIs
<1>5. UNCHANGED <<cell, ready, order, closed, leased, leases, fault, poisoned, panicked>>
  BY DEF RecordBegin, shared
<1> QED
  BY <1>1, <1>2, <1>4, <1>5, NothingMoves, PoisonStays DEF Known

LEMMA ProbeSlotMoves ==
    ASSUME QueueInv, NEW t \in Threads, ProbeSlot(t)
    PROVE  Kept(t) /\ PoisonInv'
<1> DEFINE i == Candidate(t)
<1>0. ControlInv /\ PoisonInv /\ pc[t] = "scan" /\ i \in SlotIds
  BY CandidateSlot DEF QueueInv, ProbeSlot, At, ControlInv, TypeOK
<1>1. held[t] = None /\ lease[t] = None
  BY <1>0 DEF ControlInv, ControlMatch, Encoded, Refusing, Dropping
<1>2. UNCHANGED <<cell, ready, order, closed, leased, leases, poisoned, panicked>>
  BY DEF ProbeSlot, shared
<1>3. CASE Advance(t, TRUE) /\ UNCHANGED shared
  <2>1. UNCHANGED fault
    BY <1>3 DEF shared
  <2> QED
    BY <1>0, <1>1, <1>2, <1>3, <2>1, AdvanceIs, NothingMoves, PoisonStays DEF Known
<1>4. CASE poisoned[i] /\ Finish(t, "Poisoned")
  <2>1. /\ Others(t) /\ pc'[t] = "idle" /\ held'[t] = None /\ lease'[t] = None
    BY <1>0, <1>4, EnterIs DEF Finish
  <2>2. panicked
    BY <1>0, <1>4 DEF PoisonInv
  <2>3. RecordKnown(t)'
    BY <2>1 DEF RecordKnown
  <2>4. PoisonInv'
    BY <1>0, <1>2, <2>1, <2>2, <2>3, PoisonKept DEF PoisonInv
  <2> QED
    BY <1>1, <1>2, <2>1, <2>4, NothingMoves
<1>5. CASE /\ pc' = [pc EXCEPT ![t] = "inspect"]
           /\ at' = [at EXCEPT ![t] = i]
           /\ UNCHANGED <<scan, held, lease, result>>
           /\ UNCHANGED fault
  <2>1. /\ Others(t) /\ pc'[t] = "inspect" /\ held'[t] = None /\ lease'[t] = lease[t]
    BY <1>0, <1>1, <1>5 DEF ControlInv, TypeOK, LocalsTypeOK, Others
  <2> QED
    BY <1>0, <1>1, <1>2, <1>5, <2>1, NothingMoves, PoisonStays DEF Known
<1> QED
  BY <1>3, <1>4, <1>5 DEF ProbeSlot

LEMMA InspectSlotMoves ==
    ASSUME QueueInv, NEW t \in Threads, InspectSlot(t)
    PROVE  (Kept(t) \/ Reserving(t)) /\ at[t] \in SlotIds /\ PoisonInv'
<1>0. ControlInv /\ PoisonInv /\ pc[t] = "inspect"
  BY DEF QueueInv, InspectSlot, At
<1>1. held[t] = None /\ lease[t] = None /\ at[t] \in SlotIds
  <2>1. held[t] = None /\ lease[t] = None /\ at[t] # None
    BY <1>0 DEF ControlInv, ControlMatch, Encoded, Refusing, Dropping, InSlot
  <2> QED
    BY <1>0, <2>1, Typed
<1>2. UNCHANGED <<ready, order, closed, leased, leases, fault, poisoned, panicked>>
  BY DEF InspectSlot
<1>3. CASE cell[at[t]] # None /\ CanReserve(cell[at[t]])
  <2>1. /\ pc' = [pc EXCEPT ![t] = "encode"]
        /\ held' = [held EXCEPT ![t] = ReserveSlot(cell[at[t]])]
        /\ cell' = [cell EXCEPT ![at[t]] = None]
        /\ UNCHANGED <<owner, at, scan, lease, result>>
    BY <1>3 DEF InspectSlot
  <2>2. /\ Others(t) /\ pc'[t] = "encode" /\ held'[t] = ReserveSlot(cell[at[t]])
        /\ at'[t] = at[t] /\ lease'[t] = lease[t]
    BY <1>0, <2>1 DEF ControlInv, TypeOK, LocalsTypeOK, Others
  <2>3. Reserving(t)
    BY <1>1, <1>2, <1>3, <2>1, <2>2 DEF Reserving
  <2> QED
    BY <1>0, <1>1, <1>2, <2>2, <2>3, PoisonStays DEF Known
<1>4. CASE ~(cell[at[t]] # None /\ CanReserve(cell[at[t]]))
  <2>1. Advance(t, scan[t].contended) /\ UNCHANGED cell
    BY <1>4 DEF InspectSlot
  <2> QED
    BY <1>0, <1>1, <1>2, <2>1, AdvanceIs, NothingMoves, PoisonStays DEF Known
<1> QED
  BY <1>3, <1>4

LEMMA EncodeMoves ==
    ASSUME QueueInv, NEW t \in Threads, Encode(t)
    PROVE  Kept(t) /\ PoisonInv'
<1> DEFINE payload == scan[t].payload
<1>0. ControlInv /\ PoisonInv /\ pc[t] = "encode"
  BY DEF QueueInv, Encode, At
<1>1. held[t] # None /\ held[t] \in Buffer /\ payload \in Payloads
  BY <1>0, Typed DEF ControlInv, ControlMatch, Encoded, TypeOK, LocalsTypeOK, Scan
<1>2. /\ held' = [held EXCEPT ![t] = [held[t] EXCEPT !.bytes = payload]]
      /\ UNCHANGED <<shared, at, scan, lease>>
      /\ pc' = [pc EXCEPT ![t] = pc'[t]] /\ pc'[t] \in {"reject", "commit"}
      /\ pc'[t] = "commit" => Fits(MaxRecord, 0, Size[payload])
  BY <1>0 DEF Encode, ControlInv, TypeOK, LocalsTypeOK
<1>3. /\ Others(t) /\ at'[t] = at[t] /\ lease'[t] = lease[t] /\ scan'[t] = scan[t]
      /\ held'[t] = [held[t] EXCEPT !.bytes = payload]
  BY <1>0, <1>2 DEF ControlInv, TypeOK, LocalsTypeOK, Others
<1>4. /\ held'[t] \in Buffer /\ held'[t].phase = held[t].phase
      /\ held'[t].bytes = payload
  BY <1>1, <1>3 DEF Buffer
<1>5. held'[t] # None
  BY <1>4, NoneDistinct
<1>6. UNCHANGED <<cell, ready, order, closed, leased, leases, fault, poisoned, panicked>>
  BY <1>2 DEF shared
<1>7. Kept(t)
  BY <1>1, <1>3, <1>4, <1>5, <1>6 DEF Kept, Quiet
<1>8. RecordKnown(t)'
  <2>1. Size[payload] \in Nat /\ MaxRecord \in Nat
    BY <1>1, QueueAssumption
  <2>2. pc'[t] = "commit" => Size[payload] <= MaxRecord
    BY <1>2, <2>1 DEF Fits
  <2> QED
    BY <1>2, <1>3, <1>4, <2>2 DEF RecordKnown
<1>9. PoisonInv'
  BY <1>0, <1>3, <1>6, <1>8, PoisonKept DEF PoisonInv
<1> QED
  BY <1>7, <1>9

LEMMA PanicRestoreMoves ==
    ASSUME QueueInv, NEW t \in Threads, PanicRestore(t)
    PROVE  Restoring(t) /\ PoisonInv'
<1>0. ControlInv /\ PoisonInv /\ pc[t] = "encode"
  BY DEF QueueInv, PanicRestore, At
<1>1. held[t] # None
  BY <1>0 DEF ControlInv, ControlMatch, Encoded
<1>2. /\ Others(t) /\ pc'[t] = "unwind" /\ held'[t] = None /\ lease'[t] = lease[t]
  BY <1>0 DEF PanicRestore, ControlInv, TypeOK, LocalsTypeOK, Others
<1>3. /\ cell' = Restored(t) /\ panicked' = TRUE
      /\ UNCHANGED <<ready, order, closed, leased, leases, poisoned>>
  BY DEF PanicRestore
<1>4. RecordKnown(t)'
  BY <1>2, <1>3 DEF RecordKnown
<1> QED
  BY <1>0, <1>1, <1>2, <1>3, <1>4, PoisonKept DEF Restoring

LEMMA PanicUnlockMoves ==
    ASSUME QueueInv, NEW t \in Threads, PanicUnlock(t)
    PROVE  Kept(t) /\ PoisonInv'
<1>0. ControlInv /\ PoisonInv /\ pc[t] = "unwind"
  BY DEF QueueInv, PanicUnlock, At
<1>1. held[t] = None /\ lease[t] = None /\ panicked
  BY <1>0 DEF ControlInv, ControlMatch, Encoded, Refusing, Dropping, PoisonInv, RecordKnown
<1>2. UNCHANGED <<cell, ready, order, closed, leased, leases, fault, panicked>>
  BY DEF PanicUnlock
<1>3. /\ Others(t) /\ pc'[t] = "idle" /\ held'[t] = None /\ lease'[t] = None
  BY <1>0, EnterIs DEF PanicUnlock, Finish
<1>4. RecordKnown(t)'
  BY <1>3 DEF RecordKnown
<1> QED
  BY <1>0, <1>1, <1>2, <1>3, <1>4, PoisonKept, NothingMoves

(* What reject, commit, dequeue and shutdown do at the state mutex. *)
LEMMA TryStateMoves ==
    ASSUME QueueInv, NEW t \in Threads, NEW l, NEW inside, TryState(t, l, inside),
           <<l, inside>> \in
             {<<"reject", "decide">>, <<"commit", "check">>,
              <<"dequeue", "front">>, <<"shutdown", "close">>}
    PROVE  Kept(t) /\ PoisonInv'
<1>0. ControlInv /\ PoisonInv /\ pc[t] = l
  BY DEF QueueInv, TryState, At
<1>1. lease[t] = None
  BY <1>0 DEF ControlInv, ControlMatch, Dropping
<1>2. UNCHANGED <<cell, ready, order, closed, leased, leases, fault, poisoned, panicked>>
  BY DEF TryState, shared
<1>3. CASE Conclude(t, "Contended")
  <2>1. /\ Others(t) /\ pc'[t] \in {"idle", "leave"} /\ held'[t] = held[t]
        /\ lease'[t] = None /\ (held[t] # None => at'[t] = at[t])
    BY <1>0, <1>1, <1>3, ConcludeIs
  <2> QED
    BY <1>0, <1>1, <1>2, <2>1, PoisonStays DEF Kept, Quiet, Known
<1>4. CASE Goto(t, inside)
  <2>1. /\ Others(t) /\ pc'[t] = inside /\ at'[t] = at[t] /\ scan'[t] = scan[t]
        /\ held'[t] = held[t] /\ lease'[t] = lease[t]
    BY <1>0, <1>4, GotoIs
  <2>2. RecordKnown(t)'
    BY <1>0, <2>1 DEF PoisonInv, RecordKnown
  <2> QED
    BY <1>0, <1>2, <2>1, <2>2, PoisonKept DEF Kept, Quiet, PoisonInv
<1> QED
  BY <1>3, <1>4 DEF TryState

(* The counts that try_record trusts are of different slots. *)
LEMMA ChargedSlots ==
    ASSUME ControlInv, BuffersInv
    PROVE  /\ Charged = Cardinality(ReadySlots \union LentSlots)
           /\ Charged <= Slots
           /\ Charged = Slots => ReadySlots \union LentSlots = SlotIds
           /\ Len(ready) = Cardinality(ReadySlots)
<1>1. Len(ready) = Cardinality(ReadySlots)
  <2>1. DOMAIN ready = 1 .. Len(ready) /\ Len(ready) \in Nat
    BY Typed
  <2> DEFINE f == [k \in 1 .. Len(ready) |-> ready[k].slot]
  <2>2. f \in [1 .. Len(ready) -> ReadySlots]
    BY <2>1 DEF ReadySlots
  <2>3. \A j, k \in 1 .. Len(ready) : f[j] = f[k] => j = k
    BY <2>1 DEF BuffersInv, PlacesDistinct
  <2>4. \A i \in ReadySlots : \E k \in 1 .. Len(ready) : f[k] = i
    BY <2>1 DEF ReadySlots
  <2>5. f \in Bijection(1 .. Len(ready), ReadySlots)
    BY <2>2, <2>3, <2>4 DEF Bijection, Injection, Surjection, IsInjective
  <2> QED
    BY <2>1, <2>5, FS_CountingElements DEF ExistsBijection
<1>2. ReadySlots \intersect LentSlots = {}
  BY Typed DEF BuffersInv, PlacesDistinct, PhasesAgree
<1>3. Charged = Cardinality(ReadySlots \union LentSlots)
  <2>1. Cardinality(ReadySlots \union LentSlots) =
          Cardinality(ReadySlots) + Cardinality(LentSlots) - Cardinality({})
    BY <1>2, LentFinite, FS_Union
  <2> QED
    BY <1>1, <2>1, LentFinite, FS_EmptySet DEF Charged, BuffersInv, PlacesDistinct
<1>4. ReadySlots \union LentSlots \in SUBSET SlotIds
  BY Typed
<1> QED
  BY <1>1, <1>3, <1>4, LentFinite, FS_Subset

LEMMA RejectDecideMoves ==
    ASSUME QueueInv, NEW t \in Threads, RejectDecide(t)
    PROVE  Kept(t) /\ PoisonInv'
<1>0. ControlInv /\ PoisonInv /\ BuffersInv /\ pc[t] = "decide"
  BY DEF QueueInv, RejectDecide, At
<1>1. lease[t] = None
  BY <1>0 DEF ControlInv, ControlMatch, Dropping
<1>2. UNCHANGED <<cell, ready, order, closed, leased, leases, poisoned, panicked>>
  BY DEF RejectDecide
<1>3. ~(Charged > Slots)
  <2>1. Charged <= Slots /\ Charged \in Nat /\ Slots \in Nat
    BY <1>0, ChargedSlots, QueueAssumption DEF Charged, ControlInv, TypeOK, SharedTypeOK
  <2> QED
    BY <2>1
<1>4. fault' = fault /\ \E o : Conclude(t, o)
  BY <1>3 DEF RejectDecide
<1>5. /\ Others(t) /\ pc'[t] \in {"idle", "leave"} /\ held'[t] = held[t]
      /\ lease'[t] = None /\ (held[t] # None => at'[t] = at[t])
  BY <1>0, <1>1, <1>4, ConcludeIs
<1> QED
  BY <1>0, <1>1, <1>2, <1>4, <1>5, PoisonStays DEF Kept, Quiet, Known

LEMMA CommitCheckMoves ==
    ASSUME QueueInv, NEW t \in Threads, CommitCheck(t)
    PROVE  Kept(t) /\ PoisonInv'
<1>0. ControlInv /\ PoisonInv /\ pc[t] = "check"
  BY DEF QueueInv, CommitCheck, At
<1>1. lease[t] = None
  BY <1>0 DEF ControlInv, ControlMatch, Dropping
<1>2. UNCHANGED <<cell, ready, order, closed, leased, leases, fault, poisoned, panicked>>
  BY DEF CommitCheck
<1>3. CASE fault \/ closed
  <2>1. \E o : Conclude(t, o)
    BY <1>3 DEF CommitCheck
  <2>2. /\ Others(t) /\ pc'[t] \in {"idle", "leave"} /\ held'[t] = held[t]
        /\ lease'[t] = None /\ (held[t] # None => at'[t] = at[t])
    BY <1>0, <1>1, <2>1, ConcludeIs
  <2> QED
    BY <1>0, <1>1, <1>2, <2>2, PoisonStays DEF Kept, Quiet, Known
<1>4. CASE ~(fault \/ closed)
  <2>1. /\ Others(t) /\ pc'[t] = "push" /\ at'[t] = at[t] /\ scan'[t] = scan[t]
        /\ held'[t] = held[t] /\ lease'[t] = lease[t]
    BY <1>0, <1>4, GotoIs DEF CommitCheck
  <2>2. RecordKnown(t)'
    BY <1>0, <1>2, <1>4, <2>1 DEF PoisonInv, RecordKnown
  <2> QED
    BY <1>0, <1>2, <2>1, <2>2, PoisonKept DEF Kept, Quiet, PoisonInv
<1> QED
  BY <1>3, <1>4

(* A record that is pushed was encoded into the buffer whose credit says   *)
(* so; the branch that raises the fault is never taken.                    *)
LEMMA CommitPushMoves ==
    ASSUME QueueInv, NEW t \in Threads, CommitPush(t)
    PROVE  (Kept(t) \/ Publishing(t)) /\ PoisonInv'
<1> DEFINE len == Size[scan[t].payload]
<1>0. ControlInv /\ PoisonInv /\ BuffersInv /\ pc[t] = "push" /\ RecordKnown(t)
  BY DEF QueueInv, CommitPush, At, PoisonInv
<1>1. lease[t] = None /\ held[t] # None /\ scan[t].payload # None
  BY <1>0 DEF ControlInv, ControlMatch, Dropping, Encoded
<1>2. UNCHANGED <<closed, leased, leases, poisoned, panicked>>
  BY DEF CommitPush
<1>3. CanPublish(held[t], len, MaxRecord) /\ ~closed
  BY <1>0, <1>1 DEF CanPublish, BuffersInv, PhasesAgree, RecordKnown
<1>4. held[t].bytes = scan[t].payload /\ held[t].bytes \in Payloads
  <2>1. scan[t] \in Scan
    BY <1>0 DEF ControlInv, TypeOK, LocalsTypeOK
  <2> QED
    BY <1>0, <1>1, <2>1 DEF RecordKnown, Scan
<1>5. CASE ~CanEnqueue(order)
  <2>1. Conclude(t, "Exhausted") /\ UNCHANGED <<cell, ready, order, fault>>
    BY <1>5 DEF CommitPush
  <2>2. /\ Others(t) /\ pc'[t] \in {"idle", "leave"} /\ held'[t] = held[t]
        /\ lease'[t] = None /\ (held[t] # None => at'[t] = at[t])
    BY <1>0, <1>1, <2>1, ConcludeIs
  <2> QED
    BY <1>0, <1>1, <1>2, <2>1, <2>2, PoisonStays DEF Kept, Quiet, Known
<1>6. CASE CanEnqueue(order)
  <2>1. /\ cell' = [cell EXCEPT ![at[t]] = PublishSlot(held[t], len)]
        /\ ready' = Append(ready, [slot |-> at[t], ticket |-> order.next])
        /\ order' = Enqueue(order)
        /\ Leave(t, None, "Accepted")
        /\ UNCHANGED fault
    BY <1>3, <1>6 DEF CommitPush
  <2>2. /\ Others(t) /\ pc'[t] = "leave" /\ held'[t] = None /\ lease'[t] = None
    BY <1>0, <2>1, LeaveIs
  <2>3. Publishing(t)
    BY <1>1, <1>2, <1>3, <1>4, <1>6, <2>1, <2>2 DEF Publishing
  <2> QED
    BY <1>0, <1>2, <2>1, <2>2, <2>3, PoisonStays DEF Known
<1> QED
  BY <1>5, <1>6

LEMMA LeaveSlotMoves ==
    ASSUME QueueInv, NEW t \in Threads, LeaveSlot(t)
    PROVE  (Kept(t) \/ Restoring(t)) /\ PoisonInv'
<1>0. ControlInv /\ PoisonInv /\ BuffersInv /\ pc[t] = "leave"
  BY DEF QueueInv, LeaveSlot, At
<1>1. lease[t] = None
  BY <1>0 DEF ControlInv, ControlMatch, Dropping
<1>2. UNCHANGED <<ready, order, closed, leased, leases, poisoned, panicked>>
  BY DEF LeaveSlot
<1>3. /\ Others(t) /\ pc'[t] = "idle" /\ held'[t] = None /\ lease'[t] = None
  BY <1>0, EnterIs DEF LeaveSlot, Finish
<1>4. CASE held[t] = None
  <2>1. UNCHANGED <<cell, fault>>
    BY <1>4 DEF LeaveSlot
  <2> QED
    BY <1>0, <1>1, <1>2, <1>3, <1>4, <2>1, NothingMoves, PoisonStays DEF Known
<1>5. CASE held[t] # None
  <2>1. CanCancel(held[t])
    BY <1>0, <1>5 DEF CanCancel, BuffersInv, PhasesAgree
  <2>2. cell' = Restored(t) /\ UNCHANGED fault
    BY <1>5, <2>1 DEF LeaveSlot
  <2> QED
    BY <1>0, <1>1, <1>2, <1>3, <1>5, <2>2, PoisonStays DEF Known, Restoring
<1> QED
  BY <1>4, <1>5

(* An operation begins without record, slot or lease. *)
LEMMA BeginMoves ==
    ASSUME QueueInv, NEW t \in Threads, At(t, "idle"), UNCHANGED shared,
           NEW l \in {"idle", "dequeue", "shutdown", "count"}, NEW o,
           Enter(t, l, NoScan, None, o)
    PROVE  Kept(t) /\ PoisonInv'
<1>0. ControlInv /\ PoisonInv
  BY DEF QueueInv
<1>1. held[t] = None /\ lease[t] = None
  BY <1>0 DEF At, ControlInv, ControlMatch, Encoded, Refusing, Dropping
<1>2. /\ Others(t) /\ pc'[t] = l /\ held'[t] = None /\ lease'[t] = None
  BY <1>0, EnterIs
<1>3. UNCHANGED <<cell, ready, order, closed, leased, leases, fault, poisoned, panicked>>
  BY DEF shared
<1> QED
  BY <1>0, <1>1, <1>2, <1>3, NothingMoves, PoisonStays DEF Known

LEMMA DequeueFrontMoves ==
    ASSUME QueueInv, NEW t \in Threads, DequeueFront(t)
    PROVE  Kept(t) /\ PoisonInv'
<1>0. ControlInv /\ PoisonInv /\ BuffersInv /\ pc[t] = "front"
  BY DEF QueueInv, DequeueFront, At
<1>1. held[t] = None /\ lease[t] = None
  BY <1>0 DEF ControlInv, ControlMatch, Encoded, Refusing, Dropping
<1>2. UNCHANGED <<cell, ready, order, closed, leased, leases, poisoned, panicked>>
  BY DEF DequeueFront
<1>3. CASE UNCHANGED fault /\ \E o : Finish(t, o)
  <2>1. /\ Others(t) /\ pc'[t] = "idle" /\ held'[t] = None /\ lease'[t] = None
    BY <1>0, <1>3, EnterIs DEF Finish
  <2> QED
    BY <1>0, <1>1, <1>2, <1>3, <2>1, NothingMoves, PoisonStays DEF Known
<1>4. CASE ready # <<>> /\ poisoned[Head(ready).slot] /\ Finish(t, "Poisoned")
  <2>1. /\ Others(t) /\ pc'[t] = "idle" /\ held'[t] = None /\ lease'[t] = None
    BY <1>0, <1>4, EnterIs DEF Finish
  <2>2. panicked
    BY <1>0, <1>4, HeadEntry DEF PoisonInv
  <2>3. RecordKnown(t)'
    BY <2>1 DEF RecordKnown
  <2>4. PoisonInv'
    BY <1>0, <1>2, <2>1, <2>2, <2>3, PoisonKept DEF PoisonInv
  <2> QED
    BY <1>1, <1>2, <2>1, <2>4, NothingMoves
<1>5. CASE /\ pc' = [pc EXCEPT ![t] = "take"]
           /\ at' = [at EXCEPT ![t] = Head(ready).slot]
           /\ UNCHANGED <<mutex, fault, scan, held, lease, result>>
  <2>1. /\ Others(t) /\ pc'[t] = "take" /\ held'[t] = None /\ lease'[t] = lease[t]
    BY <1>0, <1>1, <1>5 DEF ControlInv, TypeOK, LocalsTypeOK, Others
  <2> QED
    BY <1>0, <1>1, <1>2, <1>5, <2>1, NothingMoves, PoisonStays DEF Known
<1> QED
  BY <1>3, <1>4, <1>5 DEF DequeueFront

(* What is at the front can be leased: its faults are never raised. *)
LEMMA DequeueTakeMoves ==
    ASSUME QueueInv, NEW t \in Threads, DequeueTake(t)
    PROVE  Leasing(t) /\ PoisonInv'
<1>0. ControlInv /\ PoisonInv /\ BuffersInv /\ pc[t] = "take"
  BY DEF QueueInv, DequeueTake, At
<1>1. /\ held[t] = None /\ lease[t] = None
      /\ ready # <<>> /\ at[t] = Head(ready).slot
  BY <1>0 DEF ControlInv, ControlMatch, Encoded, Refusing, Dropping
<1>2. UNCHANGED <<closed, poisoned, panicked>>
  BY DEF DequeueTake
<1>3. /\ leased < Slots /\ cell[at[t]] # None
      /\ CanDequeue(order, Head(ready).ticket) /\ CanLease(cell[at[t]])
  BY <1>0, <1>1, HeadEntry
<1>4. /\ leases' = leases \union {Taken(t)}
      /\ cell' = [cell EXCEPT ![at[t]] = None]
      /\ order' = Dequeue(order)
      /\ ready' = Tail(ready)
      /\ leased' = leased + 1
      /\ Enter(t, "handover", NoScan, None, "Leased")
      /\ UNCHANGED fault
  BY <1>3 DEF DequeueTake, Taken
<1>5. /\ Others(t) /\ pc'[t] = "handover" /\ held'[t] = None /\ lease'[t] = None
  BY <1>0, <1>4, EnterIs
<1>6. Leasing(t)
  BY <1>1, <1>2, <1>4, <1>5 DEF Leasing
<1> QED
  BY <1>0, <1>2, <1>4, <1>5, <1>6, PoisonStays DEF Known

LEMMA DequeueReturnMoves ==
    ASSUME QueueInv, NEW t \in Threads, DequeueReturn(t)
    PROVE  Kept(t) /\ PoisonInv'
<1>0. ControlInv /\ PoisonInv /\ pc[t] = "handover"
  BY DEF QueueInv, DequeueReturn, At
<1>1. held[t] = None /\ lease[t] = None
  BY <1>0 DEF ControlInv, ControlMatch, Encoded, Refusing, Dropping
<1>2. /\ Others(t) /\ pc'[t] = "idle" /\ held'[t] = None /\ lease'[t] = None
  BY <1>0, EnterIs DEF DequeueReturn, Finish
<1>3. UNCHANGED <<cell, ready, order, closed, leased, leases, fault, poisoned, panicked>>
  BY DEF DequeueReturn
<1> QED
  BY <1>0, <1>1, <1>2, <1>3, NothingMoves, PoisonStays DEF Known

LEMMA DropBeginMoves ==
    ASSUME QueueInv, NEW t \in Threads, NEW dropped \in leases, DropBegin(t, dropped)
    PROVE  LettingGo(t, dropped) /\ PoisonInv'
<1>0. ControlInv /\ PoisonInv /\ pc[t] = "idle"
  BY DEF QueueInv, DropBegin, At
<1>1. held[t] = None /\ lease[t] = None
  BY <1>0 DEF ControlInv, ControlMatch, Encoded, Refusing, Dropping
<1>2. /\ Others(t) /\ pc'[t] = "dropSlot" /\ held'[t] = None /\ lease'[t] = dropped
  BY <1>0, EnterIs DEF DropBegin
<1>3. /\ UNCHANGED <<cell, ready, order, closed, leased, fault, poisoned, panicked>>
      /\ leases' = leases \ {dropped}
  BY DEF DropBegin
<1>4. LettingGo(t, dropped)
  BY <1>1, <1>2, <1>3 DEF LettingGo
<1> QED
  BY <1>0, <1>2, <1>3, <1>4, PoisonStays DEF Known

LEMMA DropLockSlotMoves ==
    ASSUME QueueInv, NEW t \in Threads, DropLockSlot(t)
    PROVE  Kept(t) /\ PoisonInv'
<1>0. ControlInv /\ PoisonInv /\ pc[t] = "dropSlot"
  BY DEF QueueInv, DropLockSlot, At
<1>1. held[t] = None
  BY <1>0 DEF ControlInv, ControlMatch, Encoded, Refusing
<1>2. /\ Others(t) /\ pc'[t] = "dropState" /\ held'[t] = None /\ lease'[t] = lease[t]
  BY <1>0, <1>1 DEF DropLockSlot, ControlInv, TypeOK, LocalsTypeOK, Others
<1>3. UNCHANGED <<cell, ready, order, closed, leased, leases, fault, poisoned, panicked>>
  BY DEF DropLockSlot
<1> QED
  BY <1>0, <1>1, <1>2, <1>3, NothingMoves, PoisonStays DEF Known

(* A blocking lock of the state mutex. *)
LEMMA WaitMoves ==
    ASSUME QueueInv, NEW t \in Threads, DropLockState(t) \/ CountLock(t)
    PROVE  Kept(t) /\ PoisonInv'
<1>0. ControlInv /\ PoisonInv
  BY DEF QueueInv
<1>1. \E l \in {"dropFinish", "countRead"} : Goto(t, l)
  BY DEF DropLockState, CountLock
<1>2. /\ Others(t) /\ pc'[t] \in {"dropFinish", "countRead"} /\ at'[t] = at[t]
      /\ held'[t] = held[t] /\ lease'[t] = lease[t]
  BY <1>0, <1>1, GotoIs
<1>3. UNCHANGED <<cell, ready, order, closed, leased, leases, fault, poisoned, panicked>>
  BY DEF DropLockState, CountLock
<1> QED
  BY <1>0, <1>2, <1>3, PoisonStays DEF Known, Kept, Quiet

(* A lease that ends finds its slot empty and itself counted. *)
LEMMA DropFinishMoves ==
    ASSUME QueueInv, NEW t \in Threads, DropFinish(t)
    PROVE  Releasing(t) /\ PoisonInv'
<1>0. ControlInv /\ PoisonInv /\ BuffersInv /\ pc[t] = "dropFinish"
  BY DEF QueueInv, DropFinish, At
<1>1. held[t] = None /\ lease[t] # None /\ at[t] = lease[t].slot
  BY <1>0 DEF ControlInv, ControlMatch, Encoded, Refusing, Dropping
<1>2. lease[t] \in LiveLeases /\ lease[t].slot \in LentSlots
  BY <1>1 DEF LiveLeases, LentSlots
<1>3. cell[at[t]] = None /\ CanRelease(lease[t].buffer)
  <2>1. lease[t].slot \in SlotIds
    BY <1>0, <1>2, Typed
  <2> QED
    BY <1>0, <1>1, <1>2, <2>1 DEF CanRelease, BuffersInv, PlacesDistinct, PhasesAgree
<1>4. leased # 0
  <2>1. leased = Cardinality(LentSlots) /\ LentSlots # {}
    BY <1>0, <1>2 DEF BuffersInv, PlacesDistinct
  <2> QED
    BY <1>0, <2>1, LentFinite, FS_EmptySet
<1>5. /\ leased' = leased - 1
      /\ cell' = [cell EXCEPT ![at[t]] = ReleaseSlot(lease[t].buffer)]
      /\ UNCHANGED fault
  BY <1>3, <1>4 DEF DropFinish
<1>6. /\ Others(t) /\ pc'[t] = "leave" /\ held'[t] = None /\ lease'[t] = None
  BY <1>0, LeaveIs DEF DropFinish
<1>7. UNCHANGED <<ready, order, closed, leases, poisoned, panicked>>
  BY DEF DropFinish
<1>8. Releasing(t)
  BY <1>1, <1>5, <1>6, <1>7 DEF Releasing
<1> QED
  BY <1>0, <1>5, <1>6, <1>7, <1>8, PoisonStays DEF Known

LEMMA ShutdownCloseMoves ==
    ASSUME QueueInv, NEW t \in Threads, ShutdownClose(t)
    PROVE  Quiet(t) /\ closed' \in {closed, TRUE} /\ PoisonInv'
<1>0. ControlInv /\ PoisonInv /\ pc[t] = "close"
  BY DEF QueueInv, ShutdownClose, At
<1>1. held[t] = None /\ lease[t] = None /\ mutex = t
  BY <1>0 DEF ControlInv, ControlMatch, Encoded, Refusing, Dropping, InState
<1>2. closed' \in {closed, TRUE} /\ \E o : Enter(t, "idle", NoScan, None, o)
  BY DEF ShutdownClose, Finish
<1>3. /\ Others(t) /\ pc'[t] = "idle" /\ held'[t] = None /\ lease'[t] = None
  BY <1>0, <1>2, EnterIs
<1>4. UNCHANGED <<cell, ready, order, leased, leases, fault, poisoned, panicked>>
  BY DEF ShutdownClose
<1>5. Quiet(t)
  BY <1>1, <1>3, <1>4 DEF Quiet
<1> QED
  BY <1>0, <1>1, <1>2, <1>3, <1>4, <1>5, PoisonStays DEF Known

LEMMA CountReadMoves ==
    ASSUME QueueInv, NEW t \in Threads, CountRead(t)
    PROVE  Kept(t) /\ PoisonInv'
<1>0. ControlInv /\ PoisonInv /\ pc[t] = "countRead"
  BY DEF QueueInv, CountRead, At
<1>1. held[t] = None /\ lease[t] = None
  BY <1>0 DEF ControlInv, ControlMatch, Encoded, Refusing, Dropping
<1>2. /\ Others(t) /\ pc'[t] = "idle" /\ held'[t] = None /\ lease'[t] = None
  BY <1>0, EnterIs DEF CountRead, Finish
<1>3. UNCHANGED <<cell, ready, order, closed, leased, leases, fault, poisoned, panicked>>
  BY DEF CountRead
<1> QED
  BY <1>0, <1>1, <1>2, <1>3, NothingMoves, PoisonStays DEF Known

-----------------------------------------------------------------------------
(* Every step is one of the moves. *)

Moves(t) ==
    \/ Quiet(t) /\ closed' \in {closed, TRUE}
    \/ Reserving(t) /\ at[t] \in SlotIds
    \/ Restoring(t)
    \/ Publishing(t)
    \/ Leasing(t)
    \/ \E dropped \in leases : LettingGo(t, dropped)
    \/ Releasing(t)

LEMMA StepMoves ==
    ASSUME QueueInv, NEW t \in Threads, Step(t)
    PROVE  Moves(t) /\ PoisonInv'
<1>1. CASE ProbeSlot(t)
  BY <1>1, ProbeSlotMoves DEF Kept, Moves
<1>2. CASE InspectSlot(t)
  BY <1>2, InspectSlotMoves DEF Kept, Moves
<1>3. CASE Encode(t)
  BY <1>3, EncodeMoves DEF Kept, Moves
<1>4. CASE PanicRestore(t)
  BY <1>4, PanicRestoreMoves DEF Moves
<1>5. CASE PanicUnlock(t)
  BY <1>5, PanicUnlockMoves DEF Kept, Moves
<1>6. CASE RejectLock(t) \/ CommitLock(t) \/ DequeueLock(t) \/ ShutdownLock(t)
  <2>1. \E l, inside :
          /\ TryState(t, l, inside)
          /\ <<l, inside>> \in
               {<<"reject", "decide">>, <<"commit", "check">>,
                <<"dequeue", "front">>, <<"shutdown", "close">>}
    BY <1>6, Zenon DEF RejectLock, CommitLock, DequeueLock, ShutdownLock
  <2>2. Kept(t) /\ PoisonInv'
    BY <2>1, TryStateMoves
  <2> QED
    BY <2>2 DEF Kept, Moves
<1>7. CASE RejectDecide(t)
  BY <1>7, RejectDecideMoves DEF Kept, Moves
<1>8. CASE CommitCheck(t)
  BY <1>8, CommitCheckMoves DEF Kept, Moves
<1>9. CASE CommitPush(t)
  BY <1>9, CommitPushMoves DEF Kept, Moves
<1>10. CASE DequeueFront(t)
  BY <1>10, DequeueFrontMoves DEF Kept, Moves
<1>11. CASE DequeueTake(t)
  BY <1>11, DequeueTakeMoves DEF Moves
<1>12. CASE DequeueReturn(t)
  BY <1>12, DequeueReturnMoves DEF Kept, Moves
<1>13. CASE DropLockSlot(t)
  BY <1>13, DropLockSlotMoves DEF Kept, Moves
<1>14. CASE DropLockState(t) \/ CountLock(t)
  BY <1>14, WaitMoves DEF Kept, Moves
<1>15. CASE DropFinish(t)
  BY <1>15, DropFinishMoves DEF Moves
<1>16. CASE ShutdownClose(t)
  BY <1>16, ShutdownCloseMoves DEF Moves
<1>17. CASE CountRead(t)
  BY <1>17, CountReadMoves DEF Kept, Moves
<1>18. CASE LeaveSlot(t)
  BY <1>18, LeaveSlotMoves DEF Kept, Moves
<1> QED
  BY <1>1, <1>2, <1>3, <1>4, <1>5, <1>6, <1>7, <1>8, <1>9, <1>10, <1>11, <1>12,
     <1>13, <1>14, <1>15, <1>16, <1>17, <1>18
     DEF Step, Record, TryDequeue, DropLease, Control

LEMMA CallMoves ==
    ASSUME QueueInv, Call
    PROVE  PoisonInv' /\ \E t \in Threads : Moves(t)
<1>1. ASSUME NEW t \in Recorders, NEW payload \in Payloads, RecordBegin(t, payload)
      PROVE  PoisonInv' /\ \E u \in Threads : Moves(u)
  BY <1>1, RecordBeginMoves DEF Kept, Moves, Threads
<1>2. ASSUME NEW t \in Drainers, DequeueBegin(t)
      PROVE  PoisonInv' /\ \E u \in Threads : Moves(u)
  <2>1. t \in Threads /\ Kept(t) /\ PoisonInv'
    BY <1>2, BeginMoves DEF DequeueBegin, Begin, Finish, Threads
  <2> QED
    BY <2>1 DEF Kept, Moves
<1>3. ASSUME NEW t \in Drainers, NEW dropped \in leases, DropBegin(t, dropped)
      PROVE  PoisonInv' /\ \E u \in Threads : Moves(u)
  BY <1>3, DropBeginMoves DEF Moves, Threads
<1>4. ASSUME NEW t \in Controllers, ShutdownBegin(t) \/ CountBegin(t)
      PROVE  PoisonInv' /\ \E u \in Threads : Moves(u)
  <2>1. t \in Threads /\ Kept(t) /\ PoisonInv'
    BY <1>4, BeginMoves DEF ShutdownBegin, CountBegin, Begin, Threads
  <2> QED
    BY <2>1 DEF Kept, Moves
<1> QED
  BY <1>1, <1>2, <1>3, <1>4 DEF Call

LEMMA NextMoves ==
    ASSUME QueueInv, Next
    PROVE  PoisonInv' /\ \E t \in Threads : Moves(t)
BY StepMoves, CallMoves DEF Next

LEMMA MovesKeep ==
    ASSUME ControlInv, BuffersInv, NEW t \in Threads, Moves(t)
    PROVE  BuffersInv'
BY QuietKeeps, ReservingKeeps, RestoringKeeps, PublishingKeeps, LeasingKeeps,
   LettingGoKeeps, ReleasingKeeps DEF Moves

LEMMA StutterQueue == QueueInv /\ UNCHANGED vars => BuffersInv' /\ PoisonInv'
BY DEF QueueInv, BuffersInv, PlacesDistinct, LeasesUnique, PhasesAgree,
       TicketsContiguous, LiveLeases, LentSlots, ReadySlots, Reserves, PoisonInv,
       RecordKnown, vars, shared, locals

LEMMA NextQueue == QueueInv /\ [Next]_vars => QueueInv'
<1> SUFFICES ASSUME QueueInv, [Next]_vars PROVE QueueInv'
  OBVIOUS
<1>1. ControlInv /\ BuffersInv /\ ControlInv'
  BY NextControl DEF QueueInv
<1>2. CASE Next
  BY <1>1, <1>2, NextMoves, MovesKeep DEF QueueInv
<1>3. CASE UNCHANGED vars
  BY <1>1, <1>3, StutterQueue DEF QueueInv
<1> QED
  BY <1>2, <1>3

(* QueueInv is an invariant of the specification. *)
THEOREM QueueSafe == Spec => []QueueInv
BY InitQueue, NextQueue, PTL DEF Spec

(* QueueInOrder: in every interleaving every buffer is in one place, the   *)
(* two counts that try_record trusts for Full are exact, and the ready     *)
(* entries carry the tickets that try_dequeue will present.                *)
THEOREM QueueKept == Spec => []QueueInOrder
<1>1. QueueInv => QueueInOrder
  <2> SUFFICES ASSUME QueueInv PROVE QueueInOrder
    OBVIOUS
  <2>1. ControlInv /\ BuffersInv
    BY DEF QueueInv
  <2>2. \A t \in Threads, i \in SlotIds : Reserves(t, i) => owner[i] = t
    BY <2>1 DEF ControlInv, ControlMatch, Reserves
  <2>3. OnePlace
    BY <2>1, <2>2 DEF BuffersInv, PlacesDistinct, OnePlace
  <2>4. Len(ready) = Cardinality(ReadySlots) /\ leased = Cardinality(LentSlots)
    BY <2>1, ChargedSlots DEF BuffersInv, PlacesDistinct
  <2> QED
    BY <2>1, <2>3, <2>4 DEF QueueInOrder, SlotAccounting, BuffersInv
<1> QED
  BY <1>1, QueueSafe, PTL

(* OnlyPanicsPoison: the branches that raise the fault for inconsistent    *)
(* bookkeeping are dead, for every number of slots and threads.            *)
THEOREM OnlyPanics == Spec => []OnlyPanicsPoison
<1>1. QueueInv => OnlyPanicsPoison
  BY DEF QueueInv, PoisonInv, OnlyPanicsPoison
<1> QED
  BY <1>1, QueueSafe, PTL

-----------------------------------------------------------------------------
(* What a refusal for Full says. *)

LEMMA OnlyTheCaller ==
    ASSUME QueueInv, Next, NEW t \in Threads, At(t, "decide"), ~At(t, "decide")'
    PROVE  RejectDecide(t)
<1>0. ControlInv /\ pc \in [Threads -> Labels] /\ pc[t] = "decide" /\ pc'[t] # "decide"
  BY DEF QueueInv, ControlInv, TypeOK, LocalsTypeOK, At
<1>1. ~Call
  <2>1. ASSUME Call
        PROVE  \E u \in Threads : pc[u] = "idle" /\ \E l : pc' = [pc EXCEPT ![u] = l]
    <3>1. ASSUME NEW u \in Recorders, NEW payload \in Payloads, RecordBegin(u, payload)
          PROVE  pc[u] = "idle" /\ \E l : pc' = [pc EXCEPT ![u] = l]
      BY <3>1 DEF RecordBegin, Finish, Enter, At
    <3>2. ASSUME NEW u \in Drainers, DequeueBegin(u)
          PROVE  pc[u] = "idle" /\ \E l : pc' = [pc EXCEPT ![u] = l]
      BY <3>2 DEF DequeueBegin, Begin, Finish, Enter, At
    <3>3. ASSUME NEW u \in Drainers, NEW dropped \in leases, DropBegin(u, dropped)
          PROVE  pc[u] = "idle" /\ \E l : pc' = [pc EXCEPT ![u] = l]
      BY <3>3 DEF DropBegin, Enter, At
    <3>4. ASSUME NEW u \in Controllers, ShutdownBegin(u) \/ CountBegin(u)
          PROVE  pc[u] = "idle" /\ \E l : pc' = [pc EXCEPT ![u] = l]
      BY <3>4 DEF ShutdownBegin, CountBegin, Begin, Enter, At
    <3> QED
      BY <2>1, <3>1, <3>2, <3>3, <3>4 DEF Call, Threads
  <2> QED
    BY <1>0, <2>1
<1>2. PICK u \in Threads : Step(u)
  BY <1>1 DEF Next
<1>3. Others(u)
  BY <1>2, StepMoves DEF Moves, Quiet, Reserving, Restoring, Publishing, Leasing,
                         LettingGo, Releasing
<1>4. u = t
  BY <1>0, <1>3 DEF Others
<1> QED
  BY <1>0, <1>2, <1>4
     DEF Step, Record, TryDequeue, DropLease, Control, At, ProbeSlot, InspectSlot, Encode,
         PanicRestore, PanicUnlock, RejectLock, CommitLock, DequeueLock, ShutdownLock,
         TryState, CommitCheck, CommitPush, DequeueFront, DequeueTake, DequeueReturn,
         DropLockSlot, DropLockState, DropFinish, ShutdownClose, CountLock, CountRead,
         LeaveSlot

(* FullIsExact: a caller is told Full only at an instant at which every    *)
(* slot holds an admitted record or is lent, whatever its scan saw.        *)
THEOREM FullIsTrue == Spec => FullIsExact
<1>1. ASSUME QueueInv, Next, NEW t \in Threads, At(t, "decide"), ~At(t, "decide")',
             result'[t] = "Full"
      PROVE  \A i \in SlotIds : i \in ReadySlots \union LentSlots
  <2>1. RejectDecide(t)
    BY <1>1, OnlyTheCaller
  <2>2. ControlInv /\ BuffersInv /\ result \in [Threads -> Outcomes \union {None}]
    BY <1>1 DEF QueueInv, ControlInv, TypeOK, LocalsTypeOK
  <2>3. \A o : Conclude(t, o) => result'[t] = o
    BY <2>2 DEF Conclude, Finish, Enter, Leave
  <2>4. Charged = Slots
    BY <1>1, <2>1, <2>3 DEF RejectDecide
  <2> QED
    BY <2>2, <2>4, ChargedSlots
<1>2. ASSUME QueueInv, [Next]_vars
      PROVE  [\A t \in Threads :
                At(t, "decide") /\ ~At(t, "decide")' /\ result'[t] = "Full" =>
                  \A i \in SlotIds : i \in ReadySlots \union LentSlots]_vars
  <2>1. CASE Next
    BY <1>1, <1>2, <2>1
  <2>2. CASE UNCHANGED vars
    BY <2>2
  <2> QED
    BY <1>2, <2>1, <2>2
<1> QED
  BY <1>2, QueueSafe, PTL DEF Spec, FullIsExact

-----------------------------------------------------------------------------
(* The moves are steps of the bounded Fifo, or none. *)

Entries == [k \in DOMAIN ready |-> Contents(ready[k])]
Leased == {[ticket |-> live.ticket, payload |-> live.buffer.bytes] : live \in LiveLeases}

(* Cells outside the ready slots do not show. *)
LEMMA EntriesStay ==
    ASSUME ControlInv, ready' = ready,
           \A i \in ReadySlots : cell'[i] = cell[i]
    PROVE  Entries' = Entries
<1>1. \A k \in DOMAIN ready : Contents(ready[k])' = Contents(ready[k])
  BY DEF Contents, ReadySlots
<1> QED
  BY <1>1 DEF Entries

LEMMA ShownStays ==
    ASSUME ControlInv, BuffersInv, NEW t \in Threads,
           \/ Quiet(t) /\ closed' = closed
           \/ Reserving(t) /\ at[t] \in SlotIds
           \/ Restoring(t)
           \/ \E dropped \in leases : LettingGo(t, dropped)
    PROVE  UNCHANGED <<Entries, Leased, order.next, closed>>
<1>1. LiveLeases' = LiveLeases
  BY QuietKeeps, ReservingKeeps, RestoringKeeps, LettingGoKeeps
<1>2. Leased' = Leased
  BY <1>1 DEF Leased
<1>3. order' = order /\ ready' = ready /\ closed' = closed
  BY DEF Quiet, Reserving, Restoring, LettingGo
<1>4. \A i \in ReadySlots : cell'[i] = cell[i]
  <2>1. \A i \in ReadySlots : cell[i] # None /\ cell[i].phase = "Ready" /\ i \in SlotIds
    BY Typed DEF BuffersInv, PhasesAgree
  <2>2. CASE cell' = cell
    BY <2>2
  <2>3. CASE Reserving(t)
    <3>1. cell[at[t]].phase = "Free" /\ cell' = [cell EXCEPT ![at[t]] = None]
      BY <2>3 DEF Reserving, CanReserve
    <3> QED
      BY <2>1, <3>1, Typed
  <2>4. CASE Restoring(t)
    <3>1. at[t] \in SlotIds /\ cell[at[t]] = None
      BY <2>4, ReservesOne DEF Restoring, BuffersInv, PlacesDistinct
    <3>2. cell' = [cell EXCEPT ![at[t]] = CancelSlot(held[t])]
      BY <2>4 DEF Restoring, Restored
    <3> QED
      BY <2>1, <3>1, <3>2, Typed
  <2> QED
    BY <2>2, <2>3, <2>4 DEF Quiet, LettingGo
<1> QED
  BY <1>2, <1>3, <1>4, EntriesStay

LEMMA CloseShown ==
    ASSUME ControlInv, BuffersInv, NEW t \in Threads, Quiet(t), closed' \in {closed, TRUE}
    PROVE  \/ UNCHANGED <<Entries, Leased, order.next, closed>>
           \/ Fifo!Close
<1>1. UNCHANGED <<ready, cell, order>> /\ LiveLeases' = LiveLeases
  BY QuietKeeps DEF Quiet
<1>2. UNCHANGED <<Entries, Leased, order.next>>
  BY <1>1, EntriesStay DEF Leased
<1> QED
  BY <1>2 DEF Fifo!Close, Entries, Leased

(* No more records are lent than slots. *)
LEMMA LeasedCount ==
    ASSUME ControlInv, BuffersInv
    PROVE  IsFiniteSet(Leased) /\ Cardinality(Leased) <= leased /\ Cardinality(Leased) \in Nat
<1> DEFINE Holder(i) == CHOOSE live \in LiveLeases : live.slot = i
           g == [i \in LentSlots |-> [ticket |-> Holder(i).ticket,
                                      payload |-> Holder(i).buffer.bytes]]
<1>1. \A live \in LiveLeases : live.slot \in LentSlots /\ Holder(live.slot) = live
  BY DEF BuffersInv, LeasesUnique, LentSlots
<1>2. \A i \in LentSlots : Holder(i) \in LiveLeases
  BY DEF LentSlots
<1>3. g \in Surjection(LentSlots, Leased)
  <2>1. \A i \in LentSlots : g[i] \in Leased
    BY <1>2 DEF Leased
  <2>2. \A live \in LiveLeases :
          g[live.slot] = [ticket |-> live.ticket, payload |-> live.buffer.bytes]
    BY <1>1
  <2>3. \A seen \in Leased : \E i \in LentSlots : g[i] = seen
    <3> TAKE seen \in Leased
    <3>1. PICK live \in LiveLeases :
            seen = [ticket |-> live.ticket, payload |-> live.buffer.bytes]
      BY DEF Leased
    <3>2. live.slot \in LentSlots /\ g[live.slot] = seen
      BY <1>1, <2>2, <3>1
    <3> QED
      BY <3>2
  <2> QED
    BY <2>1, <2>3 DEF Surjection
<1>4. IsFiniteSet(LentSlots) /\ leased = Cardinality(LentSlots)
  BY LentFinite DEF BuffersInv, PlacesDistinct
<1> QED
  BY <1>3, <1>4, FS_Surjection, FS_CardinalityType

(* The Fifo counts as this module does. *)
LEMMA FifoCounts == \A S : Fifo!Cardinality(S) = Cardinality(S)
BY DEF Fifo!Cardinality, Cardinality

LEMMA PublishShown ==
    ASSUME ControlInv, BuffersInv, NEW t \in Threads, Publishing(t)
    PROVE  Fifo!Admit(held[t].bytes)
<1> DEFINE e == [slot |-> at[t], ticket |-> order.next]
<1>1. /\ ~closed /\ closed' = closed /\ CanEnqueue(order)
      /\ order' = Enqueue(order) /\ ready' = Append(ready, e)
      /\ LiveLeases' = LiveLeases
      /\ cell' = [cell EXCEPT ![at[t]] = PublishSlot(held[t], Size[held[t].bytes])]
  BY PublishingKeeps DEF Publishing
<1>2. /\ at[t] \in SlotIds /\ at[t] \notin LentSlots /\ at[t] \notin ReadySlots
      /\ held[t] \in Buffer
  BY ReservesOne DEF Publishing, BuffersInv, PlacesDistinct, PhasesAgree
<1>3. order.next < U64Max
  <2>1. order.next \in 0 .. U64Max /\ order.next # U64Max
    BY <1>1 DEF CanEnqueue, ControlInv, TypeOK, SharedTypeOK
  <2> QED
    BY <2>1, U64Assumption
<1>4. Len(Entries) = Len(ready)
  BY Typed DEF Entries
<1>5. Len(Entries) + Cardinality(Leased) < Slots
  <2>1. Charged = Cardinality(ReadySlots \union LentSlots)
        /\ ReadySlots \union LentSlots \in SUBSET SlotIds
    BY ChargedSlots, Typed
  <2>2. ReadySlots \union LentSlots # SlotIds
    BY <1>2
  <2>3. Charged <= Slots /\ Charged # Slots
    BY <2>1, <2>2, ChargedSlots
  <2>4. leased \in Nat /\ Slots \in Nat /\ Len(ready) \in Nat
    BY Typed, QueueAssumption DEF ControlInv, TypeOK, SharedTypeOK
  <2> QED
    BY <1>4, <2>3, <2>4, LeasedCount DEF Charged
<1>6. order'.next = order.next + 1
  BY <1>1, Typed DEF Enqueue
<1>7. Entries' = Append(Entries, [ticket |-> order.next, payload |-> held[t].bytes])
  <2>0. PICK n \in Nat : n = Len(ready)
    BY Typed
  <2>1. ready \in Seq([slot : SlotIds, ticket : Nat]) /\ e \in [slot : SlotIds, ticket : Nat]
        /\ DOMAIN ready = 1 .. n
    BY <1>2, <2>0, Typed
  <2>2. /\ DOMAIN ready' = 1 .. n + 1
        /\ \A k \in DOMAIN ready : ready'[k] = ready[k]
        /\ ready'[n + 1] = e
    BY <1>1, <2>0, <2>1
  <2>3. \A k \in DOMAIN ready : cell'[ready[k].slot] = cell[ready[k].slot]
    BY <1>1, <1>2, Typed DEF ReadySlots
  <2>4. cell'[at[t]].bytes = held[t].bytes
    BY <1>1, <1>2, Typed DEF PublishSlot, Buffer
  <2>5. \A k \in DOMAIN ready : Contents(ready[k])' = Contents(ready[k])
    BY <2>2, <2>3 DEF Contents
  <2>6. Contents(ready[n + 1])' = [ticket |-> order.next, payload |-> held[t].bytes]
    BY <2>2, <2>4 DEF Contents
  <2> DEFINE new == Append(Entries, [ticket |-> order.next, payload |-> held[t].bytes])
  <2>7. /\ DOMAIN new = 1 .. n + 1
        /\ \A k \in DOMAIN ready : new[k] = Contents(ready[k])
        /\ new[n + 1] = [ticket |-> order.next, payload |-> held[t].bytes]
        /\ new = [k \in 1 .. n + 1 |-> new[k]]
    BY <2>0, <2>1 DEF Entries
  <2>8. Entries' = [k \in 1 .. n + 1 |-> Contents(ready[k])']
    BY <2>2 DEF Entries
  <2>9. \A k \in 1 .. n + 1 : Contents(ready[k])' = new[k]
    <3>1. \A k \in 1 .. n + 1 : k \in DOMAIN ready \/ k = n + 1
      BY <2>1
    <3> QED
      BY <2>5, <2>6, <2>7, <3>1
  <2> QED
    BY <2>7, <2>8, <2>9
<1>8. Leased' = Leased
  BY <1>1 DEF Leased
<1> QED
  <2>1. /\ ~closed /\ order.next < U64Max
        /\ Len(Entries) + Cardinality(Leased) < Slots
        /\ Entries' = Append(Entries, [ticket |-> order.next, payload |-> held[t].bytes])
        /\ order'.next = order.next + 1
        /\ Leased' = Leased /\ closed' = closed
    BY <1>1, <1>3, <1>5, <1>6, <1>7, <1>8
  <2> QED
    BY <2>1, FifoCounts DEF Fifo!Admit, Entries, Leased

LEMMA LeaseShown ==
    ASSUME ControlInv, BuffersInv, NEW t \in Threads, Leasing(t)
    PROVE  Fifo!LeaseFirst
<1> DEFINE i == at[t]
<1>1. /\ ready # <<>> /\ i = Head(ready).slot /\ ready' = Tail(ready)
      /\ order' = Dequeue(order) /\ closed' = closed
      /\ cell' = [cell EXCEPT ![i] = None]
      /\ LiveLeases' = LiveLeases \union {Taken(t)}
  BY LeasingKeeps DEF Leasing
<1>2. /\ i \in SlotIds /\ cell[i] \in Buffer
  BY <1>1, HeadEntry
<1>3. /\ ready \in Seq([slot : SlotIds, ticket : Nat])
      /\ DOMAIN ready = 1 .. Len(ready) /\ Len(ready) \in Nat \ {0}
      /\ Head(ready) = ready[1]
  BY <1>1, Typed, EmptySeq
<1>4. Entries # <<>> /\ Head(Entries) = Contents(ready[1]) /\ Len(Entries) = Len(ready)
  BY <1>3 DEF Entries
<1>5. Entries' = Tail(Entries)
  <2>1. /\ DOMAIN ready' = 1 .. Len(ready) - 1
        /\ \A k \in 1 .. Len(ready) - 1 : ready'[k] = ready[k + 1]
    BY <1>1, <1>3
  <2>2. \A k \in 1 .. Len(ready) - 1 : ready[k + 1].slot # i /\ ready[k + 1].slot \in SlotIds
    <3> TAKE k \in 1 .. Len(ready) - 1
    <3>1. k + 1 \in DOMAIN ready /\ k + 1 # 1 /\ 1 \in DOMAIN ready
      BY <1>3
    <3>2. ready[k + 1].slot = ready[1].slot => k + 1 = 1
      BY <3>1 DEF BuffersInv, PlacesDistinct
    <3>3. ready[k + 1].slot \in SlotIds
      BY <3>1, Typed
    <3> QED
      BY <1>1, <1>3, <3>1, <3>2, <3>3
  <2>3. \A k \in 1 .. Len(ready) - 1 : Contents(ready[k])' = Contents(ready[k + 1])
    BY <1>1, <2>1, <2>2, Typed DEF Contents
  <2>4. Tail(Entries) = [k \in 1 .. Len(ready) - 1 |-> Contents(ready[k + 1])]
    BY <1>3 DEF Entries
  <2> QED
    BY <2>1, <2>3, <2>4 DEF Entries
<1>6. Leased' = Leased \union {Head(Entries)}
  <2>1. Taken(t).ticket = ready[1].ticket /\ Taken(t).buffer.bytes = cell[i].bytes
    BY <1>2, <1>3 DEF Taken, LeaseSlot, Buffer
  <2>2. Head(Entries) = [ticket |-> Taken(t).ticket, payload |-> Taken(t).buffer.bytes]
    BY <1>1, <1>3, <1>4, <2>1 DEF Contents
  <2> QED
    BY <1>1, <2>2 DEF Leased
<1>7. order'.next = order.next
  BY <1>1, Typed DEF Dequeue
<1> QED
  BY <1>1, <1>4, <1>5, <1>6, <1>7 DEF Fifo!LeaseFirst, Entries, Leased

LEMMA ReleaseShown ==
    ASSUME ControlInv, BuffersInv, NEW t \in Threads, Releasing(t)
    PROVE  \E record \in Leased : Fifo!Return(record)
<1> DEFINE old == lease[t]
           record == [ticket |-> old.ticket, payload |-> old.buffer.bytes]
<1>1. /\ ready' = ready /\ order' = order /\ closed' = closed
      /\ cell' = [cell EXCEPT ![old.slot] = ReleaseSlot(old.buffer)]
      /\ old \in LiveLeases /\ LiveLeases' = LiveLeases \ {old}
  BY ReleasingKeeps DEF Releasing
<1>2. PICK rec \in Leased : rec = record
  BY <1>1 DEF Leased
<1>3. \A live \in LiveLeases : live.ticket = old.ticket => live = old
  BY <1>1 DEF BuffersInv, PlacesDistinct
<1>4. Leased' = Leased \ {record}
  BY <1>1, <1>3 DEF Leased
<1>5. old.slot \in SlotIds /\ old.slot \in LentSlots /\ old.slot \notin ReadySlots
  BY <1>1, Typed DEF LentSlots, BuffersInv, PlacesDistinct, PhasesAgree
<1>6. Entries' = Entries
  BY <1>1, <1>5, Typed, EntriesStay
<1>7. Fifo!Return(rec)
  BY <1>1, <1>2, <1>4, <1>6 DEF Fifo!Return, Entries, Leased
<1> QED
  BY <1>7

LEMMA MovesShown ==
    ASSUME ControlInv, BuffersInv, NEW t \in Threads, Moves(t)
    PROVE  [Fifo!FifoNext]_(Fifo!fifoVars)
<1>1. CASE UNCHANGED <<Entries, Leased, order.next, closed>>
  BY <1>1 DEF Fifo!fifoVars, Entries, Leased
<1>2. CASE Fifo!Close
  BY <1>2 DEF Fifo!FifoNext
<1>3. CASE Publishing(t)
  <2>1. held[t].bytes \in Payloads
    BY <1>3 DEF Publishing
  <2> QED
    BY <1>3, <2>1, PublishShown DEF Fifo!FifoNext
<1>4. CASE Leasing(t)
  BY <1>4, LeaseShown DEF Fifo!FifoNext
<1>5. CASE Releasing(t)
  BY <1>5, ReleaseShown DEF Fifo!FifoNext, Leased
<1> QED
  BY <1>1, <1>2, <1>3, <1>4, <1>5, CloseShown, ShownStays DEF Moves

LEMMA InitShown == Init => Fifo!FifoInit
<1> SUFFICES ASSUME Init PROVE Fifo!FifoInit
  OBVIOUS
<1>1. LiveLeases = {} /\ DOMAIN ready = {} /\ order.next = 0 /\ closed = FALSE
  BY DEF Init, LiveLeases, EmptyFifo
<1>2. Entries = <<>> /\ Leased = {}
  BY <1>1 DEF Entries, Leased
<1> QED
  BY <1>1, <1>2 DEF Fifo!FifoInit, Entries, Leased

(* ImplementsBoundedFifo: whatever the scans, locks and unwinding encoders *)
(* do, callers see records come out once each, in commit order and with    *)
(* the contents they were admitted with, at most Slots of them charged and *)
(* none admitted after shutdown.                                           *)
THEOREM QueueIsFifo == Spec => ImplementsBoundedFifo
<1>1. ASSUME QueueInv, [Next]_vars PROVE [Fifo!FifoNext]_(Fifo!fifoVars)
  <2>1. ControlInv /\ BuffersInv
    BY <1>1 DEF QueueInv
  <2>2. CASE Next
    BY <1>1, <2>1, <2>2, NextMoves, MovesShown
  <2>3. CASE UNCHANGED vars
    BY <2>3 DEF vars, shared, locals, Fifo!fifoVars, Contents, LiveLeases
  <2> QED
    BY <1>1, <2>2, <2>3
<1> QED
  BY <1>1, InitShown, QueueSafe, PTL DEF Spec, ImplementsBoundedFifo, Fifo!FifoSpec
=============================================================================
