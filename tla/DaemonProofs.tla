---------------------------- MODULE DaemonProofs ----------------------------
(***************************************************************************)
(* Proofs about the parts of a daemon apart from its sources.  SocketOwner,*)
(* for any number of processes, deaths, failures and left-over files: with *)
(* one storage, whose lock tells the processes apart, a daemon that runs   *)
(* keeps its socket.  StoreCreation, for any number of processes: what is  *)
(* stored is stored privately, and a receipt outlives a loss of power.     *)
(* SpindleServer, for any clients, requests, limit, sources and counter:   *)
(* replies are earned, health counts what is stored, each connection is    *)
(* served once a tick, and a daemon told to stop takes on nothing more.    *)
(***************************************************************************)
EXTENDS MCDaemon, Sequences, FiniteSetTheorems, TLAPS

Inactive == {"down", "close"}
Unbound == {"down", "look", "probe", "remove", "bind"}
Bound == {"listen", "identify", "running", "check", "unlink"}

(* No file has two owners. *)
Distinct == \A p, q \in Processes : mine[p] # 0 /\ mine[p] = mine[q] => p = q

(* From bind to unlink the path names the file of the one that bound it,   *)
(* and from listen on somebody listens.                                    *)
Owned ==
    \A p \in Processes :
        /\ stage[p] \in Unbound => mine[p] = 0
        /\ stage[p] \in Bound => mine[p] # 0 /\ path = mine[p]
        /\ stage[p] \in Bound \ {"listen"} => path \in listening

Inv == SocketTypeOK /\ Distinct /\ Owned /\ KnowsItsOwn

Steps(p) == Step(p) \/ OpenFails(p) \/ Stop(p) \/ Die(p)

-----------------------------------------------------------------------------
(* The first use of a storage is the only one (SocketTypeOK). *)
LEMMA Alone ==
  ASSUME SocketTypeOK, \A p, q \in Processes : Storage[p] = Storage[q],
         NEW p \in Processes, NEW q \in Processes,
         stage[p] \notin Inactive, stage[q] \notin Inactive
  PROVE  p = q
<1>1. locked[Storage[p]] = p /\ locked[Storage[q]] = q
  BY DEF SocketTypeOK, Inactive
<1> QED
  BY <1>1

LEMMA InitInv == SocketInit => Inv
<1> SUFFICES ASSUME SocketInit PROVE Inv
  OBVIOUS
<1>1. SocketTypeOK
  BY SocketAssumption DEF SocketInit, SocketTypeOK, Stages, Storages
<1>2. Distinct /\ Owned /\ KnowsItsOwn
  BY DEF SocketInit, Distinct, Owned, KnowsItsOwn, Unbound, Bound
<1> QED
  BY <1>1, <1>2 DEF Inv

(* Who has the lock, when it is taken, kept, and dropped. *)
Locks == \A p \in Processes : (locked[Storage[p]] = p) = (stage[p] \notin Inactive)

LEMMA LockTaken ==
  ASSUME SocketTypeOK, NEW p \in Processes, Start(p)
  PROVE  Locks'
<1>1. \A q \in Processes : (locked[Storage[q]] = q) = (stage[q] \notin Inactive)
  BY DEF SocketTypeOK, Inactive
<1>2. /\ locked[Storage[p]] = None /\ stage[p] = "down"
      /\ stage' = [stage EXCEPT ![p] = "look"] /\ stage \in [Processes -> Stages]
      /\ locked' = [locked EXCEPT ![Storage[p]] = p] /\ DOMAIN locked = Storages
      /\ Storage[p] \in Storages
  BY DEF Start, Enter, SocketTypeOK, Storages
<1>3. \A q \in Processes : q # p => stage'[q] = stage[q]
  BY <1>2
<1>4. \A q \in Processes : Storage[q] = Storage[p] => stage[q] \in Inactive
  BY <1>1, <1>2, SocketAssumption
<1>5. \A q \in Processes : Storage[q] # Storage[p] => locked'[Storage[q]] = locked[Storage[q]]
  BY <1>2 DEF Storages
<1>6. stage'[p] = "look" /\ locked'[Storage[p]] = p
  BY <1>2
<1> QED
  BY <1>1, <1>3, <1>4, <1>5, <1>6 DEF Locks, Inactive

LEMMA LockDropped ==
  ASSUME SocketTypeOK, NEW p \in Processes, stage[p] \notin Inactive, Unlock(p),
         NEW to \in Inactive, stage' = [stage EXCEPT ![p] = to]
  PROVE  Locks'
<1>1. \A q \in Processes : (locked[Storage[q]] = q) = (stage[q] \notin Inactive)
  BY DEF SocketTypeOK, Inactive
<1>2. /\ stage \in [Processes -> Stages] /\ DOMAIN locked = Storages /\ Storage[p] \in Storages
      /\ locked' = [locked EXCEPT ![Storage[p]] = None]
  BY DEF Unlock, SocketTypeOK, Storages
<1>3. stage'[p] = to /\ \A q \in Processes : q # p => stage'[q] = stage[q]
  BY <1>2
<1>4. locked'[Storage[p]] = None
  BY <1>2
<1>5. \A q \in Processes : Storage[q] # Storage[p] => locked'[Storage[q]] = locked[Storage[q]]
  BY <1>2 DEF Storages
<1>6. \A q \in Processes : Storage[q] = Storage[p] /\ q # p => stage[q] \in Inactive
  BY <1>1
<1> QED
  BY <1>1, <1>3, <1>4, <1>5, <1>6, SocketAssumption DEF Locks

LEMMA LockKept ==
  ASSUME SocketTypeOK, NEW p \in Processes, stage[p] \notin Inactive,
         NEW to \in Stages \ Inactive, stage' = [stage EXCEPT ![p] = to], locked' = locked
  PROVE  Locks'
<1>1. stage \in [Processes -> Stages]
  BY DEF SocketTypeOK
<1>2. \A q \in Processes : (stage'[q] \in Inactive) = (stage[q] \in Inactive)
  BY <1>1
<1> QED
  BY <1>2 DEF Locks, SocketTypeOK, Inactive

(* What has been opened is given up whole. *)
LEMMA GivenUp ==
  ASSUME SocketTypeOK, NEW p \in Processes, stage[p] \notin Inactive, GiveUp(p),
         troubles' \in 0..MaxTroubles
  PROVE  SocketTypeOK'
<1>1. Locks'
  BY LockDropped DEF GiveUp, Inactive
<1>2. stage' \in [Processes -> Stages]
  BY DEF GiveUp, SocketTypeOK, Stages
<1>3. locked' \in [Storages -> Processes \union {None}]
  BY DEF GiveUp, SocketTypeOK, Unlock
<1>4. mine' \in [Processes -> 0..bound]
  BY DEF GiveUp, SocketTypeOK
<1>5. listening' \subseteq 1..bound
  BY DEF GiveUp, SocketTypeOK
<1>6. UNCHANGED <<path, identity, bound>>
  BY DEF GiveUp
<1> QED
  BY <1>1, <1>2, <1>3, <1>4, <1>5, <1>6 DEF SocketTypeOK, Locks, Inactive

LEMMA TypeStep ==
  ASSUME SocketTypeOK, Owned, NEW p \in Processes, Steps(p)
  PROVE  SocketTypeOK'
<1>0. /\ stage \in [Processes -> Stages] /\ locked \in [Storages -> Processes \union {None}]
      /\ bound \in Nat /\ troubles \in 0..MaxTroubles /\ path \in 0..bound
      /\ listening \subseteq 1..bound
      /\ mine \in [Processes -> 0..bound] /\ identity \in [Processes -> 0..bound]
  BY DEF SocketTypeOK
<1>1. ASSUME Locks',
             /\ stage' \in [Processes -> Stages]
             /\ locked' \in [Storages -> Processes \union {None}]
             /\ bound' \in Nat /\ troubles' \in 0..MaxTroubles /\ path' \in 0..bound'
             /\ listening' \subseteq 1..bound'
             /\ mine' \in [Processes -> 0..bound'] /\ identity' \in [Processes -> 0..bound']
      PROVE  SocketTypeOK'
  BY <1>1 DEF SocketTypeOK, Locks, Inactive
<1> DEFINE Kept(to) == /\ stage[p] \notin Inactive /\ to \in Stages \ Inactive
                       /\ stage' = [stage EXCEPT ![p] = to] /\ locked' = locked
<1>2. ASSUME NEW to, Kept(to) PROVE Locks' /\ stage' \in [Processes -> Stages]
  <2>1. Locks'
    BY <1>2, LockKept
  <2> QED
    BY <1>0, <1>2, <2>1
<1>3. CASE Start(p)
  <2>1. Locks'
    BY <1>3, LockTaken
  <2>2. /\ stage' \in [Processes -> Stages] /\ locked' \in [Storages -> Processes \union {None}]
        /\ UNCHANGED <<path, listening, mine, identity, bound, troubles>>
    BY <1>0, <1>3 DEF Start, Enter, Stages, Storages
  <2> QED
    BY <1>0, <1>1, <2>1, <2>2
<1>4. CASE Look(p) \/ Stop(p) \/ Check(p)
  <2>1. PICK to \in {"bind", "probe", "check", "unlink", "release"} : Kept(to)
    BY <1>4 DEF Look, Stop, Check, Enter, Stages, Inactive
  <2>2. UNCHANGED <<path, listening, mine, identity, bound>> /\ troubles' \in 0..MaxTroubles
    BY <1>0, <1>4, SocketAssumption DEF Look, Stop, Check, Trouble
  <2> QED
    BY <1>0, <1>1, <1>2, <2>1, <2>2
<1>5. ASSUME stage[p] \notin Inactive, GiveUp(p), UNCHANGED troubles
      PROVE  SocketTypeOK'
  BY <1>0, <1>5, GivenUp
<1>6. CASE Probe(p)
  <2>1. CASE GiveUp(p)
    BY <1>5, <1>6, <2>1 DEF Probe, Enter, Inactive
  <2>2. CASE Kept("remove") /\ UNCHANGED <<path, listening, mine, identity, bound, troubles>>
    BY <1>0, <1>1, <1>2, <2>2
  <2> QED
    BY <1>6, <2>1, <2>2 DEF Probe, Enter, Stages, Inactive
<1>7. CASE Remove(p)
  <2>1. CASE GiveUp(p) /\ UNCHANGED troubles /\ stage[p] = "remove"
    BY <1>5, <2>1 DEF Inactive
  <2>2. CASE Kept("bind") /\ path' = 0 /\ UNCHANGED <<listening, mine, identity, bound, troubles>>
    <3>1. path' \in 0..bound'
      BY <1>0, <2>2
    <3> QED
      BY <1>0, <1>1, <1>2, <2>2, <3>1
  <2> QED
    BY <1>7, <2>1, <2>2 DEF Remove, Enter, Stages, Inactive
<1>8. CASE Bind(p)
  <2>1. CASE GiveUp(p) /\ UNCHANGED troubles /\ stage[p] = "bind"
    BY <1>5, <2>1 DEF Inactive
  <2>2. CASE /\ Kept("listen") /\ bound' = bound + 1 /\ path' = bound + 1
             /\ mine' = [mine EXCEPT ![p] = bound + 1]
             /\ UNCHANGED <<listening, identity, troubles>>
    <3>1. /\ bound' \in Nat /\ path' \in 0..bound' /\ listening' \subseteq 1..bound'
          /\ identity' \in [Processes -> 0..bound']
      BY <1>0, <2>2
    <3>2. mine' \in [Processes -> 0..bound']
      BY <1>0, <2>2
    <3> QED
      BY <1>0, <1>1, <1>2, <2>2, <3>1, <3>2
  <2> QED
    BY <1>8, <2>1, <2>2 DEF Bind, Enter, Stages, Inactive
<1>9. CASE Listen(p)
  <2>1. Kept("identify") /\ UNCHANGED <<path, mine, identity, bound, troubles>>
    BY <1>9 DEF Listen, Enter, Stages, Inactive
  <2>2. mine[p] \in 1..bound
    BY <1>0, <1>9 DEF Owned, Bound, Listen, Enter
  <2>3. listening' \subseteq 1..bound'
    BY <1>0, <1>9, <2>1, <2>2 DEF Listen
  <2> QED
    BY <1>0, <1>1, <1>2, <2>1, <2>3
<1>10. CASE Identify(p)
  <2>1. CASE GiveUp(p) /\ UNCHANGED troubles /\ stage[p] = "identify"
    BY <1>5, <2>1 DEF Inactive
  <2>2. CASE /\ Kept("running") /\ identity' = [identity EXCEPT ![p] = path]
             /\ UNCHANGED <<path, listening, mine, bound, troubles>>
    BY <1>0, <1>1, <1>2, <2>2
  <2> QED
    BY <1>10, <2>1, <2>2 DEF Identify, Enter, Stages, Inactive
<1>11. CASE OpenFails(p)
  <2>1. troubles' \in 0..MaxTroubles
    BY <1>0, <1>11, SocketAssumption DEF OpenFails, Trouble
  <2> QED
    BY <1>11, <2>1, GivenUp DEF OpenFails, Inactive
<1>12. CASE Unlink(p)
  <2>1. Kept("release") /\ path' = 0 /\ UNCHANGED <<listening, mine, identity, bound, troubles>>
    BY <1>12 DEF Unlink, Enter, Stages, Inactive
  <2>2. path' \in 0..bound'
    BY <1>0, <2>1
  <2> QED
    BY <1>0, <1>1, <1>2, <2>1, <2>2
<1>13. CASE Release(p) \/ Die(p)
  <2>1. /\ stage[p] \notin Inactive /\ stage' = [stage EXCEPT ![p] = "close"] /\ Unlock(p)
        /\ UNCHANGED <<path, listening, mine, identity, bound>> /\ troubles' \in 0..MaxTroubles
    BY <1>0, <1>13, SocketAssumption DEF Release, Die, Enter, Trouble, Inactive
  <2>2. Locks'
    BY <2>1, LockDropped DEF Inactive
  <2>3. stage' \in [Processes -> Stages] /\ locked' \in [Storages -> Processes \union {None}]
    BY <1>0, <2>1 DEF Unlock, Stages, Storages
  <2> QED
    BY <1>0, <1>1, <2>1, <2>2, <2>3
<1>14. CASE Close(p)
  <2>1. /\ stage[p] = "close" /\ stage' = [stage EXCEPT ![p] = "down"] /\ locked' = locked
        /\ listening' \subseteq listening /\ UNCHANGED <<path, bound, troubles>>
        /\ mine' = [mine EXCEPT ![p] = 0] /\ identity' = [identity EXCEPT ![p] = 0]
    BY <1>14 DEF Close, Enter
  <2>2. Locks'
    BY <1>0, <2>1 DEF Locks, SocketTypeOK, Inactive
  <2>3. stage' \in [Processes -> Stages]
    BY <1>0, <2>1 DEF Stages
  <2>4. mine' \in [Processes -> 0..bound] /\ identity' \in [Processes -> 0..bound]
    BY <1>0, <2>1
  <2> QED
    BY <1>0, <1>1, <2>1, <2>2, <2>3, <2>4
<1> QED
  BY <1>3, <1>4, <1>6, <1>7, <1>8, <1>9, <1>10, <1>11, <1>12, <1>13, <1>14
     DEF Steps, Step
-----------------------------------------------------------------------------
(* Only the one that has the storage binds or removes, so that every other *)
(* process is at most closing a listener of its own.                       *)
LEMMA OwnedStep ==
  ASSUME Inv, \A p, q \in Processes : Storage[p] = Storage[q],
         NEW p \in Processes, Steps(p)
  PROVE  Distinct' /\ Owned' /\ KnowsItsOwn'
<1>0. /\ stage \in [Processes -> Stages] /\ bound \in Nat /\ path \in 0..bound
      /\ mine \in [Processes -> 0..bound] /\ identity \in [Processes -> 0..bound]
      /\ Distinct /\ Owned /\ KnowsItsOwn
  BY DEF Inv, SocketTypeOK
<1>1. \A q \in Processes : stage[p] \notin Inactive /\ q # p => stage[q] \in Inactive
  BY Alone DEF Inv
<1>2. \A q \in Processes : q # p => stage[q] \notin Bound \/ stage[p] \in Inactive
  BY <1>1 DEF Bound, Inactive
<1> DEFINE Others == \A q \in Processes \ {p} :
              stage'[q] = stage[q] /\ mine'[q] = mine[q] /\ identity'[q] = identity[q]
           Closed == /\ mine' = [mine EXCEPT ![p] = 0] /\ listening' = listening \ {mine[p]}
                     /\ stage'[p] = "down" /\ path' = path
(* What a step must do for its own process, and leave to the others. *)
<1>3. ASSUME Others, stage[p] \notin Inactive, mine'[p] = mine[p],
             /\ stage'[p] \in Unbound => mine[p] = 0
             /\ stage'[p] \in Bound => mine[p] # 0 /\ path' = mine[p]
             /\ stage'[p] \in Bound \ {"listen"} => path' \in listening'
             /\ stage'[p] \in {"running", "check", "unlink"} => identity'[p] = mine[p]
      PROVE  Distinct' /\ Owned' /\ KnowsItsOwn'
  <2>1. Distinct'
    BY <1>0, <1>3 DEF Distinct
  <2>2. \A q \in Processes \ {p} : stage'[q] \in Inactive
    BY <1>1, <1>3
  <2>3. Owned'
    BY <1>0, <1>3, <2>2 DEF Owned, Bound, Unbound, Inactive
  <2>4. KnowsItsOwn'
    BY <1>0, <1>3, <2>2 DEF KnowsItsOwn, Inactive
  <2> QED
    BY <2>1, <2>3, <2>4
(* A listener that is closed is nobody else's. *)
<1>4. ASSUME Others, Closed
      PROVE  Distinct' /\ Owned' /\ KnowsItsOwn'
  <2>1. mine'[p] = 0
    BY <1>0, <1>4
  <2>2. Distinct'
    BY <1>0, <1>4, <2>1 DEF Distinct
  <2>3. \A q \in Processes \ {p} : mine[q] # 0 => mine[q] # mine[p]
    BY <1>0 DEF Distinct
  <2>4. Owned'
    <3> SUFFICES ASSUME NEW q \in Processes
                 PROVE  /\ stage'[q] \in Unbound => mine'[q] = 0
                        /\ stage'[q] \in Bound => mine'[q] # 0 /\ path' = mine'[q]
                        /\ stage'[q] \in Bound \ {"listen"} => path' \in listening'
      BY DEF Owned
    <3>1. CASE q = p
      BY <1>4, <2>1, <3>1 DEF Bound
    <3>2. CASE q # p
      BY <1>0, <1>4, <2>3, <3>2 DEF Owned
    <3> QED
      BY <3>1, <3>2
  <2>5. KnowsItsOwn'
    BY <1>0, <1>4 DEF KnowsItsOwn
  <2> QED
    BY <2>2, <2>4, <2>5
<1>5. CASE GiveUp(p)
  <2>1. Others /\ Closed
    BY <1>0, <1>5 DEF GiveUp
  <2> QED
    BY <1>4, <2>1
<1>6. CASE Start(p)
  <2>1. /\ Others /\ stage[p] = "down" /\ stage'[p] = "look" /\ UNCHANGED <<path, listening, mine, identity>>
    BY <1>0, <1>6 DEF Start, Enter
  <2>2. Distinct' /\ KnowsItsOwn'
    BY <1>0, <2>1 DEF Distinct, KnowsItsOwn
  <2>3. Owned'
    BY <1>0, <2>1 DEF Owned, Bound, Unbound
  <2> QED
    BY <2>2, <2>3
<1>7. CASE ~GiveUp(p) /\ (Look(p) \/ Probe(p) \/ Remove(p))
  <2>1. /\ Others /\ stage[p] \in {"look", "probe", "remove"}
        /\ stage'[p] \in {"bind", "probe", "remove"} /\ mine' = mine
    BY <1>0, <1>7 DEF Look, Probe, Remove, Enter
  <2> QED
    BY <1>0, <1>3, <2>1 DEF Owned, Unbound, Bound, Inactive
<1>8. CASE ~GiveUp(p) /\ Bind(p)
  <2>1. /\ Others /\ stage[p] = "bind" /\ stage'[p] = "listen"
        /\ path' = bound + 1 /\ mine'[p] = bound + 1 /\ listening' = listening
    BY <1>0, <1>8 DEF Bind, Enter
  <2>2. \A q \in Processes : mine[q] # bound + 1
    BY <1>0
  <2>3. Distinct'
    BY <1>0, <2>1, <2>2 DEF Distinct
  <2>4. \A q \in Processes \ {p} : stage'[q] \in Inactive
    BY <1>1, <2>1 DEF Inactive
  <2>5. Owned'
    BY <1>0, <2>1, <2>4 DEF Owned, Bound, Unbound, Inactive
  <2>6. KnowsItsOwn'
    BY <2>1, <2>4 DEF KnowsItsOwn, Inactive
  <2> QED
    BY <2>3, <2>5, <2>6
<1>9. CASE Listen(p)
  <2>1. /\ Others /\ stage[p] = "listen" /\ stage'[p] = "identify"
        /\ listening' = listening \union {mine[p]} /\ UNCHANGED <<path, mine>>
    BY <1>0, <1>9 DEF Listen, Enter
  <2>2. path = mine[p] /\ mine[p] # 0
    BY <1>0, <2>1 DEF Owned, Bound
  <2> QED
    BY <1>3, <2>1, <2>2 DEF Unbound, Bound, Inactive
<1>10. CASE ~GiveUp(p) /\ Identify(p)
  <2>1. /\ Others /\ stage[p] = "identify" /\ stage'[p] = "running"
        /\ identity'[p] = path /\ UNCHANGED <<path, mine, listening>>
    BY <1>0, <1>10 DEF Identify, Enter
  <2>2. path = mine[p] /\ mine[p] # 0 /\ path \in listening
    BY <1>0, <2>1 DEF Owned, Bound
  <2> QED
    BY <1>3, <2>1, <2>2 DEF Unbound, Bound, Inactive
<1>11. CASE OpenFails(p)
  BY <1>5, <1>11 DEF OpenFails
<1>12. CASE Stop(p) \/ Check(p)
  <2>1. /\ Others /\ stage[p] \in {"running", "check"} /\ stage'[p] \in {"check", "unlink", "release"}
        /\ UNCHANGED <<path, mine, listening, identity>>
    BY <1>0, <1>12 DEF Stop, Check, Enter
  <2>2. path = mine[p] /\ mine[p] # 0 /\ path \in listening /\ identity[p] = mine[p]
    BY <1>0, <2>1 DEF Owned, Bound, KnowsItsOwn
  <2> QED
    BY <1>3, <2>1, <2>2 DEF Unbound, Bound, Inactive
<1>13. CASE Unlink(p) \/ Release(p)
  <2>1. /\ Others /\ stage[p] \in {"unlink", "release"} /\ stage'[p] \in {"release", "close"}
        /\ mine' = mine
    BY <1>0, <1>13 DEF Unlink, Release, Enter
  <2> QED
    BY <1>3, <2>1 DEF Unbound, Bound, Inactive
<1>14. CASE Die(p)
  <2>1. /\ Others /\ stage[p] \notin Inactive /\ stage'[p] = "close" /\ mine' = mine
    BY <1>0, <1>14 DEF Die, Inactive
  <2> QED
    BY <1>3, <2>1 DEF Unbound, Bound, Inactive
<1>15. CASE Close(p)
  <2>1. Others /\ Closed
    BY <1>0, <1>15 DEF Close, Enter
  <2> QED
    BY <1>4, <2>1
<1> QED
  BY <1>5, <1>6, <1>7, <1>8, <1>9, <1>10, <1>11, <1>12, <1>13, <1>14, <1>15 DEF Steps, Step

-----------------------------------------------------------------------------
(* SocketIsOwned: whatever was left behind, whoever starts, ends, fails or *)
(* dies, a daemon that runs is reached over its socket, and will remove no *)
(* other.  It takes one storage: two daemons with different storages and   *)
(* one socket path have no lock that tells them apart.                     *)
THEOREM OwnedSocket ==
  ASSUME \A p, q \in Processes : Storage[p] = Storage[q]
  PROVE  SocketSpec => []SocketIsOwned
<1>1. Inv /\ [SocketNext]_socketVars => Inv'
  <2> SUFFICES ASSUME Inv, [SocketNext]_socketVars PROVE Inv'
    OBVIOUS
  <2>1. CASE UNCHANGED socketVars
    BY <2>1 DEF Inv, SocketTypeOK, Distinct, Owned, KnowsItsOwn, socketVars
  <2>2. CASE SocketNext
    <3>1. PICK p \in Processes : Steps(p)
      BY <2>2 DEF SocketNext, Steps
    <3>2. SocketTypeOK'
      BY <3>1, TypeStep DEF Inv
    <3>3. Distinct' /\ Owned' /\ KnowsItsOwn'
      BY <3>1, OwnedStep
    <3> QED
      BY <3>2, <3>3 DEF Inv
  <2> QED
    BY <2>1, <2>2
<1>2. Inv => SocketIsOwned
  BY DEF Inv, Owned, Bound, SocketIsOwned, RunningIsReached
<1> QED
  BY InitInv, <1>1, <1>2, PTL DEF SocketSpec

-----------------------------------------------------------------------------
(* The storage directory. *)


Directories == [there : BOOLEAN, private : BOOLEAN]

CreationTypeOK(K) ==
    /\ cStage \in [K.processes -> Creation(K)!Stages]
    /\ seen \in Directories /\ kept \in Directories
    /\ receipts \in Nat

(* A directory that was created stays while the power does, and whoever    *)
(* goes on to the lock has found it private or made it so.                 *)
DirectoryIsThere(K) ==
    \A p \in K.processes :
      /\ cStage[p] \in {"restrict", "parent", "lock", "sync", "open"} => seen.there
      /\ cStage[p] \in {"parent", "lock", "sync", "open"} => seen.private

(* One process that does not die has synchronized the parent directory     *)
(* before anyone finds the directory there.                                *)
DirectoryIsKept(K) ==
    /\ seen.there => kept.there \/ \E p \in K.processes : cStage[p] \in {"restrict", "parent"}
    /\ receipts > 0 => seen.there /\ kept.there

AloneInStorage(K) == "death" \notin K.kinds /\ \A p, q \in K.processes : p = q

CreationInv(K) ==
    CreationTypeOK(K) /\ DirectoryIsThere(K) /\ (AloneInStorage(K) => DirectoryIsKept(K))

LEMMA CreationInitInv ==
  ASSUME NEW K
  PROVE  Creation(K)!CreationInit => CreationInv(K)
<1> SUFFICES ASSUME Creation(K)!CreationInit PROVE CreationInv(K)
  OBVIOUS
<1>1. CreationTypeOK(K)
  BY DEF Creation!CreationInit, CreationTypeOK, Creation!Stages, Directories, Creation!Absent
<1>2. DirectoryIsThere(K) /\ DirectoryIsKept(K)
  BY DEF Creation!CreationInit, DirectoryIsThere, DirectoryIsKept, Creation!Absent
<1> QED
  BY <1>1, <1>2 DEF CreationInv

(* The stage of the process that moves, and of the others. *)
LEMMA Entered ==
  ASSUME NEW K,
         CreationTypeOK(K), NEW p \in K.processes, NEW from, NEW to \in Creation(K)!Stages, Creation(K)!Enter(p, from, to)
  PROVE  /\ cStage' \in [K.processes -> Creation(K)!Stages] /\ cStage[p] = from /\ cStage'[p] = to
         /\ \A q \in K.processes : q # p => cStage'[q] = cStage[q]
  BY DEF CreationTypeOK, Creation!Enter

LEMMA SeenIs ==
  ASSUME NEW K,
         CreationTypeOK(K)
  PROVE  /\ seen.there \in BOOLEAN /\ seen.private \in BOOLEAN
         /\ seen = [there |-> seen.there, private |-> seen.private]
         /\ kept.there \in BOOLEAN /\ kept.private \in BOOLEAN
         /\ kept = [there |-> kept.there, private |-> kept.private]
  BY DEF CreationTypeOK, Directories

(* A step of one process: it goes on, makes the directory or a property of *)
(* it, or makes one of them durable.                                       *)
LEMMA OpeningKeeps ==
  ASSUME NEW K,
         CreationInv(K), NEW p \in K.processes, Creation(K)!Step(p)
  PROVE  CreationInv(K)'
<1>0. CreationTypeOK(K) /\ DirectoryIsThere(K) /\ (AloneInStorage(K) => DirectoryIsKept(K))
  BY DEF CreationInv
<1>1. receipts' = receipts /\ receipts \in Nat /\ AloneInStorage(K)' = AloneInStorage(K)
  BY <1>0 DEF Creation!Step, Creation!Start, Creation!Look, Creation!Create, Creation!Restrict, Creation!SyncParent, Creation!Lock, Creation!Sync, CreationTypeOK, AloneInStorage
<1>2. CASE Creation(K)!Start(p)
  <2>1. /\ cStage' \in [K.processes -> Creation(K)!Stages] /\ cStage[p] = "down" /\ cStage'[p] = "look"
        /\ \A q \in K.processes : q # p => cStage'[q] = cStage[q]
    BY <1>0, <1>2, Entered DEF Creation!Start, Creation!Stages
  <2>2. UNCHANGED <<seen, kept>>
    BY <1>2 DEF Creation!Start
  <2>3. CreationTypeOK(K)' /\ DirectoryIsThere(K)'
    BY <1>0, <1>1, <2>1, <2>2 DEF CreationTypeOK, DirectoryIsThere
  <2>4. DirectoryIsKept(K) => DirectoryIsKept(K)'
    BY <1>1, <2>1, <2>2 DEF DirectoryIsKept
  <2> QED
    BY <1>0, <1>1, <2>3, <2>4 DEF CreationInv
<1>3. CASE Creation(K)!Look(p)
  <2> DEFINE to == IF ~seen.there THEN "create" ELSE IF seen.private THEN "lock" ELSE "down"
  <2>0. to \in Creation(K)!Stages /\ Creation(K)!Enter(p, "look", to)
    BY <1>3 DEF Creation!Look, Creation!Stages
  <2>5. to \in {"parent", "lock", "sync", "open", "restrict"} => seen.there /\ seen.private
    OBVIOUS
  <2> HIDE DEF to
  <2>1. /\ cStage' \in [K.processes -> Creation(K)!Stages] /\ cStage[p] = "look" /\ cStage'[p] = to
        /\ \A q \in K.processes : q # p => cStage'[q] = cStage[q]
    BY <1>0, <2>0, Entered
  <2>2. UNCHANGED <<seen, kept>>
    BY <1>3 DEF Creation!Look
  <2>3. CreationTypeOK(K)' /\ DirectoryIsThere(K)'
    BY <1>0, <1>1, <2>1, <2>2, <2>5 DEF CreationTypeOK, DirectoryIsThere
  <2>4. DirectoryIsKept(K) => DirectoryIsKept(K)'
    BY <1>1, <2>1, <2>2 DEF DirectoryIsKept
  <2> QED
    BY <1>0, <1>1, <2>3, <2>4 DEF CreationInv
<1>4. CASE Creation(K)!Create(p)
  <2>1. CASE seen.there
    <3>1. /\ cStage' \in [K.processes -> Creation(K)!Stages] /\ cStage[p] = "create" /\ cStage'[p] = "down"
          /\ \A q \in K.processes : q # p => cStage'[q] = cStage[q]
      BY <1>0, <1>4, <2>1, Entered DEF Creation!Create, Creation!Stages
    <3>2. UNCHANGED <<seen, kept>>
      BY <1>4, <2>1 DEF Creation!Create
    <3>3. CreationTypeOK(K)' /\ DirectoryIsThere(K)'
      BY <1>0, <1>1, <3>1, <3>2 DEF CreationTypeOK, DirectoryIsThere
    <3>4. DirectoryIsKept(K) => DirectoryIsKept(K)'
      BY <1>1, <3>1, <3>2 DEF DirectoryIsKept
    <3> QED
      BY <1>0, <1>1, <3>3, <3>4 DEF CreationInv
  <2>2. CASE ~seen.there
    <3>1. /\ cStage' \in [K.processes -> Creation(K)!Stages] /\ cStage[p] = "create" /\ cStage'[p] = "restrict"
          /\ \A q \in K.processes : q # p => cStage'[q] = cStage[q]
      BY <1>0, <1>4, <2>2, Entered DEF Creation!Create, Creation!Stages
    <3>2. seen' = [there |-> TRUE, private |-> FALSE] /\ UNCHANGED kept
      BY <1>4, <2>2 DEF Creation!Create
    <3>3. \A q \in K.processes : cStage[q] \notin {"restrict", "parent", "lock", "sync", "open"}
      BY <1>0, <2>2 DEF DirectoryIsThere
    <3>4. CreationTypeOK(K)'
      BY <1>0, <1>1, <3>1, <3>2 DEF CreationTypeOK, Directories
    <3>5. DirectoryIsThere(K)'
      BY <3>1, <3>2, <3>3 DEF DirectoryIsThere
    <3>6. DirectoryIsKept(K) => DirectoryIsKept(K)'
      BY <1>1, <2>2, <3>1, <3>2 DEF DirectoryIsKept
    <3> QED
      BY <1>0, <1>1, <3>4, <3>5, <3>6 DEF CreationInv
  <2> QED
    BY <2>1, <2>2
<1>5. CASE Creation(K)!Restrict(p)
  <2>1. /\ cStage' \in [K.processes -> Creation(K)!Stages] /\ cStage[p] = "restrict" /\ cStage'[p] = "parent"
        /\ \A q \in K.processes : q # p => cStage'[q] = cStage[q]
    BY <1>0, <1>5, Entered DEF Creation!Restrict, Creation!Stages
  <2>2. seen' = [seen EXCEPT !.private = TRUE] /\ UNCHANGED kept
    BY <1>5 DEF Creation!Restrict
  <2>3. seen' \in Directories /\ seen'.there = seen.there /\ seen'.private
    BY <1>0, <2>2 DEF CreationTypeOK, Directories
  <2>4. CreationTypeOK(K)' /\ DirectoryIsThere(K)'
    BY <1>0, <1>1, <2>1, <2>2, <2>3 DEF CreationTypeOK, DirectoryIsThere
  <2>5. DirectoryIsKept(K) => DirectoryIsKept(K)'
    BY <1>1, <2>1, <2>2, <2>3 DEF DirectoryIsKept
  <2> QED
    BY <1>0, <1>1, <2>4, <2>5 DEF CreationInv
<1>6. CASE Creation(K)!SyncParent(p)
  <2>1. /\ cStage' \in [K.processes -> Creation(K)!Stages] /\ cStage[p] = "parent" /\ cStage'[p] = "lock"
        /\ \A q \in K.processes : q # p => cStage'[q] = cStage[q]
    BY <1>0, <1>6, Entered DEF Creation!SyncParent, Creation!Stages
  <2>2. kept' = [kept EXCEPT !.there = TRUE] /\ UNCHANGED seen
    BY <1>6 DEF Creation!SyncParent
  <2>3. kept' \in Directories /\ kept'.there
    BY <1>0, <2>2 DEF CreationTypeOK, Directories
  <2>4. CreationTypeOK(K)' /\ DirectoryIsThere(K)'
    BY <1>0, <1>1, <2>1, <2>2, <2>3 DEF CreationTypeOK, DirectoryIsThere
  <2>5. DirectoryIsKept(K) => DirectoryIsKept(K)'
    BY <1>1, <2>1, <2>2, <2>3 DEF DirectoryIsKept
  <2> QED
    BY <1>0, <1>1, <2>4, <2>5 DEF CreationInv
<1>7. CASE Creation(K)!Lock(p)
  <2> DEFINE to == IF cLocked = None THEN "sync" ELSE "down"
  <2>0. to \in Creation(K)!Stages /\ Creation(K)!Enter(p, "lock", to) /\ to \in {"sync", "down"}
    BY <1>7 DEF Creation!Lock, Creation!Stages
  <2> HIDE DEF to
  <2>1. /\ cStage' \in [K.processes -> Creation(K)!Stages] /\ cStage[p] = "lock" /\ cStage'[p] = to
        /\ \A q \in K.processes : q # p => cStage'[q] = cStage[q]
    BY <1>0, <2>0, Entered
  <2>2. UNCHANGED <<seen, kept>>
    BY <1>7 DEF Creation!Lock
  <2>3. CreationTypeOK(K)' /\ DirectoryIsThere(K)'
    BY <1>0, <1>1, <2>0, <2>1, <2>2 DEF CreationTypeOK, DirectoryIsThere
  <2>4. DirectoryIsKept(K) => DirectoryIsKept(K)'
    BY <1>1, <2>1, <2>2 DEF DirectoryIsKept
  <2> QED
    BY <1>0, <1>1, <2>3, <2>4 DEF CreationInv
<1>8. CASE Creation(K)!Sync(p)
  <2>1. /\ cStage' \in [K.processes -> Creation(K)!Stages] /\ cStage[p] = "sync" /\ cStage'[p] = "open"
        /\ \A q \in K.processes : q # p => cStage'[q] = cStage[q]
    BY <1>0, <1>8, Entered DEF Creation!Sync, Creation!Stages
  <2>2. kept' = [kept EXCEPT !.private = seen.private] /\ UNCHANGED seen
    BY <1>8 DEF Creation!Sync
  <2>3. kept' \in Directories /\ kept'.there = kept.there
    BY <1>0, <2>2 DEF CreationTypeOK, Directories
  <2>4. CreationTypeOK(K)' /\ DirectoryIsThere(K)'
    BY <1>0, <1>1, <2>1, <2>2, <2>3 DEF CreationTypeOK, DirectoryIsThere
  <2>5. DirectoryIsKept(K) => DirectoryIsKept(K)'
    BY <1>1, <2>1, <2>2, <2>3 DEF DirectoryIsKept
  <2> QED
    BY <1>0, <1>1, <2>4, <2>5 DEF CreationInv
<1> QED
  BY <1>2, <1>3, <1>4, <1>5, <1>6, <1>7, <1>8 DEF Creation!Step

(* A process that is open has its directory on disk, unless another one is *)
(* still at creating it.                                                   *)
LEMMA OpenIsKept ==
  ASSUME NEW K,
         CreationInv(K), AloneInStorage(K), NEW p \in K.processes, cStage[p] = "open"
  PROVE  seen.there /\ kept.there
<1>1. seen.there
  BY DEF CreationInv, DirectoryIsThere
<1>2. \A q \in K.processes : cStage[q] = "open"
  BY DEF AloneInStorage
<1> QED
  BY <1>1, <1>2 DEF CreationInv, DirectoryIsKept

LEMMA MeanwhileKeeps ==
  ASSUME NEW K,
         CreationInv(K),
         Creation(K)!PowerLoss \/ \E p \in K.processes : Creation(K)!Receive(p) \/ Creation(K)!Stop(p) \/ Creation(K)!Die(p)
  PROVE  CreationInv(K)'
<1>0. CreationTypeOK(K) /\ DirectoryIsThere(K) /\ (AloneInStorage(K) => DirectoryIsKept(K)) /\ AloneInStorage(K)' = AloneInStorage(K)
  BY DEF CreationInv, AloneInStorage
<1>1. CASE Creation(K)!PowerLoss
  <2>1. cStage' = [p \in K.processes |-> "down"] /\ UNCHANGED receipts
    BY <1>1 DEF Creation!PowerLoss
  <2>2. \/ seen' = Creation(K)!Absent /\ kept' = Creation(K)!Absent /\ ~kept.there
        \/ seen.there /\ kept' = seen' /\ seen' \in Directories /\ seen'.there
    <3>1. CASE seen' = Creation(K)!Absent /\ kept' = Creation(K)!Absent /\ ~kept.there
      BY <3>1
    <3>2. CASE seen.there /\ kept' = seen' /\ seen' \in {[seen EXCEPT !.private = kept.private], seen}
      <4>1. kept.private \in BOOLEAN
        BY <1>0, SeenIs
      <4> QED
        BY <1>0, <3>2, <4>1 DEF CreationTypeOK, Directories
    <3> QED
      BY <1>1, <3>1, <3>2 DEF Creation!PowerLoss
  <2>3. CreationTypeOK(K)' /\ DirectoryIsThere(K)'
    <3>1. \A p \in K.processes : cStage'[p] = "down"
      BY <2>1
    <3>2. cStage' \in [K.processes -> Creation(K)!Stages]
      BY <2>1 DEF Creation!Stages
    <3>3. Creation(K)!Absent \in Directories
      BY DEF Creation!Absent, Directories
    <3>4. CreationTypeOK(K)'
      BY <1>0, <2>1, <2>2, <3>2, <3>3 DEF CreationTypeOK
    <3> QED
      BY <3>1, <3>4 DEF DirectoryIsThere
  <2>4. DirectoryIsKept(K) => DirectoryIsKept(K)'
    BY <1>0, <2>1, <2>2 DEF DirectoryIsKept, Creation!Absent
  <2> QED
    BY <1>0, <2>3, <2>4 DEF CreationInv
<1>2. CASE \E p \in K.processes : Creation(K)!Receive(p)
  <2>1. PICK p \in K.processes : Creation(K)!Receive(p)
    BY <1>2
  <2>2. cStage[p] = "open" /\ receipts' = receipts + 1 /\ UNCHANGED <<cStage, seen, kept>>
    BY <2>1 DEF Creation!Receive
  <2>3. CreationTypeOK(K)' /\ DirectoryIsThere(K)'
    BY <1>0, <2>2 DEF CreationTypeOK, DirectoryIsThere
  <2>4. AloneInStorage(K) => DirectoryIsKept(K)'
    BY <1>0, <2>2, OpenIsKept DEF DirectoryIsKept
  <2> QED
    BY <1>0, <2>3, <2>4 DEF CreationInv
<1>3. CASE \E p \in K.processes : Creation(K)!Stop(p) \/ Creation(K)!Die(p)
  <2>1. PICK p \in K.processes : Creation(K)!Stop(p) \/ Creation(K)!Die(p)
    BY <1>3
  <2>2. cStage' = [cStage EXCEPT ![p] = "down"] /\ UNCHANGED <<seen, kept, receipts>>
    BY <2>1 DEF Creation!Stop, Creation!Die, Creation!End
  <2>3. /\ cStage' \in [K.processes -> Creation(K)!Stages] /\ cStage'[p] = "down"
        /\ \A q \in K.processes : q # p => cStage'[q] = cStage[q]
    BY <1>0, <2>2 DEF CreationTypeOK, Creation!Stages
  <2>4. CreationTypeOK(K)' /\ DirectoryIsThere(K)'
    BY <1>0, <2>2, <2>3 DEF CreationTypeOK, DirectoryIsThere
  <2>5. AloneInStorage(K) => cStage[p] = "open"
    BY <2>1 DEF AloneInStorage, Creation!Stop, Creation!Die, Creation!Trouble
  <2>6. AloneInStorage(K) => DirectoryIsKept(K)'
    BY <1>0, <2>2, <2>5, OpenIsKept DEF DirectoryIsKept
  <2> QED
    BY <1>0, <2>4, <2>6 DEF CreationInv
<1> QED
  BY <1>1, <1>2, <1>3

LEMMA CreationStep ==
  ASSUME NEW K
  PROVE  CreationInv(K) /\ [Creation(K)!CreationNext]_(Creation(K)!creationVars) => CreationInv(K)'
<1> SUFFICES ASSUME CreationInv(K), [Creation(K)!CreationNext]_(Creation(K)!creationVars) PROVE CreationInv(K)'
  OBVIOUS
<1>1. CASE UNCHANGED Creation(K)!creationVars
  BY <1>1 DEF CreationInv, CreationTypeOK, DirectoryIsThere, DirectoryIsKept, AloneInStorage, Creation!creationVars
<1>2. CASE Creation(K)!CreationNext
  BY <1>2, OpeningKeeps, MeanwhileKeeps DEF Creation!CreationNext
<1> QED
  BY <1>1, <1>2

LEMMA CreationInvSafe ==
  ASSUME NEW K
  PROVE  CreationInv(K) => Creation(K)!StorageIsSafe
  BY DEF CreationInv, DirectoryIsThere, DirectoryIsKept, AloneInStorage, Creation!StorageIsSafe, Creation!StoredPrivately,
         Creation!ReceiptsOutliveOutage

(* StorageIsSafe: however many processes create the storage directory, die *)
(* and lose power, none is open in a directory that others may read; and   *)
(* what one process that does not die has answered outlives loss of power. *)
THEOREM CreatedSafely ==
  ASSUME NEW K
  PROVE  Creation(K)!CreationSpec => []Creation(K)!StorageIsSafe
  BY CreationInvSafe, CreationInitInv, CreationStep, PTL DEF Creation!CreationSpec

(* StorageIsSafe, of the daemon's parts in their settings. *)
THEOREM StoredSafely == DaemonSpec => []StorageIsSafe
<1> DEFINE Safe == /\ setting = "power" => CreationInv(Power)
                   /\ setting = "owners" => CreationInv(Owners)
                   /\ setting = "deaths" => CreationInv(Deaths)
<1>1. DaemonInit => Safe
  <2>1. Creation(Owners)!CreationInit => Creation(Deaths)!CreationInit
    BY DEF Creation!CreationInit, Owners, Deaths, Creation!Absent
  <2> QED
    BY <2>1, CreationInitInv DEF DaemonInit
<1>2. Safe /\ [DaemonNext]_daemonVars => Safe'
  <2> SUFFICES ASSUME Safe, [DaemonNext]_daemonVars PROVE Safe'
    OBVIOUS
  <2>1. ASSUME UNCHANGED creationState
        PROVE  /\ UNCHANGED Creation(Power)!creationVars
               /\ UNCHANGED Creation(Owners)!creationVars
               /\ UNCHANGED Creation(Deaths)!creationVars
    BY <2>1 DEF creationState, Creation!creationVars
  <2>2. setting' = setting
    BY DEF DaemonNext, daemonVars, Setting, SocketStep, PowerStep, OwnersStep, DeathsStep,
           RequestsStep, ForeignStep, LimitStep
  <2>3. CASE setting = "power"
    <3>1. Creation(Power)!CreationNext \/ UNCHANGED creationState
      BY <2>3 DEF DaemonNext, daemonVars, Setting, SocketStep, PowerStep, OwnersStep,
                  DeathsStep, RequestsStep, ForeignStep, LimitStep
    <3> QED
      BY <2>1, <2>2, <2>3, <3>1, CreationStep
  <2>4. CASE setting = "owners"
    <3>1. Creation(Owners)!CreationNext \/ UNCHANGED creationState
      BY <2>4 DEF DaemonNext, daemonVars, Setting, SocketStep, PowerStep, OwnersStep,
                  DeathsStep, RequestsStep, ForeignStep, LimitStep
    <3> QED
      BY <2>1, <2>2, <2>4, <3>1, CreationStep
  <2>5. CASE setting = "deaths"
    <3>1. Creation(Deaths)!CreationNext \/ UNCHANGED creationState
      BY <2>5 DEF DaemonNext, daemonVars, Setting, SocketStep, PowerStep, OwnersStep,
                  DeathsStep, RequestsStep, ForeignStep, LimitStep
    <3> QED
      BY <2>1, <2>2, <2>5, <3>1, CreationStep
  <2> QED
    BY <2>2, <2>3, <2>4, <2>5
<1>3. Safe => StorageIsSafe
  BY CreationInvSafe DEF StorageIsSafe
<1> QED
  BY <1>1, <1>2, <1>3, PTL DEF DaemonSpec

-----------------------------------------------------------------------------
-----------------------------------------------------------------------------
(* The loop that serves clients, for any of them, any requests, limits and *)
(* number of sources.                                                      *)
Replying == {"receipt", "status", "records", "stopped", "error"}
NoneApart == None \notin Replying \union {"closed"}

ServerTyped(K) ==
    /\ backlog \in Seq(K.clients) /\ connections \in Seq(K.clients)
    /\ sent \in [K.clients -> {"unconnected", "nothing", "part", "bad", "whole"}]
    /\ asked \in [K.clients -> K.requests \union {None}]
    /\ got \in [K.clients -> Replying \union {"closed", None}]
    /\ out \in [K.clients -> Replying \union {None}]
    /\ phase \in {"accept", "serve", "poll", "ended"}
    /\ index \in Nat /\ stopping \in BOOLEAN

(* A client waits or is connected once, and only after it has connected.   *)
OnceEach ==
    /\ \A i, j \in DOMAIN connections : connections[i] = connections[j] => i = j
    /\ \A i, j \in DOMAIN backlog : backlog[i] = backlog[j] => i = j
    /\ \A i \in DOMAIN connections : \A j \in DOMAIN backlog : connections[i] # backlog[j]
    /\ \A i \in DOMAIN connections : sent[connections[i]] # "unconnected"
    /\ \A j \in DOMAIN backlog : sent[backlog[j]] # "unconnected"

(* A reply is only waiting for who is connected. *)
RepliesWait(K) == \A c \in K.clients : out[c] # None => c \in Server(K)!Connected

(* Those still to be served in this tick are the first ones. *)
ServedInTurn(K) ==
    /\ phase = "serve" => index <= Len(connections) /\ Server(K)!EachServedOnce
    /\ phase \in {"accept", "poll"} => served = {}

(* No identity has two bodies, and whoever has a reply has asked. *)
OneBody == \A x, y \in rows : x[1] = y[1] => x = y
RepliesAreEarned(K) ==
    /\ \A c \in K.clients : out[c] # None \/ got[c] \in Replying => sent[c] = "whole"
    /\ Server(K)!RepliesAreTrue /\ OneBody

HealthIsTrue ==
    /\ health \in [ingestion : Nat, retries : Nat, refusals : Nat, errors : Nat]
    /\ IsFiniteSet(rows)
    /\ health.retries <= health.ingestion
    /\ health.ingestion <= Cardinality(rows) + health.retries
    /\ Cardinality(rows) + health.retries <= health.ingestion + health.refusals

ServerInv(K) ==
    /\ ServerTyped(K) /\ OnceEach /\ ServedInTurn(K) /\ RepliesWait(K)
    /\ RepliesAreEarned(K) /\ HealthIsTrue

-----------------------------------------------------------------------------
LEMMA ServerCounts == \A K, S : Server(K)!Cardinality(S) = Cardinality(S)
  BY DEF Server!Cardinality, Cardinality, Server!IsFiniteSet, IsFiniteSet

LEMMA ServerInitInv ==
  ASSUME NEW K, NoneApart
  PROVE  Server(K)!ServerInit => ServerInv(K)
<1> SUFFICES ASSUME Server(K)!ServerInit PROVE ServerInv(K)
  OBVIOUS
<1>1. ServerTyped(K)
  <2>1. /\ sent \in [K.clients -> {"unconnected", "nothing", "part", "bad", "whole"}]
        /\ asked \in [K.clients -> K.requests \union {None}]
        /\ got \in [K.clients -> Replying \union {"closed", None}]
        /\ out \in [K.clients -> Replying \union {None}]
    BY DEF Server!ServerInit
  <2>2. backlog \in Seq(K.clients) /\ connections \in Seq(K.clients)
    BY DEF Server!ServerInit
  <2> QED
    BY <2>1, <2>2 DEF Server!ServerInit, ServerTyped
<1>2. OnceEach /\ ServedInTurn(K) /\ RepliesWait(K)
  BY DEF Server!ServerInit, OnceEach, ServedInTurn, RepliesWait
<1>3. RepliesAreEarned(K)
  BY DEF Server!ServerInit, RepliesAreEarned, Server!RepliesAreTrue, NoneApart, Replying, OneBody
<1>4. HealthIsTrue
  <2>1. rows = {} /\ health = [ingestion |-> 0, retries |-> 0, refusals |-> 0, errors |-> 0]
    BY DEF Server!ServerInit
  <2> QED
    BY <2>1, FS_EmptySet DEF HealthIsTrue
<1> QED
  BY <1>1, <1>2, <1>3, <1>4 DEF ServerInv

(* The last one takes the place of the one that is removed. *)
IsSwapped(S, t, s, i) ==
    /\ t \in Seq(S) /\ Len(t) = Len(s) - 1
    /\ \A j \in 1..(Len(s) - 1) : t[j] = s[IF j = i THEN Len(s) ELSE j]

LEMMA SwapRemoveIs ==
  ASSUME NEW K, NEW S, NEW s \in Seq(S), NEW i \in 1..Len(s)
  PROVE  IsSwapped(S, Server(K)!SwapRemove(s, i), s, i)
<1> DEFINE t == [s EXCEPT ![i] = s[Len(s)]]
<1>1. t \in Seq(S) /\ Len(t) = Len(s) /\ \A j \in 1..Len(s) : t[j] = IF j = i THEN s[Len(s)] ELSE s[j]
  <2>1. /\ Len(s) \in Nat /\ s \in [1..Len(s) -> S] /\ Len(s) \in 1..Len(s)
    OBVIOUS
  <2>2. t \in [1..Len(s) -> S]
    BY <2>1
  <2> QED
    BY <2>1, <2>2
<1> HIDE DEF t
<1>2. Len(s) \in Nat /\ Len(s) >= 1
  OBVIOUS
<1>3. /\ SubSeq(t, 1, Len(s) - 1) \in Seq(S) /\ Len(SubSeq(t, 1, Len(s) - 1)) = Len(s) - 1
      /\ \A j \in 1..(Len(s) - 1) : SubSeq(t, 1, Len(s) - 1)[j] = t[j]
  BY <1>1, <1>2
<1>4. Server(K)!SwapRemove(s, i) = SubSeq(t, 1, Len(s) - 1)
  BY DEF Server!SwapRemove, t
<1> QED
  BY <1>1, <1>2, <1>3, <1>4 DEF IsSwapped

(* Settle: the one that is served goes behind those still to be served. *)
LEMMA SettleKeeps ==
  ASSUME NEW K, ServerTyped(K), OnceEach, ServedInTurn(K), NEW c, Server(K)!Serving(c),
         NEW keep \in BOOLEAN, Server(K)!Settle(c, keep)
  PROVE  /\ connections' \in Seq(K.clients) /\ index' \in Nat
         /\ OnceEach' /\ ServedInTurn(K)'
         /\ \A i \in DOMAIN connections' : connections'[i] \in Server(K)!Connected
         /\ Server(K)!Connected \subseteq Server(K)!Connected' \union {c}
         /\ keep => c \in Server(K)!Connected'
         /\ c \in K.clients
<1> DEFINE n == Len(connections)
           rest == Server(K)!SwapRemove(connections, index)
<1>1. /\ phase = "serve" /\ index \in 1..n /\ c = connections[index] /\ n \in Nat
      /\ connections \in Seq(K.clients) /\ DOMAIN connections = 1..n /\ c \in K.clients
      /\ \A i \in 1..n : (connections[i] \in served) = (i > index)
  BY DEF Server!Serving, ServerTyped, ServedInTurn, Server!EachServedOnce
<1>0. /\ Len(rest) = n - 1 /\ rest \in Seq(K.clients) /\ n = Len(connections)
      /\ \A j \in 1..(n - 1) : rest[j] = IF j = index THEN connections[n] ELSE connections[j]
  <2>1. connections \in Seq(K.clients) /\ index \in 1..Len(connections)
    BY <1>1
  <2>2. IsSwapped(K.clients, rest, connections, index)
    BY <2>1, SwapRemoveIs
  <2> HIDE DEF rest
  <2>3. \A j \in 1..(Len(connections) - 1) : rest[j] = connections[IF j = index THEN Len(connections) ELSE j]
    BY <2>2 DEF IsSwapped
  <2> QED
    BY <2>2, <2>3 DEF IsSwapped
<1> HIDE DEF n, rest
<1>2. /\ rest \in Seq(K.clients) /\ Len(rest) = n - 1 /\ DOMAIN rest = 1..(n - 1)
      /\ \A j \in 1..(n - 1) : rest[j] = IF j = index THEN connections[n] ELSE connections[j]
  BY <1>0, <1>1
<1>3. /\ connections' = IF keep THEN Append(rest, c) ELSE rest
      /\ index' = index - 1 /\ served' = served \union {c}
      /\ phase' = phase /\ backlog' = backlog /\ sent' = sent
  BY DEF Server!Settle, rest
<1>4. /\ connections' \in Seq(K.clients) /\ Len(connections') \in {n - 1, n}
      /\ DOMAIN connections' = 1..Len(connections')
      /\ \A j \in 1..(n - 1) : connections'[j] = rest[j]
      /\ Len(connections') = n => connections'[n] = c
      /\ keep => Len(connections') = n
  <2>1. CASE keep
    <3>1. connections' = Append(rest, c)
      BY <1>3, <2>1
    <3>2. /\ Len(Append(rest, c)) = n /\ Append(rest, c) \in Seq(K.clients)
          /\ \A j \in 1..(n - 1) : Append(rest, c)[j] = rest[j]
          /\ Append(rest, c)[n] = c
      BY <1>1, <1>2
    <3> QED
      BY <1>1, <3>1, <3>2
  <2>2. CASE ~keep
    BY <1>1, <1>2, <1>3, <2>2
  <2> QED
    BY <2>1, <2>2
<1>5. \A j \in 1..Len(connections') : j \in 1..n /\ (j \in 1..(n - 1) \/ (j = n /\ Len(connections') = n))
  <2>1. n \in Nat /\ (Len(connections') = n - 1 \/ Len(connections') = n)
    BY <1>1, <1>4
  <2>2. CASE Len(connections') = n - 1
    BY <2>1, <2>2
  <2>3. CASE Len(connections') = n
    BY <2>1, <2>3
  <2> QED
    BY <2>1, <2>2, <2>3
<1>6. \A j \in 1..Len(connections') : \E i \in 1..n : connections'[j] = connections[i]
  <2> SUFFICES ASSUME NEW j \in 1..Len(connections')
               PROVE  \E i \in 1..n : connections'[j] = connections[i]
    OBVIOUS
  <2>1. CASE j \in 1..(n - 1) /\ j = index
    <3>1. n \in 1..n
      BY <1>1
    <3> QED
      BY <1>2, <1>4, <2>1, <3>1
  <2>2. CASE j \in 1..(n - 1) /\ j # index
    BY <1>2, <1>4, <1>5, <2>2
  <2>3. CASE j = n /\ Len(connections') = n
    BY <1>1, <1>4, <2>3
  <2> QED
    BY <1>5, <2>1, <2>2, <2>3
<1>7. \A i, j \in 1..Len(connections') : connections'[i] = connections'[j] => i = j
  <2>1. \A i, j \in 1..n : connections[i] = connections[j] => i = j
    BY <1>1 DEF OnceEach
  <2>2. DEFINE from(j) == IF j = n THEN index ELSE IF j = index THEN n ELSE j
  <2>3. ASSUME NEW j \in 1..Len(connections')
        PROVE  from(j) \in 1..n /\ connections'[j] = connections[from(j)]
    <3>1. n \in 1..n /\ j \in 1..n
      BY <1>1, <1>5
    <3>2. CASE j = n
      <4>0. Len(connections') = n
        BY <1>1, <1>5, <3>2
      <4>1. connections'[j] = c
        BY <1>4, <3>2, <4>0
      <4>2. from(j) = index
        BY <3>2
      <4> QED
        BY <1>1, <4>1, <4>2
    <3>3. CASE j # n
      <4>1. j \in 1..(n - 1) /\ connections'[j] = rest[j]
        BY <1>4, <1>5, <3>3
      <4> QED
        BY <1>1, <1>2, <3>1, <3>3, <4>1
    <3> QED
      BY <3>2, <3>3
  <2>4. \A i, j \in 1..Len(connections') : from(i) = from(j) => i = j
    BY <1>1, <1>4, <1>5
  <2> HIDE DEF from
  <2> QED
    BY <2>1, <2>3, <2>4
<1>8. OnceEach'
  <2>1. /\ DOMAIN connections = 1..n /\ DOMAIN connections' = 1..Len(connections')
        /\ backlog' = backlog /\ sent' = sent
    BY <1>1, <1>3, <1>4
  <2>2. \A i \in DOMAIN connections' : sent[connections'[i]] # "unconnected"
    BY <1>6, <2>1 DEF OnceEach
  <2>3. \A i \in DOMAIN connections' : \A j \in DOMAIN backlog : connections'[i] # backlog[j]
    BY <1>6, <2>1 DEF OnceEach
  <2> QED
    BY <1>7, <2>1, <2>2, <2>3 DEF OnceEach
<1>9. ASSUME NEW j \in 1..Len(connections')
      PROVE  (connections'[j] \in served') = (j > index')
  <2>1. \A i, k \in 1..n : connections[i] = connections[k] => i = k
    BY <1>1 DEF OnceEach
  <2>2. CASE j < index
    <3>1. j \in 1..(n - 1) /\ connections'[j] = connections[j] /\ j \in 1..n /\ j # index
      <4>1. j \in 1..n /\ j \in Nat /\ index \in 1..n /\ n \in Nat
        BY <1>1, <1>5
      <4>2. j \in 1..(n - 1) /\ j # index
        BY <2>2, <4>1
      <4> QED
        BY <1>2, <1>4, <4>1, <4>2
    <3>2. connections[j] # c /\ connections[j] \notin served
      BY <1>1, <2>1, <2>2, <3>1
    <3>3. ~(j > index')
      BY <1>1, <1>3, <2>2
    <3> QED
      BY <1>3, <3>1, <3>2, <3>3
  <2>3. CASE j >= index
    <3>1. j > index'
      BY <1>1, <1>3, <2>3
    <3>2. connections'[j] \in served'
      <4>1. CASE j = n
        BY <1>3, <1>4, <1>5, <4>1
      <4>2. CASE j # n /\ j = index
        BY <1>1, <1>2, <1>3, <1>4, <1>5, <4>2
      <4>3. CASE j # n /\ j # index
        BY <1>1, <1>2, <1>3, <1>4, <1>5, <2>3, <4>3
      <4> QED
        BY <4>1, <4>2, <4>3
    <3> QED
      BY <3>1, <3>2
  <2> QED
    BY <1>1, <2>2, <2>3
<1>10. index' \in Nat /\ index' <= Len(connections')
  BY <1>1, <1>3, <1>4
<1>11. ServedInTurn(K)'
  BY <1>1, <1>3, <1>4, <1>9, <1>10 DEF ServedInTurn, Server!EachServedOnce
<1>12. \A i \in DOMAIN connections' : connections'[i] \in Server(K)!Connected
  BY <1>1, <1>4, <1>6 DEF Server!Connected
<1>13. \A i \in 1..(n - 1) : i \in DOMAIN connections'
  <2>1. n \in Nat /\ (Len(connections') = n - 1 \/ Len(connections') = n)
    BY <1>1, <1>4
  <2>2. CASE Len(connections') = n - 1
    BY <1>4, <2>2
  <2>3. CASE Len(connections') = n
    <3>1. DOMAIN connections' = 1..n
      BY <1>4, <2>3
    <3> QED
      BY <2>1, <3>1
  <2> QED
    BY <2>1, <2>2, <2>3
<1>14. ASSUME NEW i \in 1..n, i # index PROVE \E j \in DOMAIN connections' : connections'[j] = connections[i]
  <2>1. index \in 1..n /\ n \in Nat
    BY <1>1
  <2>2. CASE i # n
    <3>0. i \in 1..(n - 1)
      BY <2>1, <2>2
    <3>1. i \in 1..(n - 1) /\ i \in DOMAIN connections'
      BY <1>13, <3>0
    <3> QED
      BY <1>2, <1>4, <1>14, <3>1
  <2>3. CASE i = n
    <3>0. index \in 1..(n - 1)
      BY <1>14, <2>1, <2>3
    <3>1. index \in 1..(n - 1) /\ index \in DOMAIN connections'
      BY <1>13, <3>0
    <3> QED
      BY <1>2, <1>4, <2>3, <3>1
  <2> QED
    BY <2>2, <2>3
<1>15. Server(K)!Connected \subseteq Server(K)!Connected' \union {c}
  BY <1>1, <1>14 DEF Server!Connected
<1>16. keep => c \in Server(K)!Connected'
  <2> SUFFICES ASSUME keep PROVE c \in Server(K)!Connected'
    OBVIOUS
  <2>1. n \in DOMAIN connections' /\ connections'[n] = c
    BY <1>1, <1>4
  <2> QED
    BY <2>1 DEF Server!Connected
<1> QED
  BY <1>1, <1>4, <1>8, <1>10, <1>11, <1>12, <1>15, <1>16


-----------------------------------------------------------------------------
(* A row is added only of an identity that has none. *)
RowsGrow(K, id, body) ==
    /\ OneBody' /\ IsFiniteSet(rows') /\ rows \subseteq rows'
    /\ rows' = rows \/ Cardinality(rows') = Cardinality(rows) + 1
    /\ \A i, b : Server(K)!Stored(i) = {<<i, b>>} => Server(K)!Stored(i)' = {<<i, b>>}
    /\ <<id, body>> \in rows' => Server(K)!Stored(id)' = {<<id, body>>}

LEMMA RowsStay ==
  ASSUME NEW K, OneBody, IsFiniteSet(rows), NEW id, NEW body,
         \/ rows' = rows
         \/ Server(K)!Stored(id) = {} /\ rows' = rows \union {<<id, body>>}
  PROVE  RowsGrow(K, id, body)
<1>1. CASE rows' = rows
  <2>1. <<id, body>> \in rows => Server(K)!Stored(id) = {<<id, body>>}
    BY DEF OneBody, Server!Stored
  <2> QED
    BY <1>1, <2>1 DEF OneBody, Server!Stored, RowsGrow
<1>2. CASE Server(K)!Stored(id) = {} /\ rows' = rows \union {<<id, body>>}
  <2>1. \A x \in rows : x[1] # id
    BY <1>2 DEF Server!Stored
  <2>2. <<id, body>> \notin rows
    BY <2>1
  <2>3. IsFiniteSet(rows') /\ Cardinality(rows') = Cardinality(rows) + 1
    BY <1>2, <2>2, FS_AddElement
  <2>4. OneBody'
    BY <1>2, <2>1 DEF OneBody
  <2>5. \A i : i # id => Server(K)!Stored(i)' = Server(K)!Stored(i)
    BY <1>2 DEF Server!Stored
  <2>6. Server(K)!Stored(id)' = {<<id, body>>}
    BY <1>2, <2>1 DEF Server!Stored
  <2>7. \A i, b : Server(K)!Stored(i) = {<<i, b>>} => i # id
    BY <1>2
  <2> QED
    BY <1>2, <2>3, <2>4, <2>5, <2>6, <2>7 DEF RowsGrow
<1> QED
  BY <1>1, <1>2

(* health counts one more. *)
LEMMA CountingIs ==
  ASSUME NEW K, HealthIsTrue, NEW field \in {"ingestion", "retries", "refusals", "errors"},
         health' = Server(K)!Counting(field)
  PROVE  /\ health' \in [ingestion : Nat, retries : Nat, refusals : Nat, errors : Nat]
         /\ health'.ingestion = IF field = "ingestion" THEN health.ingestion + 1 ELSE health.ingestion
         /\ health'.retries = IF field = "retries" THEN health.retries + 1 ELSE health.retries
         /\ health'.refusals = IF field = "refusals" THEN health.refusals + 1 ELSE health.refusals
BY DEF HealthIsTrue, Server!Counting

LEMMA CountedOther ==
  ASSUME NEW K, HealthIsTrue, NEW field \in {"refusals", "errors"},
         health' = Server(K)!Counting(field), rows' = rows
  PROVE  HealthIsTrue'
<1>1. /\ health' \in [ingestion : Nat, retries : Nat, refusals : Nat, errors : Nat]
      /\ health'.ingestion = health.ingestion /\ health'.retries = health.retries
      /\ health'.refusals \in {health.refusals, health.refusals + 1}
  BY CountingIs
<1>2. /\ health.ingestion \in Nat /\ health.retries \in Nat /\ health.refusals \in Nat
      /\ Cardinality(rows) \in Nat
  BY FS_CardinalityType DEF HealthIsTrue
<1> QED
  BY <1>1, <1>2 DEF HealthIsTrue

(* What a handled request does: rows only come, of new identities, health  *)
(* counts them, and the reply is of the request.                           *)
Handled(K, r, reply) ==
    /\ OneBody' /\ HealthIsTrue'
    /\ stopping' \in BOOLEAN /\ (stopping => stopping')
    /\ \A i, b : Server(K)!Stored(i) = {<<i, b>>} => Server(K)!Stored(i)' = {<<i, b>>}
    /\ reply = "receipt" => r.kind = "submit" /\ Server(K)!Stored(r.id)' = {<<r.id, r.body>>}
    /\ reply = "stopped" => r.kind = "stop" /\ stopping'

LEMMA SubmitStores ==
  ASSUME NEW K, OneBody, HealthIsTrue, NEW r, NEW reply,
         Server(K)!SubmitRequest(r, reply)
  PROVE  /\ OneBody' /\ HealthIsTrue'
         /\ \A i, b : Server(K)!Stored(i) = {<<i, b>>} => Server(K)!Stored(i)' = {<<i, b>>}
         /\ reply \in {"receipt", "error"}
         /\ reply = "receipt" => Server(K)!Stored(r.id)' = {<<r.id, r.body>>}
<1> DEFINE n == Cardinality(rows)
<1>1. /\ health.ingestion \in Nat /\ health.retries \in Nat /\ health.refusals \in Nat
      /\ health.errors \in Nat /\ n \in Nat /\ IsFiniteSet(rows)
      /\ health.retries <= health.ingestion
      /\ health.ingestion <= n + health.retries /\ n + health.retries <= health.ingestion + health.refusals
  BY FS_CardinalityType DEF HealthIsTrue
<1>2. /\ rows' = rows \/ (Server(K)!Stored(r.id) = {} /\ rows' = rows \union {<<r.id, r.body>>})
      /\ reply \in {"receipt", "error"}
      /\ reply = "receipt" => <<r.id, r.body>> \in rows'
  BY DEF Server!SubmitRequest
<1>3. /\ OneBody' /\ IsFiniteSet(rows')
      /\ \A i, b : Server(K)!Stored(i) = {<<i, b>>} => Server(K)!Stored(i)' = {<<i, b>>}
      /\ <<r.id, r.body>> \in rows' => Server(K)!Stored(r.id)' = {<<r.id, r.body>>}
      /\ rows' = rows \/ Cardinality(rows') = n + 1
  <2>1. RowsGrow(K, r.id, r.body)
    BY <1>1, <1>2, RowsStay
  <2> QED
    BY <2>1 DEF RowsGrow
<1>4. HealthIsTrue'
  <2>1. CASE /\ Server(K)!Stored(r.id) = {} /\ rows' = rows \union {<<r.id, r.body>>}
             /\ health' = Server(K)!Counting("ingestion")
    <3>1. /\ health' \in [ingestion : Nat, retries : Nat, refusals : Nat, errors : Nat]
          /\ health'.ingestion = health.ingestion + 1 /\ health'.retries = health.retries
          /\ health'.refusals = health.refusals
      BY <2>1, CountingIs
    <3>2. <<r.id, r.body>> \notin rows /\ rows' # rows
      BY <2>1 DEF Server!Stored
    <3>3. Cardinality(rows') = n + 1
      BY <1>3, <3>2
    <3> HIDE DEF n
    <3> QED
      BY <1>1, <1>3, <3>1, <3>3 DEF HealthIsTrue
  <2>2. CASE /\ rows' = rows
             /\ health' = [health EXCEPT !.ingestion = @ + 1, !.retries = @ + 1]
    <3>1. /\ health' \in [ingestion : Nat, retries : Nat, refusals : Nat, errors : Nat]
          /\ health'.ingestion = health.ingestion + 1 /\ health'.retries = health.retries + 1
          /\ health'.refusals = health.refusals
      <4>1. health \in [ingestion : Nat, retries : Nat, refusals : Nat, errors : Nat]
        BY DEF HealthIsTrue
      <4>2. health.ingestion + 1 \in Nat /\ health.retries + 1 \in Nat
        BY <1>1
      <4> QED
        BY <2>2, <4>1, <4>2
    <3> QED
      BY <1>1, <2>2, <3>1 DEF HealthIsTrue
  <2>3. CASE health' = Server(K)!Counting("refusals")
    <3>1. /\ health' \in [ingestion : Nat, retries : Nat, refusals : Nat, errors : Nat]
          /\ health'.ingestion = health.ingestion /\ health'.retries = health.retries
          /\ health'.refusals = health.refusals + 1
      BY <2>3, CountingIs
    <3>2. Cardinality(rows') = n \/ Cardinality(rows') = n + 1
      BY <1>3
    <3> HIDE DEF n
    <3> QED
      BY <1>1, <1>3, <3>1, <3>2 DEF HealthIsTrue
  <2> QED
    BY <2>1, <2>2, <2>3 DEF Server!SubmitRequest
<1> QED
  BY <1>2, <1>3, <1>4

LEMMA HandleIsTrue ==
  ASSUME NEW K, OneBody, HealthIsTrue, stopping \in BOOLEAN, NEW r, NEW reply,
         Server(K)!Handle(r, reply)
  PROVE  Handled(K, r, reply)
<1>1. CASE r.kind = "submit" /\ Server(K)!SubmitRequest(r, reply) /\ UNCHANGED stopping
  BY <1>1, SubmitStores DEF Handled
<1>2. ASSUME UNCHANGED rows
      PROVE  /\ OneBody'
             /\ \A i, b : Server(K)!Stored(i) = {<<i, b>>} => Server(K)!Stored(i)' = {<<i, b>>}
  BY <1>2 DEF OneBody, Server!Stored
<1>3. CASE /\ reply = "error" /\ UNCHANGED <<rows, stopping>>
           /\ \/ health' = Server(K)!Counting("refusals")
              \/ health' = Server(K)!Counting("errors")
  <2>1. HealthIsTrue'
    BY <1>3, CountedOther
  <2> QED
    BY <1>2, <1>3, <2>1 DEF Handled
<1>4. CASE UNCHANGED <<rows, stopping, health>> /\ reply \in {"status", "records", "error"}
  <2>1. HealthIsTrue'
    BY <1>4 DEF HealthIsTrue
  <2> QED
    BY <1>2, <1>4, <2>1 DEF Handled
<1>5. CASE r.kind = "stop" /\ reply = "stopped" /\ stopping' = TRUE /\ UNCHANGED <<rows, health>>
  <2>1. HealthIsTrue'
    BY <1>5 DEF HealthIsTrue
  <2> QED
    BY <1>2, <1>5, <2>1 DEF Handled
<1> QED
  BY <1>1, <1>3, <1>4, <1>5 DEF Server!Handle


-----------------------------------------------------------------------------
ReplyOf(c) == IF out[c] # None THEN out[c] ELSE got[c]
RightReply(K, c, reply) ==
    /\ reply = "receipt" =>
         /\ asked[c].kind = "submit"
         /\ Server(K)!Stored(asked[c].id) = {<<asked[c].id, asked[c].body>>}
    /\ reply = "stopped" => asked[c].kind = "stop" /\ stopping

LEMMA RepliesAre ==
  ASSUME NEW K
  PROVE  Server(K)!RepliesAreTrue <=> \A c \in K.clients : RightReply(K, c, ReplyOf(c))
BY DEF Server!RepliesAreTrue, RightReply, ReplyOf

(* The reply of one client changes while rows only come. *)
LEMMA ReplyChanges ==
  ASSUME NEW K, RepliesAreEarned(K), NEW c \in K.clients,
         UNCHANGED <<sent, asked>>, OneBody', stopping => stopping',
         \A i, b : Server(K)!Stored(i) = {<<i, b>>} => Server(K)!Stored(i)' = {<<i, b>>},
         \A d \in K.clients \ {c} : out'[d] = out[d] /\ got'[d] = got[d],
         out'[c] # None \/ got'[c] \in Replying => sent[c] = "whole",
         RightReply(K, c, ReplyOf(c))'
  PROVE  RepliesAreEarned(K)'
<1>1. ASSUME NEW d \in K.clients \ {c} PROVE RightReply(K, d, ReplyOf(d))'
  <2>1. RightReply(K, d, ReplyOf(d)) /\ ReplyOf(d)' = ReplyOf(d) /\ asked'[d] = asked[d]
    BY <1>1, RepliesAre DEF RepliesAreEarned, ReplyOf
  <2> QED
    BY <2>1 DEF RightReply
<1>2. \A d \in K.clients : RightReply(K, d, ReplyOf(d))'
  BY <1>1
<1>3. Server(K)!RepliesAreTrue'
  BY <1>2 DEF Server!RepliesAreTrue, RightReply, ReplyOf
<1>4. \A d \in K.clients : out'[d] # None \/ got'[d] \in Replying => sent'[d] = "whole"
  BY DEF RepliesAreEarned
<1> QED
  BY <1>3, <1>4 DEF RepliesAreEarned

(* A step that serves c changes c's place and its reply. *)
LEMMA ServedKeeps ==
  ASSUME NEW K, ServerInv(K), NEW c, Server(K)!Serving(c), NEW keep \in BOOLEAN,
         Server(K)!Settle(c, keep),
         out' \in [K.clients -> Replying \union {None}],
         got' \in [K.clients -> Replying \union {"closed", None}],
         \A d \in K.clients \ {c} : out'[d] = out[d],
         out'[c] # None => keep,
         stopping' \in BOOLEAN, HealthIsTrue', RepliesAreEarned(K)'
  PROVE  ServerInv(K)'
<1>1. /\ connections' \in Seq(K.clients) /\ index' \in Nat /\ OnceEach' /\ ServedInTurn(K)'
  BY SettleKeeps DEF ServerInv
<1>2. UNCHANGED <<backlog, sent, asked, phase>>
  BY DEF Server!Settle
<1>3. ServerTyped(K)'
  BY <1>1, <1>2 DEF ServerInv, ServerTyped
<1>4. RepliesWait(K)'
  <2>1. /\ Server(K)!Connected \subseteq Server(K)!Connected' \union {c}
        /\ keep => c \in Server(K)!Connected'
    BY SettleKeeps DEF ServerInv
  <2> QED
    BY <2>1 DEF ServerInv, RepliesWait
<1> QED
  BY <1>1, <1>3, <1>4 DEF ServerInv

LEMMA SettleLeaves ==
  ASSUME NEW K, NEW c, NEW keep, Server(K)!Settle(c, keep)
  PROVE  UNCHANGED <<backlog, sent, asked, phase>>
BY DEF Server!Settle

(* What is kept of replies when rows and the request to stop stand still. *)
LEMMA SameRows ==
  ASSUME NEW K, UNCHANGED rows
  PROVE  \A i : Server(K)!Stored(i)' = Server(K)!Stored(i)
BY DEF Server!Stored

(* c is dropped without an answer. *)
LEMMA ClosedKeeps ==
  ASSUME NoneApart, NEW K, ServerInv(K), NEW c, Server(K)!Serving(c),
         Server(K)!Drop(c, "closed"), UNCHANGED <<stopping, rows>>, HealthIsTrue'
  PROVE  ServerInv(K)'
<1>1. c \in K.clients
  BY SettleKeeps DEF ServerInv, Server!Drop
<1>2. /\ got' = [got EXCEPT ![c] = "closed"] /\ out' = [out EXCEPT ![c] = None]
      /\ UNCHANGED <<sent, asked>> /\ Server(K)!Settle(c, FALSE)
  BY SettleLeaves DEF Server!Drop
<1>3. /\ out' \in [K.clients -> Replying \union {None}] /\ out'[c] = None /\ got'[c] = "closed"
      /\ got' \in [K.clients -> Replying \union {"closed", None}]
      /\ \A d \in K.clients \ {c} : out'[d] = out[d] /\ got'[d] = got[d]
  BY <1>1, <1>2 DEF ServerInv, ServerTyped
<1>4. RightReply(K, c, ReplyOf(c))' /\ "closed" \notin Replying
  BY <1>3 DEF RightReply, ReplyOf, Replying
<1>5. RepliesAreEarned(K)'
  <2>1. OneBody' /\ RepliesAreEarned(K)
    BY DEF ServerInv, RepliesAreEarned, OneBody
  <2> QED
    BY <1>1, <1>2, <1>3, <1>4, <2>1, SameRows, ReplyChanges
<1> QED
  BY <1>2, <1>3, <1>5, ServedKeeps DEF ServerInv, ServerTyped

LEMMA ServeStays ==
  ASSUME NoneApart, NEW K, ServerInv(K), NEW c, Server(K)!Serve(c)
  PROVE  /\ ServerInv(K)'
         /\ Server(K)!LateIsNotStored
         /\ Server(K)!StopIsFinal
<1>0. /\ ServerTyped(K) /\ OnceEach /\ ServedInTurn(K) /\ RepliesAreEarned(K) /\ HealthIsTrue
      /\ RepliesWait(K) /\ Server(K)!Serving(c) /\ c = connections[index]
  BY DEF ServerInv, Server!Serve, Server!RefuseLate, Server!WaitForClient, Server!FailClient,
         Server!FinishReply, Server!Answer, Server!Serving
<1>1. PICK keep \in BOOLEAN : Server(K)!Settle(c, keep)
  BY DEF Server!Serve, Server!RefuseLate, Server!WaitForClient, Server!FailClient,
         Server!FinishReply, Server!Answer, Server!Drop, Server!Keep
<1>2. /\ c \in K.clients /\ UNCHANGED <<backlog, sent, asked, phase>> /\ next_source' = next_source
      /\ \A i \in DOMAIN connections' : connections'[i] \in Server(K)!Connected
  BY <1>0, <1>1, SettleKeeps DEF Server!Settle
<1>3. CASE Server(K)!RefuseLate(c)
  <2>1. HealthIsTrue'
    BY <1>0, <1>3, CountedOther DEF Server!RefuseLate
  <2>2. ServerInv(K)'
    BY <1>3, <2>1, ClosedKeeps DEF Server!RefuseLate
  <2> QED
    BY <1>2, <1>3, <2>2 DEF Server!RefuseLate, Server!LateIsNotStored, Server!StopIsFinal
<1>4. CASE Server(K)!FailClient(c)
  <2>1. HealthIsTrue'
    BY <1>0, <1>4, CountedOther DEF Server!FailClient
  <2>2. ServerInv(K)'
    BY <1>4, <2>1, ClosedKeeps DEF Server!FailClient
  <2> QED
    BY <1>2, <1>4, <2>2 DEF Server!FailClient, Server!LateIsNotStored, Server!StopIsFinal
<1>5. CASE Server(K)!WaitForClient(c)
  <2>1. UNCHANGED <<got, out, stopping, rows, health>> /\ Server(K)!Settle(c, TRUE)
    BY <1>5 DEF Server!WaitForClient, Server!Keep
  <2>2. RepliesAreEarned(K)' /\ HealthIsTrue'
    BY <1>0, <1>2, <2>1 DEF RepliesAreEarned, Server!RepliesAreTrue, Server!Stored, OneBody, HealthIsTrue
  <2>3. ServerInv(K)'
    BY <1>0, <2>1, <2>2, ServedKeeps DEF ServerTyped
  <2> QED
    BY <1>2, <2>1, <2>3 DEF Server!LateIsNotStored, Server!StopIsFinal
<1>6. CASE Server(K)!FinishReply(c)
  <2>1. /\ UNCHANGED <<stopping, rows>> /\ out[c] # None
        /\ got' = [got EXCEPT ![c] = out[c]] /\ out' = [out EXCEPT ![c] = None]
    BY <1>6 DEF Server!FinishReply, Server!Drop
  <2>2. HealthIsTrue'
    BY <1>0, <1>6, CountedOther DEF Server!FinishReply
  <2>3. /\ out' \in [K.clients -> Replying \union {None}] /\ out'[c] = None /\ got'[c] = out[c]
        /\ got' \in [K.clients -> Replying \union {"closed", None}]
        /\ \A d \in K.clients \ {c} : out'[d] = out[d] /\ got'[d] = got[d]
    BY <1>0, <1>2, <2>1 DEF ServerTyped
  <2>4. RightReply(K, c, ReplyOf(c))'
    <3>1. RightReply(K, c, ReplyOf(c)) /\ ReplyOf(c)' = ReplyOf(c)
      BY <1>0, <1>2, <2>1, <2>3, RepliesAre DEF RepliesAreEarned, ReplyOf
    <3> QED
      BY <1>2, <2>1, <3>1, SameRows DEF RightReply
  <2>5. RepliesAreEarned(K)'
    <3>1. sent[c] = "whole" /\ OneBody'
      BY <1>0, <1>2, <2>1 DEF RepliesAreEarned, OneBody
    <3> QED
      BY <1>0, <1>2, <2>1, <2>3, <2>4, <3>1, SameRows, ReplyChanges
  <2>6. ServerInv(K)'
    BY <1>0, <1>1, <2>1, <2>2, <2>3, <2>5, ServedKeeps DEF ServerTyped
  <2> QED
    BY <1>2, <2>1, <2>6 DEF Server!LateIsNotStored, Server!StopIsFinal
<1>7. CASE Server(K)!Answer(c)
  <2>1. /\ c \notin expired /\ sent[c] = "whole" /\ out[c] = None
    BY <1>7 DEF Server!Answer
  <2>2. PICK reply \in Replying :
          /\ Server(K)!Handle(asked[c], reply)
          /\ \/ got' = [got EXCEPT ![c] = "closed"] /\ out' = [out EXCEPT ![c] = None]
             \/ got' = [got EXCEPT ![c] = reply] /\ out' = [out EXCEPT ![c] = None]
             \/ out' = [out EXCEPT ![c] = reply] /\ UNCHANGED got /\ Server(K)!Settle(c, TRUE)
    BY <1>7 DEF Server!Answer, Server!Drop, Server!Replies, Replying
  <2>3. Handled(K, asked[c], reply)
    BY <1>0, <2>2, HandleIsTrue DEF ServerTyped, RepliesAreEarned
  <2>4. reply # None
    BY DEF NoneApart
  <2>5. /\ out' \in [K.clients -> Replying \union {None}]
        /\ got' \in [K.clients -> Replying \union {"closed", None}]
        /\ \A d \in K.clients \ {c} : out'[d] = out[d] /\ got'[d] = got[d]
    BY <1>0, <1>2, <2>2, ZenonT(40) DEF ServerTyped
  <2>6. ReplyOf(c)' \in {reply, "closed"}
    BY <1>0, <1>2, <2>1, <2>2, <2>4 DEF ServerTyped, ReplyOf
  <2>7. RightReply(K, c, ReplyOf(c))'
    BY <1>2, <2>3, <2>6 DEF RightReply, Handled
  <2>8. RepliesAreEarned(K)'
    BY <1>0, <1>2, <2>1, <2>3, <2>5, <2>7, ReplyChanges DEF Handled
  <2>9. ServerInv(K)'
    <3>1. CASE out'[c] = None
      BY <1>0, <1>1, <2>3, <2>5, <2>8, <3>1, ServedKeeps DEF Handled
    <3>2. CASE Server(K)!Settle(c, TRUE)
      BY <1>0, <2>3, <2>5, <2>8, <3>2, ServedKeeps DEF Handled
    <3> QED
      BY <1>0, <1>2, <2>2, <3>1, <3>2 DEF ServerTyped
  <2> QED
    BY <1>0, <1>2, <2>1, <2>3, <2>9 DEF Handled, Server!LateIsNotStored, Server!StopIsFinal
<1> QED
  BY <1>3, <1>4, <1>5, <1>6, <1>7 DEF Server!Serve


-----------------------------------------------------------------------------
(* What does not touch the connections keeps who is served when. *)
LEMMA ConnectionsStay ==
  ASSUME NEW K, ServedInTurn(K), UNCHANGED <<phase, served, index, connections>>
  PROVE  ServedInTurn(K)'
BY DEF ServedInTurn, Server!EachServedOnce

LEMMA WaitingStays ==
  ASSUME NEW K, RepliesWait(K), UNCHANGED out,
         \A i \in DOMAIN connections : \E j \in DOMAIN connections' : connections'[j] = connections[i]
  PROVE  RepliesWait(K)'
BY DEF RepliesWait, Server!Connected

LEMMA ClientStays ==
  ASSUME NEW K, ServerInv(K), NEW c \in K.clients,
         \/ Server(K)!Connect(c) \/ Server(K)!SendPart(c) \/ Server(K)!SendAll(c)
         \/ Server(K)!HangUp(c) \/ Server(K)!Expire(c)
  PROVE  ServerInv(K)'
<1>0. /\ ServerTyped(K) /\ OnceEach /\ ServedInTurn(K) /\ RepliesAreEarned(K) /\ HealthIsTrue
      /\ UNCHANGED <<phase, served, index, connections, out, got, stopping, rows, health>>
  BY DEF ServerInv, Server!Connect, Server!SendPart, Server!SendAll, Server!HangUp,
         Server!Expire, Server!loop, Server!clients
<1>1. ServedInTurn(K)' /\ RepliesWait(K)' /\ HealthIsTrue' /\ OneBody'
  BY <1>0, ConnectionsStay, WaitingStays DEF ServerInv, HealthIsTrue, OneBody, RepliesAreEarned
<1>2. CASE Server(K)!Connect(c)
  <2>1. /\ sent[c] = "unconnected" /\ sent' = [sent EXCEPT ![c] = "nothing"]
        /\ backlog' = Append(backlog, c) /\ asked' = asked
    BY <1>2 DEF Server!Connect
  <2>2. /\ sent' \in [K.clients -> {"unconnected", "nothing", "part", "bad", "whole"}]
        /\ sent'[c] = "nothing" /\ \A d \in K.clients \ {c} : sent'[d] = sent[d]
    BY <1>0, <2>1 DEF ServerTyped
  <2>3. /\ backlog' \in Seq(K.clients) /\ Len(backlog') = Len(backlog) + 1
        /\ Len(backlog) \in Nat /\ DOMAIN backlog = 1..Len(backlog)
        /\ DOMAIN backlog' = 1..(Len(backlog) + 1)
        /\ backlog'[Len(backlog) + 1] = c /\ \A i \in 1..Len(backlog) : backlog'[i] = backlog[i]
    BY <1>0, <2>1 DEF ServerTyped
  <2>4. /\ \A i \in DOMAIN connections : connections[i] \in K.clients \ {c}
        /\ \A i \in DOMAIN backlog : backlog[i] \in K.clients \ {c}
    BY <1>0, <2>1 DEF ServerTyped, OnceEach
  <2>5. OnceEach'
    <3>1. \A i \in DOMAIN backlog' : i \in DOMAIN backlog \/ i = Len(backlog) + 1
      BY <2>3
    <3>2. \A i \in DOMAIN backlog : i # Len(backlog) + 1 /\ backlog'[i] = backlog[i]
      BY <2>3
    <3>3. \A i, j \in DOMAIN backlog' : backlog'[i] = backlog'[j] => i = j
      BY <1>0, <2>3, <2>4, <3>1, <3>2 DEF OnceEach
    <3>4. \A i \in DOMAIN backlog' : sent'[backlog'[i]] # "unconnected"
      BY <1>0, <2>2, <2>3, <2>4, <3>1, <3>2 DEF OnceEach
    <3>5. \A i \in DOMAIN connections : \A j \in DOMAIN backlog' : connections[i] # backlog'[j]
      BY <1>0, <2>3, <2>4, <3>1, <3>2 DEF OnceEach
    <3>6. \A i \in DOMAIN connections : sent'[connections[i]] # "unconnected"
      BY <1>0, <2>2, <2>4 DEF OnceEach
    <3> QED
      BY <1>0, <3>3, <3>4, <3>5, <3>6 DEF OnceEach
  <2>6. RepliesAreEarned(K)'
    BY <1>0, <1>1, <2>1, <2>2 DEF RepliesAreEarned, Server!RepliesAreTrue, Server!Stored
  <2>7. ServerTyped(K)'
    BY <1>0, <2>1, <2>2, <2>3 DEF ServerTyped
  <2> QED
    BY <1>1, <2>5, <2>6, <2>7 DEF ServerInv
<1>3. CASE Server(K)!SendPart(c)
  <2>1. /\ sent[c] = "nothing" /\ UNCHANGED <<backlog, asked>>
        /\ \E what \in {"part", "bad"} : sent' = [sent EXCEPT ![c] = what]
    BY <1>3 DEF Server!SendPart
  <2>2. /\ sent' \in [K.clients -> {"unconnected", "nothing", "part", "bad", "whole"}]
        /\ sent'[c] \in {"part", "bad"} /\ \A d \in K.clients \ {c} : sent'[d] = sent[d]
    BY <1>0, <2>1 DEF ServerTyped
  <2>3. OnceEach'
    BY <1>0, <2>1, <2>2 DEF OnceEach, ServerTyped
  <2>4. RepliesAreEarned(K)'
    BY <1>0, <1>1, <2>1, <2>2 DEF RepliesAreEarned, Server!RepliesAreTrue, Server!Stored
  <2>5. ServerTyped(K)'
    BY <1>0, <2>1, <2>2 DEF ServerTyped
  <2> QED
    BY <1>1, <2>3, <2>4, <2>5 DEF ServerInv
<1>4. CASE Server(K)!SendAll(c)
  <2>1. /\ sent[c] \in {"nothing", "part"} /\ backlog' = backlog
        /\ sent' = [sent EXCEPT ![c] = "whole"]
        /\ \E r \in K.requests : asked' = [asked EXCEPT ![c] = r]
    BY <1>4 DEF Server!SendAll
  <2>2. /\ sent' \in [K.clients -> {"unconnected", "nothing", "part", "bad", "whole"}]
        /\ sent'[c] = "whole"
        /\ \A d \in K.clients \ {c} : sent'[d] = sent[d] /\ asked'[d] = asked[d]
        /\ asked' \in [K.clients -> K.requests \union {None}]
    BY <1>0, <2>1 DEF ServerTyped
  <2>3. OnceEach'
    BY <1>0, <2>1, <2>2 DEF OnceEach, ServerTyped
  <2>4. RepliesAreEarned(K)'
    <3>1. out[c] = None /\ got[c] \notin Replying
      BY <1>0, <2>1 DEF RepliesAreEarned
    <3>2. \A d \in K.clients : RightReply(K, d, ReplyOf(d))'
      <4>1. ASSUME NEW d \in K.clients \ {c} PROVE RightReply(K, d, ReplyOf(d))'
        <5>1. RightReply(K, d, ReplyOf(d))
          BY <1>0, RepliesAre DEF RepliesAreEarned
        <5> QED
          BY <1>0, <2>2, <5>1, SameRows DEF RightReply, ReplyOf
      <4>2. RightReply(K, c, ReplyOf(c))'
        BY <1>0, <3>1 DEF RightReply, ReplyOf, Replying
      <4> QED
        BY <4>1, <4>2
    <3>3. Server(K)!RepliesAreTrue'
      BY <3>2 DEF Server!RepliesAreTrue, RightReply, ReplyOf
    <3> QED
      BY <1>0, <1>1, <2>2, <3>3 DEF RepliesAreEarned
  <2>5. ServerTyped(K)'
    BY <1>0, <2>1, <2>2 DEF ServerTyped
  <2> QED
    BY <1>1, <2>3, <2>4, <2>5 DEF ServerInv
<1>5. CASE Server(K)!HangUp(c) \/ Server(K)!Expire(c)
  <2>1. UNCHANGED <<backlog, sent, asked>>
    BY <1>5 DEF Server!HangUp, Server!Expire, Server!clients
  <2> QED
    BY <1>0, <1>1, <2>1 DEF ServerInv, ServerTyped, OnceEach, RepliesAreEarned,
                            Server!RepliesAreTrue, Server!Stored
<1> QED
  BY <1>2, <1>3, <1>4, <1>5

LEMMA FirstTaken ==
  ASSUME NEW S, NEW s \in Seq(S), s # <<>>
  PROVE  /\ SubSeq(s, 2, Len(s)) \in Seq(S) /\ Len(SubSeq(s, 2, Len(s))) = Len(s) - 1
         /\ \A j \in 1..(Len(s) - 1) : SubSeq(s, 2, Len(s))[j] = s[j + 1]
<1>1. SubSeq(s, 2, Len(s)) = Tail(s)
  OBVIOUS
<1>2. Tail(s) \in Seq(S) /\ Len(Tail(s)) = Len(s) - 1
  OBVIOUS
<1>3. \A j \in 1..(Len(s) - 1) : Tail(s)[j] = s[j + 1]
  OBVIOUS
<1> QED
  BY <1>1, <1>2, <1>3

LEMMA AcceptStays ==
  ASSUME NoneApart, NEW K, ServerInv(K), Server(K)!Accept
  PROVE  ServerInv(K)'
<1>a. /\ backlog \in Seq(K.clients) /\ backlog # <<>>
      /\ DOMAIN backlog = 1..Len(backlog) /\ 1 \in 1..Len(backlog) /\ Len(backlog) \in Nat
  BY DEF ServerInv, ServerTyped, Server!Accept
<1>b. PICK c \in K.clients : c = backlog[1]
  BY <1>a
<1>0. /\ ServerTyped(K) /\ OnceEach /\ ServedInTurn(K) /\ RepliesAreEarned(K) /\ HealthIsTrue
      /\ UNCHANGED <<sent, asked, out, phase, index, stopping, served, rows>>
      /\ phase = "accept" /\ backlog # <<>> /\ backlog' = SubSeq(backlog, 2, Len(backlog))
      /\ \/ /\ health' = Server(K)!Counting("refusals") /\ connections' = connections
            /\ got' = [got EXCEPT ![c] = "closed"]
         \/ connections' = Append(connections, c) /\ UNCHANGED <<health, got>>
  BY <1>b DEF ServerInv, Server!Accept
<1>1. /\ c \in K.clients /\ DOMAIN backlog = 1..Len(backlog) /\ 1 \in 1..Len(backlog)
      /\ Len(backlog) \in Nat /\ c = backlog[1]
  BY <1>a, <1>b
<1>2. /\ backlog' \in Seq(K.clients) /\ DOMAIN backlog' = 1..(Len(backlog) - 1)
      /\ \A j \in 1..(Len(backlog) - 1) : backlog'[j] = backlog[j + 1]
  <2>1. /\ SubSeq(backlog, 2, Len(backlog)) \in Seq(K.clients)
        /\ Len(SubSeq(backlog, 2, Len(backlog))) = Len(backlog) - 1
    BY <1>a, FirstTaken
  <2>2. \A j \in 1..(Len(backlog) - 1) : SubSeq(backlog, 2, Len(backlog))[j] = backlog[j + 1]
    BY <1>a
  <2> QED
    BY <1>0, <1>1, <2>1, <2>2
<1>3. \A j \in DOMAIN backlog' : j + 1 \in DOMAIN backlog /\ j + 1 # 1 /\ backlog'[j] = backlog[j + 1]
  BY <1>1, <1>2
<1>4. \A j \in DOMAIN backlog' : backlog'[j] # c
  BY <1>1, <1>3 DEF OnceEach, ServerInv
<1>5. \A i, j \in DOMAIN backlog' : backlog'[i] = backlog'[j] => i = j
  <2> SUFFICES ASSUME NEW i \in DOMAIN backlog', NEW j \in DOMAIN backlog', backlog'[i] = backlog'[j]
               PROVE  i = j
    OBVIOUS
  <2>1. i + 1 = j + 1
    BY <1>0, <1>3 DEF OnceEach
  <2> QED
    BY <1>1, <1>2, <2>1
<1>6. /\ connections' \in Seq(K.clients)
      /\ \A i, j \in DOMAIN connections' : connections'[i] = connections'[j] => i = j
      /\ \A i \in DOMAIN connections' : \/ i \in DOMAIN connections /\ connections'[i] = connections[i]
                                        \/ connections'[i] = c
  <2>1. CASE connections' = connections
    BY <1>0, <2>1 DEF ServerTyped, OnceEach
  <2>2. CASE connections' = Append(connections, c)
    <3>1. /\ connections' \in Seq(K.clients) /\ DOMAIN connections = 1..Len(connections)
          /\ Len(connections) \in Nat /\ DOMAIN connections' = 1..(Len(connections) + 1)
          /\ connections'[Len(connections) + 1] = c
          /\ \A i \in 1..Len(connections) : connections'[i] = connections[i]
      BY <1>0, <1>1, <2>2 DEF ServerTyped
    <3>2. \A i \in DOMAIN connections' : i \in DOMAIN connections \/ i = Len(connections) + 1
      BY <3>1
    <3>3. \A i \in DOMAIN connections : i # Len(connections) + 1 /\ connections[i] # c
      <4>1. \A i \in DOMAIN connections : connections[i] # c
        BY <1>0, <1>1 DEF OnceEach
      <4> QED
        BY <3>1, <4>1
    <3> QED
      BY <1>0, <3>1, <3>2, <3>3 DEF OnceEach
  <2> QED
    BY <1>0, <2>1, <2>2
<1>7. sent[c] # "unconnected"
  BY <1>0, <1>1 DEF OnceEach
<1>8. OnceEach'
  <2>1. \A i \in DOMAIN connections' : \A j \in DOMAIN backlog' : connections'[i] # backlog'[j]
    BY <1>0, <1>3, <1>4, <1>6 DEF OnceEach
  <2>2. /\ \A i \in DOMAIN connections' : sent[connections'[i]] # "unconnected"
        /\ \A j \in DOMAIN backlog' : sent[backlog'[j]] # "unconnected"
    BY <1>0, <1>3, <1>6, <1>7 DEF OnceEach
  <2> QED
    BY <1>0, <1>5, <1>6, <2>1, <2>2 DEF OnceEach
<1>9. /\ got' \in [K.clients -> Replying \union {"closed", None}]
      /\ \A d \in K.clients \ {c} : got'[d] = got[d]
      /\ got'[c] \in {got[c], "closed"}
  BY <1>0, <1>1 DEF ServerTyped
<1>10. HealthIsTrue'
  <2>1. CASE health' = Server(K)!Counting("refusals")
    BY <1>0, <2>1, CountedOther
  <2>2. CASE health' = health
    BY <1>0, <2>2 DEF HealthIsTrue
  <2> QED
    BY <1>0, <2>1, <2>2
<1>11. RepliesAreEarned(K)'
  <2>1. RightReply(K, c, ReplyOf(c)) /\ (out[c] # None \/ got[c] \in Replying => sent[c] = "whole")
    BY <1>0, <1>1, RepliesAre DEF RepliesAreEarned
  <2>2. RightReply(K, c, ReplyOf(c))'
    <3>1. ReplyOf(c)' \in {ReplyOf(c), "closed"}
      BY <1>0, <1>9 DEF ReplyOf
    <3> QED
      BY <1>0, <2>1, <3>1, SameRows DEF RightReply
  <2>3. OneBody' /\ (out'[c] # None \/ got'[c] \in Replying => sent[c] = "whole")
    BY <1>0, <1>9, <2>1 DEF RepliesAreEarned, OneBody, Replying
  <2> QED
    BY <1>0, <1>1, <1>9, <2>2, <2>3, SameRows, ReplyChanges
<1>12. ServerTyped(K)'
  BY <1>0, <1>2, <1>6, <1>9 DEF ServerTyped
<1>13. ServedInTurn(K)'
  BY <1>0 DEF ServedInTurn
<1>14. RepliesWait(K)'
  <2>1. \A i \in DOMAIN connections : i \in DOMAIN connections' /\ connections'[i] = connections[i]
    <3>1. CASE connections' = connections
      BY <3>1
    <3>2. CASE connections' = Append(connections, c)
      <4>1. DOMAIN connections = 1..Len(connections) /\ Len(connections) \in Nat
        BY <1>0 DEF ServerTyped
      <4>2. /\ Len(Append(connections, c)) = Len(connections) + 1
            /\ DOMAIN Append(connections, c) = 1..(Len(connections) + 1)
            /\ \A i \in 1..Len(connections) : Append(connections, c)[i] = connections[i]
        BY <1>0, <1>1 DEF ServerTyped
      <4> QED
        BY <3>2, <4>1, <4>2
    <3> QED
      BY <1>0, <3>1, <3>2
  <2> QED
    BY <1>0, <2>1, WaitingStays DEF ServerInv
<1> QED
  BY <1>8, <1>10, <1>11, <1>12, <1>13, <1>14 DEF ServerInv


(* The other steps of a tick touch one part of the state each. *)
LEMMA RestStays ==
  ASSUME NoneApart, NEW K, ServerInv(K),
         \/ Server(K)!AcceptFails \/ Server(K)!EndAccept \/ Server(K)!EndServe \/ Server(K)!Poll
         \/ UNCHANGED Server(K)!serverVars
  PROVE  ServerInv(K)'
<1>0. /\ ServerTyped(K) /\ OnceEach /\ ServedInTurn(K) /\ RepliesAreEarned(K) /\ HealthIsTrue
      /\ UNCHANGED <<sent, asked, backlog, stopping, rows, health>>
  BY DEF ServerInv, Server!AcceptFails, Server!EndAccept, Server!EndServe, Server!Poll,
         Server!serverVars, Server!clients, Server!loop
<1>1. HealthIsTrue'
  BY <1>0 DEF HealthIsTrue
<1>2. CASE Server(K)!AcceptFails
  <2>1. /\ phase' = "ended" /\ connections' = <<>> /\ index' = 0
        /\ out' = [c \in K.clients |-> None]
        /\ got' = [c \in K.clients |-> IF c \in Server(K)!Connected THEN "closed" ELSE got[c]]
    BY <1>2 DEF Server!AcceptFails
  <2>2. /\ connections' \in Seq(K.clients) /\ DOMAIN connections' = {}
        /\ out' \in [K.clients -> Replying \union {None}]
        /\ got' \in [K.clients -> Replying \union {"closed", None}]
    BY <1>0, <2>1 DEF ServerTyped
  <2>3. ServerTyped(K)'
    BY <1>0, <2>1, <2>2 DEF ServerTyped
  <2>4. OnceEach' /\ ServedInTurn(K)' /\ RepliesWait(K)'
    BY <1>0, <2>1, <2>2 DEF OnceEach, ServedInTurn, RepliesWait
  <2>5. RepliesAreEarned(K)'
    <3>1. ASSUME NEW c \in K.clients PROVE RightReply(K, c, ReplyOf(c))'
      <4>1. /\ RightReply(K, c, ReplyOf(c)) /\ out'[c] = None
            /\ got'[c] = "closed" \/ got'[c] = got[c]
        BY <1>0, <2>1, RepliesAre DEF RepliesAreEarned
      <4>2. got[c] \in Replying => out[c] = None \/ out[c] \in Replying
        BY <1>0 DEF ServerTyped
      <4>3. CASE got'[c] = "closed"
        BY <4>1, <4>3 DEF RightReply, ReplyOf
      <4>4. CASE got'[c] = got[c] /\ out[c] = None
        <5>1. ReplyOf(c)' = ReplyOf(c)
          BY <4>1, <4>4 DEF ReplyOf
        <5> QED
          BY <1>0, <4>1, <5>1, SameRows DEF RightReply
      <4>5. CASE got'[c] = got[c] /\ out[c] # None
        <5>1. c \in Server(K)!Connected
          BY <4>5 DEF ServerInv, RepliesWait
        <5>2. got'[c] = "closed"
          BY <2>1, <5>1
        <5> QED
          BY <4>3, <5>2
      <4> QED
        BY <4>1, <4>3, <4>4, <4>5
    <3>2. Server(K)!RepliesAreTrue'
      BY <3>1 DEF Server!RepliesAreTrue, RightReply, ReplyOf
    <3>3. \A c \in K.clients : out'[c] # None \/ got'[c] \in Replying => sent'[c] = "whole"
      BY <1>0, <2>1 DEF RepliesAreEarned, Replying
    <3> QED
      BY <1>0, <3>2, <3>3 DEF RepliesAreEarned, OneBody
  <2> QED
    BY <1>1, <2>3, <2>4, <2>5 DEF ServerInv
<1>3. CASE \/ Server(K)!EndAccept \/ Server(K)!EndServe \/ Server(K)!Poll
           \/ UNCHANGED Server(K)!serverVars
  <2>1. UNCHANGED <<connections, out, got>>
    BY <1>3 DEF Server!EndAccept, Server!EndServe, Server!Poll, Server!serverVars,
                Server!clients, Server!loop
  <2>2. OnceEach' /\ RepliesAreEarned(K)' /\ RepliesWait(K)'
    BY <1>0, <2>1, WaitingStays DEF ServerInv, OnceEach, RepliesAreEarned, Server!RepliesAreTrue, Server!Stored, OneBody
  <2>3. ServerTyped(K)' /\ ServedInTurn(K)'
    <3>1. CASE Server(K)!EndAccept
      <4>1. /\ phase = "accept" /\ phase' = "serve" /\ index' = Len(connections) /\ served' = served
        BY <3>1 DEF Server!EndAccept
      <4>2. /\ Len(connections) \in Nat /\ DOMAIN connections = 1..Len(connections)
            /\ served = {}
        BY <1>0, <4>1 DEF ServerTyped, ServedInTurn
      <4>3. \A i \in DOMAIN connections' : (connections'[i] \in served') = (i > index')
        BY <2>1, <4>1, <4>2
      <4> QED
        BY <1>0, <2>1, <4>1, <4>2, <4>3 DEF ServerTyped, ServedInTurn, Server!EachServedOnce
    <3>2. CASE Server(K)!EndServe
      BY <1>0, <2>1, <3>2 DEF Server!EndServe, ServerTyped, ServedInTurn, Server!clients
    <3>3. CASE Server(K)!Poll
      <4>1. /\ phase = "poll" /\ phase' \in {"ended", "accept"} /\ UNCHANGED <<index, served>>
        BY <3>3 DEF Server!Poll
      <4> QED
        BY <1>0, <2>1, <4>1 DEF ServerTyped, ServedInTurn
    <3>4. CASE UNCHANGED Server(K)!serverVars
      BY <1>0, <3>4 DEF Server!serverVars, Server!clients, Server!loop, ServerTyped,
                        ServedInTurn, Server!EachServedOnce
    <3> QED
      BY <1>3, <3>1, <3>2, <3>3, <3>4
  <2> QED
    BY <1>1, <2>2, <2>3 DEF ServerInv
<1> QED
  BY <1>2, <1>3

LEMMA ServerStays ==
  ASSUME NoneApart, NEW K, ServerInv(K),
         Server(K)!ServerNext \/ UNCHANGED Server(K)!serverVars
  PROVE  /\ ServerInv(K)'
         /\ Server(K)!LateIsNotStored
         /\ Server(K)!StopIsFinal
<1>1. CASE \E c \in K.clients : Server(K)!Serve(c)
  BY <1>1, ServeStays
<1>2. CASE Server(K)!Accept
  <2>1. ServerInv(K)' /\ ~stopping /\ rows' = rows
    BY <1>2, AcceptStays DEF Server!Accept
  <2> QED
    BY <2>1 DEF Server!LateIsNotStored, Server!StopIsFinal
<1>3. CASE \/ Server(K)!AcceptFails \/ Server(K)!EndAccept \/ Server(K)!EndServe \/ Server(K)!Poll
           \/ UNCHANGED Server(K)!serverVars
  <2>1. ServerInv(K)'
    BY <1>3, RestStays
  <2>2. /\ rows' = rows /\ stopping' = stopping /\ (stopping => next_source' = next_source)
        /\ connections' = connections \/ connections' = <<>>
    BY <1>3 DEF Server!AcceptFails, Server!EndAccept, Server!EndServe, Server!Poll,
                Server!serverVars, Server!clients, Server!loop
  <2> QED
    BY <2>1, <2>2 DEF Server!LateIsNotStored, Server!StopIsFinal, Server!Connected
<1>4. ASSUME NEW c \in K.clients,
             \/ Server(K)!Connect(c) \/ Server(K)!SendPart(c) \/ Server(K)!SendAll(c)
             \/ Server(K)!HangUp(c) \/ Server(K)!Expire(c)
      PROVE  ServerInv(K)' /\ Server(K)!LateIsNotStored /\ Server(K)!StopIsFinal
  <2>1. ServerInv(K)'
    BY <1>4, ClientStays
  <2>2. UNCHANGED <<rows, stopping, next_source, connections>>
    BY <1>4 DEF Server!Connect, Server!SendPart, Server!SendAll, Server!HangUp, Server!Expire,
                Server!loop, Server!clients
  <2> QED
    BY <2>1, <2>2 DEF Server!LateIsNotStored, Server!StopIsFinal, Server!Connected
<1> QED
  BY <1>1, <1>2, <1>3, <1>4 DEF Server!ServerNext, Server!Tick

-----------------------------------------------------------------------------
(* The loop in its settings; in the others it stands still. *)
ServersInv ==
    /\ setting = "requests" => ServerInv(Asking)
    /\ setting = "foreign" => ServerInv(Crowded)
    /\ setting \notin {"requests", "foreign"} => ServerInv(Limited)

LEMMA ServersInit == NoneApart /\ DaemonInit => ServersInv
<1> SUFFICES ASSUME NoneApart, DaemonInit PROVE ServersInv
  OBVIOUS
<1>1. /\ setting = "requests" => Server(Asking)!ServerInit
      /\ setting = "foreign" => Server(Crowded)!ServerInit
      /\ setting \notin {"requests", "foreign"} => Server(Limited)!ServerInit
  BY DEF DaemonInit
<1> QED
  BY <1>1, ServerInitInv DEF ServersInv

LEMMA ServersStay ==
  ASSUME NoneApart, ServersInv, [DaemonNext]_daemonVars
  PROVE  /\ ServersInv'
         /\ rows' # rows => connections[index] \notin expired
         /\ Server(Limited)!StopIsFinal
<1>1. setting' = setting
  BY DEF DaemonNext, daemonVars, Setting, SocketStep, PowerStep, OwnersStep, DeathsStep,
         RequestsStep, ForeignStep, LimitStep
<1>2. ASSUME NEW K, UNCHANGED serverState PROVE UNCHANGED Server(K)!serverVars
  BY <1>2 DEF serverState, Server!serverVars, Server!clients, Server!loop
<1>3. ASSUME NEW K, ServerInv(K), Server(K)!ServerNext \/ UNCHANGED serverState
      PROVE  /\ ServerInv(K)' /\ (rows' # rows => connections[index] \notin expired)
             /\ Server(Limited)!StopIsFinal
  <2>1. ServerInv(K)' /\ Server(K)!LateIsNotStored /\ Server(K)!StopIsFinal
    BY <1>2, <1>3, ServerStays
  <2> QED
    BY <2>1 DEF Server!LateIsNotStored, Server!StopIsFinal, Server!Connected
<1>4. CASE setting = "requests"
  <2>1. Server(Asking)!ServerNext \/ UNCHANGED serverState
    BY <1>4 DEF DaemonNext, daemonVars, Setting, SocketStep, PowerStep, OwnersStep, DeathsStep,
                RequestsStep, ForeignStep, LimitStep
  <2> QED
    BY <1>1, <1>3, <1>4, <2>1 DEF ServersInv
<1>5. CASE setting = "foreign"
  <2>1. Server(Crowded)!ServerNext \/ UNCHANGED serverState
    BY <1>5 DEF DaemonNext, daemonVars, Setting, SocketStep, PowerStep, OwnersStep, DeathsStep,
                RequestsStep, ForeignStep, LimitStep
  <2> QED
    BY <1>1, <1>3, <1>5, <2>1 DEF ServersInv
<1>6. CASE setting \notin {"requests", "foreign"}
  <2>1. Server(Limited)!ServerNext \/ UNCHANGED serverState
    BY <1>6 DEF DaemonNext, daemonVars, Setting, SocketStep, PowerStep, OwnersStep, DeathsStep,
                RequestsStep, ForeignStep, LimitStep
  <2> QED
    BY <1>1, <1>3, <1>6, <2>1 DEF ServersInv
<1> QED
  BY <1>4, <1>5, <1>6

LEMMA ServersServe ==
  ASSUME ServersInv
  PROVE  /\ Server(Asking)!RepliesAreTrue /\ Server(Asking)!HealthCountsRows
         /\ Server(Limited)!EachServedOnce
<1>1. ASSUME NEW K, ServerInv(K), {pa, pb} \subseteq K.clients
      PROVE  /\ Server(Asking)!RepliesAreTrue /\ Server(Asking)!HealthCountsRows
             /\ Server(Limited)!EachServedOnce
  <2>1. Server(Asking)!RepliesAreTrue
    <3>1. Asking.clients = {pa, pb}
      BY DEF Asking
    <3>2. Server(K)!RepliesAreTrue
      BY <1>1 DEF ServerInv, RepliesAreEarned
    <3> QED
      BY <1>1, <3>1, <3>2 DEF Server!RepliesAreTrue, Server!Stored
  <2>2. Server(Asking)!HealthCountsRows
    <3>1. /\ health.ingestion \in Nat /\ health.retries \in Nat /\ health.refusals \in Nat
          /\ Cardinality(rows) \in Nat
          /\ health.ingestion <= Cardinality(rows) + health.retries
          /\ Cardinality(rows) + health.retries <= health.ingestion + health.refusals
      BY <1>1, FS_CardinalityType DEF ServerInv, HealthIsTrue
    <3>2. Server(Asking)!Cardinality(rows) = Cardinality(rows)
      BY ServerCounts
    <3> QED
      BY <3>1, <3>2 DEF Server!HealthCountsRows
  <2>3. Server(Limited)!EachServedOnce
    BY <1>1 DEF ServerInv, ServedInTurn, Server!EachServedOnce
  <2> QED
    BY <2>1, <2>2, <2>3
<1>2. /\ Asking.clients = {pa, pb} /\ {pa, pb} \subseteq Crowded.clients
      /\ Limited.clients = {pa, pb}
  BY DEF Asking, Crowded, Limited
<1> QED
  BY <1>1, <1>2 DEF ServersInv

(* RequestsAreServed: whatever clients send, in which parts, whenever they *)
(* hang up and however late they are, a receipt is of what is stored, a    *)
(* "stopped" of a stop, health counts the rows, and nothing is stored of a *)
(* client whose deadline has passed.                                       *)
THEOREM RequestsServed ==
  ASSUME NoneApart
  PROVE  DaemonSpec => RequestsAreServed
<1>1. DaemonInit => ServersInv
  BY ServersInit
<1>2. ServersInv /\ [DaemonNext]_daemonVars => ServersInv'
  BY ServersStay
<1>3. ServersInv => Server(Asking)!RepliesAreTrue /\ Server(Asking)!HealthCountsRows
  BY ServersServe
<1>4. ServersInv /\ [DaemonNext]_daemonVars => [Server(Asking)!LateIsNotStored]_serverState
  BY ServersStay DEF Server!LateIsNotStored
<1> QED
  BY <1>1, <1>2, <1>3, <1>4, PTL DEF DaemonSpec, RequestsAreServed

(* LoopIsOrderly: however connections come and go, a tick serves each of   *)
(* them once, although serving reorders them, and a stop request is final. *)
THEOREM LoopOrderly ==
  ASSUME NoneApart
  PROVE  DaemonSpec => LoopIsOrderly
<1>1. DaemonInit => ServersInv
  BY ServersInit
<1>2. ServersInv /\ [DaemonNext]_daemonVars => ServersInv'
  BY ServersStay
<1>3. ServersInv => (setting \in {"requests", "foreign", "limit"} => Server(Limited)!EachServedOnce)
  BY ServersServe
<1>4. ServersInv /\ [DaemonNext]_daemonVars => [Server(Limited)!StopIsFinal]_serverState
  BY ServersStay
<1> QED
  BY <1>1, <1>2, <1>3, <1>4, PTL DEF DaemonSpec, LoopIsOrderly
=============================================================================
