----------------------------- MODULE SocketOwner -----------------------------
(***************************************************************************)
(* Daemon::open and Drop for Daemon: processes that come to own the socket *)
(* path one after the other, over the socket files that others left behind,*)
(* one file system call at a time.  A process may die between any two, and *)
(* its descriptors are then closed one after the other, the lock first.    *)
(*                                                                         *)
(* Every bind makes a socket file of its own, known by its number; the     *)
(* path names one of them, or none (0).                                    *)
(***************************************************************************)
EXTENDS Naturals, FiniteSets

CONSTANTS
  Processes,
  Storage,     (* per process: the storage directory it is configured with  *)
  None,
  MaxTroubles, (* bound on the deaths, failures and stops of processes      *)
  MaxFiles     (* bound on the socket files that are made                   *)

ASSUME SocketAssumption == MaxTroubles \in Nat /\ MaxFiles \in Nat /\ None \notin Processes

VARIABLES
  stage,      (* per process: what it does next                             *)
  locked,     (* per storage: the process that has its lock, or None        *)
  path,       (* the socket file the path names, or 0                       *)
  listening,  (* socket files with a listener                               *)
  mine,       (* per process: the file of its listener, or 0                *)
  identity,   (* per process: Daemon::socket_identity, or 0                 *)
  bound,      (* how many socket files were made                            *)
  troubles

socketVars == <<stage, locked, path, listening, mine, identity, bound, troubles>>

Stages == {"down", "look", "probe", "remove", "bind", "listen", "identify",
           "running", "check", "unlink", "release", "close"}
Storages == {Storage[p] : p \in Processes}

SocketInit ==
    /\ stage = [p \in Processes |-> "down"]
    /\ locked = [s \in Storages |-> None]
    /\ path = 0 /\ listening = {}
    /\ mine = [p \in Processes |-> 0] /\ identity = [p \in Processes |-> 0]
    /\ bound = 0 /\ troubles = 0

Enter(p, from, to) == stage[p] = from /\ stage' = [stage EXCEPT ![p] = to]
Unlock(p) == locked' = [locked EXCEPT ![Storage[p]] = None]
Trouble == troubles < MaxTroubles /\ troubles' = troubles + 1

-----------------------------------------------------------------------------
(* Daemon::open *)

(* Store::open takes the lock. *)
Start(p) ==
    /\ locked[Storage[p]] = None
    /\ Enter(p, "down", "look")
    /\ locked' = [locked EXCEPT ![Storage[p]] = p]
    /\ UNCHANGED <<path, listening, mine, identity, bound, troubles>>

Look(p) ==
    /\ Enter(p, "look", IF path = 0 THEN "bind" ELSE "probe")
    /\ UNCHANGED <<locked, path, listening, mine, identity, bound, troubles>>

(* An error of open: listener and store are dropped, the path stays. *)
GiveUp(p) ==
    /\ stage' = [stage EXCEPT ![p] = "down"]
    /\ Unlock(p)
    /\ listening' = listening \ {mine[p]}
    /\ mine' = [mine EXCEPT ![p] = 0]
    /\ UNCHANGED <<path, identity, bound>>

(* Faulty variant: any file that is there is taken for a live one. *)
ProbeRefusing(p) ==
    /\ stage[p] = "probe"
    /\ GiveUp(p)
    /\ UNCHANGED troubles

(* Only a connection that is refused shows a file that was left behind. *)
Probe(p) ==
    \/ /\ path # 0 /\ path \notin listening
       /\ Enter(p, "probe", "remove")
       /\ UNCHANGED <<locked, path, listening, mine, identity, bound, troubles>>
    \/ /\ path = 0 \/ path \in listening
       /\ stage[p] = "probe"
       /\ GiveUp(p)
       /\ UNCHANGED troubles

Remove(p) ==
    \/ /\ path # 0
       /\ Enter(p, "remove", "bind")
       /\ path' = 0
       /\ UNCHANGED <<locked, listening, mine, identity, bound, troubles>>
    \/ /\ path = 0
       /\ stage[p] = "remove"
       /\ GiveUp(p)
       /\ UNCHANGED troubles

(* UnixListener::bind makes the file, and then listens. *)
Bind(p) ==
    \/ /\ path = 0 /\ bound < MaxFiles
       /\ Enter(p, "bind", "listen")
       /\ bound' = bound + 1
       /\ path' = bound + 1
       /\ mine' = [mine EXCEPT ![p] = bound + 1]
       /\ UNCHANGED <<locked, listening, identity, troubles>>
    \/ /\ path # 0
       /\ stage[p] = "bind"
       /\ GiveUp(p)
       /\ UNCHANGED troubles

Listen(p) ==
    /\ Enter(p, "listen", "identify")
    /\ listening' = listening \union {mine[p]}
    /\ UNCHANGED <<locked, path, mine, identity, bound, troubles>>

(* The identity is that of the file the path names by then. *)
Identify(p) ==
    \/ /\ path # 0
       /\ Enter(p, "identify", "running")
       /\ identity' = [identity EXCEPT ![p] = path]
       /\ UNCHANGED <<locked, path, listening, mine, bound, troubles>>
    \/ /\ path = 0
       /\ stage[p] = "identify"
       /\ GiveUp(p)
       /\ UNCHANGED troubles

(* Any other call of open fails. *)
OpenFails(p) ==
    /\ Trouble
    /\ stage[p] \in {"look", "probe", "remove", "bind", "listen", "identify"}
    /\ GiveUp(p)

-----------------------------------------------------------------------------
(* Drop for Daemon, and of its fields: the store before the listener *)

(* Faulty variant: the store is dropped before the path is examined. *)
StopReleasing(p) ==
    /\ Trouble
    /\ Enter(p, "running", "check")
    /\ Unlock(p)
    /\ UNCHANGED <<path, listening, mine, identity, bound>>

Stop(p) ==
    /\ Trouble
    /\ Enter(p, "running", "check")
    /\ UNCHANGED <<locked, path, listening, mine, identity, bound>>

Check(p) ==
    /\ Enter(p, "check", IF path = identity[p] THEN "unlink" ELSE "release")
    /\ UNCHANGED <<locked, path, listening, mine, identity, bound, troubles>>

Unlink(p) ==
    /\ Enter(p, "unlink", "release")
    /\ path' = 0
    /\ UNCHANGED <<locked, listening, mine, identity, bound, troubles>>

Release(p) ==
    /\ Enter(p, "release", "close")
    /\ Unlock(p)
    /\ UNCHANGED <<path, listening, mine, identity, bound, troubles>>

Close(p) ==
    /\ Enter(p, "close", "down")
    /\ listening' = listening \ {mine[p]}
    /\ mine' = [mine EXCEPT ![p] = 0] /\ identity' = [identity EXCEPT ![p] = 0]
    /\ UNCHANGED <<locked, path, bound, troubles>>

(* The process dies: its lock is free before its listener is closed. *)
Die(p) ==
    /\ Trouble
    /\ stage[p] \notin {"down", "close"}
    /\ stage' = [stage EXCEPT ![p] = "close"]
    /\ Unlock(p)
    /\ UNCHANGED <<path, listening, mine, identity, bound>>

-----------------------------------------------------------------------------
Step(p) ==
    \/ Start(p) \/ Look(p) \/ Probe(p) \/ Remove(p) \/ Bind(p) \/ Listen(p)
    \/ Identify(p) \/ Check(p) \/ Unlink(p) \/ Release(p) \/ Close(p)

SocketNext == \E p \in Processes : Step(p) \/ OpenFails(p) \/ Stop(p) \/ Die(p)

SocketSpec == SocketInit /\ [][SocketNext]_socketVars

-----------------------------------------------------------------------------
(* Every variable has its type, and a lock is held by the processes that   *)
(* have opened their storage and not dropped it.                           *)
SocketTypeOK ==
    /\ stage \in [Processes -> Stages]
    /\ locked \in [Storages -> Processes \union {None}]
    /\ \A p \in Processes :
         (locked[Storage[p]] = p) = (stage[p] \notin {"down", "close"})
    /\ bound \in Nat /\ troubles \in 0..MaxTroubles
    /\ path \in 0..bound /\ listening \subseteq 1..bound
    /\ mine \in [Processes -> 0..bound] /\ identity \in [Processes -> 0..bound]

(* Clients that connect to the path reach the daemon that runs: nobody     *)
(* removes its socket, neither one that starts nor one that ends.          *)
RunningIsReached ==
    \A p \in Processes :
        stage[p] = "running" => path = mine[p] /\ path \in listening

(* Who runs knows its own socket, so that it removes no other.             *)
KnowsItsOwn ==
    \A p \in Processes :
        stage[p] \in {"running", "check", "unlink"} => identity[p] = mine[p]

(* Whoever runs is reached over its socket, and will remove no other.      *)
SocketIsOwned == RunningIsReached /\ KnowsItsOwn

=============================================================================
