---------------------------- MODULE StoreCreation ----------------------------
(***************************************************************************)
(* The first steps of custody's Store::open, which creates the storage     *)
(* directory, restricts it to its owner and makes it durable, against the  *)
(* end of a process and the loss of power between any two of them.         *)
(*                                                                         *)
(* The directory is there or not and private or not, once for the programs *)
(* that look and once for what a loss of power leaves for certain.  What   *)
(* was not synchronized may be left or lost.                               *)
(***************************************************************************)
EXTENDS Naturals, FiniteSets

CONSTANTS
  Processes, None,
  Troubles,     (* of {"stop", "death", "power"}                            *)
  MaxTroubles, MaxReceipts    (* bounds                                     *)

VARIABLES
  stage,     (* per process: what it does next                              *)
  locked,    (* the process with the lock of owner.lock, or None            *)
  seen,      (* the directory as it is: [there, private]                    *)
  kept,      (* the directory as it is on disk                              *)
  receipts,  (* receipts that were returned                                 *)
  troubles

creationVars == <<stage, locked, seen, kept, receipts, troubles>>

Stages == {"down", "look", "create", "restrict", "parent", "lock", "sync", "open"}
Absent == [there |-> FALSE, private |-> FALSE]

CreationInit ==
    /\ stage = [p \in Processes |-> "down"]
    /\ locked = None
    /\ seen = Absent /\ kept = Absent
    /\ receipts = 0 /\ troubles = 0

Enter(p, from, to) == stage[p] = from /\ stage' = [stage EXCEPT ![p] = to]

Trouble(kind) ==
    /\ kind \in Troubles
    /\ troubles < MaxTroubles
    /\ troubles' = troubles + 1

-----------------------------------------------------------------------------
(* Store::open *)

Start(p) ==
    /\ Enter(p, "down", "look")
    /\ UNCHANGED <<locked, seen, kept, receipts, troubles>>

(* A directory that is there must be private. *)
Look(p) ==
    /\ Enter(p, "look", IF ~seen.there THEN "create"
                        ELSE IF seen.private THEN "lock" ELSE "down")
    /\ UNCHANGED <<locked, seen, kept, receipts, troubles>>

Create(p) ==
    /\ Enter(p, "create", IF seen.there THEN "down" ELSE "restrict")
    /\ seen' = IF seen.there THEN seen ELSE [there |-> TRUE, private |-> FALSE]
    /\ UNCHANGED <<locked, kept, receipts, troubles>>

(* Faulty variant: the directory's entry is not synchronized. *)
RestrictAtLast(p) ==
    /\ Enter(p, "restrict", "lock")
    /\ seen' = [seen EXCEPT !.private = TRUE]
    /\ UNCHANGED <<locked, kept, receipts, troubles>>

Restrict(p) ==
    /\ Enter(p, "restrict", "parent")
    /\ seen' = [seen EXCEPT !.private = TRUE]
    /\ UNCHANGED <<locked, kept, receipts, troubles>>

(* The parent directory is synchronized, by the one that created it. *)
SyncParent(p) ==
    /\ Enter(p, "parent", "lock")
    /\ kept' = [kept EXCEPT !.there = TRUE]
    /\ UNCHANGED <<locked, seen, receipts, troubles>>

(* The lock is taken, or open fails. *)
Lock(p) ==
    /\ Enter(p, "lock", IF locked = None THEN "sync" ELSE "down")
    /\ locked' = IF locked = None THEN p ELSE locked
    /\ UNCHANGED <<seen, kept, receipts, troubles>>

(* The database is created, and the directory itself synchronized. *)
Sync(p) ==
    /\ Enter(p, "sync", "open")
    /\ kept' = [kept EXCEPT !.private = seen.private]
    /\ UNCHANGED <<locked, seen, receipts, troubles>>

(* Store::submit returns: the row is durable, if its directory is. *)
Receive(p) ==
    /\ stage[p] = "open"
    /\ receipts < MaxReceipts
    /\ receipts' = receipts + 1
    /\ UNCHANGED <<stage, locked, seen, kept, troubles>>

-----------------------------------------------------------------------------
(* What may happen meanwhile *)

End(p) ==
    /\ stage' = [stage EXCEPT ![p] = "down"]
    /\ locked' = IF locked = p THEN None ELSE locked
    /\ UNCHANGED <<seen, kept, receipts>>

Stop(p) == Trouble("stop") /\ stage[p] = "open" /\ End(p)
Die(p) == Trouble("death") /\ stage[p] # "down" /\ End(p)

PowerLoss ==
    /\ Trouble("power")
    /\ stage' = [p \in Processes |-> "down"]
    /\ locked' = None
    /\ \/ /\ seen' = Absent /\ kept' = Absent
          /\ ~kept.there
       \/ /\ seen.there
          /\ seen' \in {[seen EXCEPT !.private = kept.private], seen}
          /\ kept' = seen'
    /\ UNCHANGED receipts

-----------------------------------------------------------------------------
Step(p) ==
    \/ Start(p) \/ Look(p) \/ Create(p) \/ Restrict(p) \/ SyncParent(p)
    \/ Lock(p) \/ Sync(p)

CreationNext ==
    \/ PowerLoss
    \/ \E p \in Processes : Step(p) \/ Receive(p) \/ Stop(p) \/ Die(p)

CreationSpec == CreationInit /\ [][CreationNext]_creationVars

-----------------------------------------------------------------------------
(* A receipt that was returned outlives the loss of power: the directory   *)
(* with its row is still there.                                            *)
ReceiptsOutliveOutage == receipts > 0 => seen.there

(* A directory that is there is private, or is being made so: an end of    *)
(* its creator in between would leave one that each later open refuses.    *)
CreationGoesOn ==
    seen.there /\ ~seen.private => \E p \in Processes : stage[p] = "restrict"

(* Nothing is stored in a directory that others may read. *)
StoredPrivately == (\E p \in Processes : stage[p] = "open") => seen.private

(* Both, where one process that does not die creates the directory; with   *)
(* more processes or deaths only the second.                               *)
StorageIsSafe ==
    /\ StoredPrivately
    /\ "death" \notin Troubles /\ (\A p, q \in Processes : p = q) => ReceiptsOutliveOutage

=============================================================================
