----------------------- MODULE CandidateVerification -----------------------
(***************************************************************************)
(* `xtask candidate capture | verify` and `xtask benchmark`: a commit is   *)
(* captured, verified in a workspace of its own, reported in the receipt   *)
(* beside the capture and in .local/last-verification, and measured only   *)
(* when that file names it.  Meanwhile the working copy is edited, and the *)
(* programs are interrupted or fail at any step.                           *)
(*                                                                         *)
(* The working copy is one of Commits, those in Conflicted with conflicts. *)
(* A file that is written beside and renamed over is written in one step.  *)
(***************************************************************************)
EXTENDS Naturals, FiniteSets

CONSTANTS
  Commits, Conflicted, None,
  Reverts,                  (* whether an edit may bring a commit back      *)
  MaxAttempts, MaxEdits     (* bounds                                       *)

ASSUME VerificationAssumption ==
    /\ Conflicted \subseteq Commits /\ Commits # {} /\ None \notin Commits
    /\ Reverts \in BOOLEAN
    /\ MaxAttempts \in Nat /\ MaxEdits \in Nat

VARIABLES
  tree,      (* the commit of the working copy                              *)
  left,      (* the commits it has been before                              *)
  edits,
  captured,  (* the commit the capture file names, or None                  *)
  step,      (* where the running command is                                *)
  attempts,  (* verifications begun so far                                  *)
  work,      (* the commits with a directory verify-{id}                    *)
  evidence,  (* evidence-{id}: the attempt it was retained by, or 0         *)
  status,    (* .local/last-verification: [result, candidate]               *)
  receipt,   (* the receipt beside the capture                              *)
  passed,    (* commits whose own content passed every check                *)
  bench,     (* the benchmark: [captured, binary]                           *)
  profiles   (* what was measured with success                              *)

repository == <<tree, left, edits>>
artifacts == <<captured, work, evidence, receipt>>
measured == <<bench, profiles>>
verificationVars == <<repository, step, attempts, artifacts, status, passed, measured>>

Says(result, candidate) == [result |-> result, candidate |-> candidate]
NoBench == [captured |-> None, binary |-> None]

VerificationInit ==
    /\ tree \in Commits /\ left = {} /\ edits = 0
    /\ captured = None /\ step = "idle" /\ attempts = 0
    /\ work = {} /\ evidence = [c \in Commits |-> 0]
    /\ status = Says("none", None) /\ receipt = Says("none", None)
    /\ passed = {} /\ bench = NoBench /\ profiles = {}

(* The working copy changes: a commit has a time in its name and does not  *)
(* come back, unless the files are put back before anyone looks.           *)
Edit ==
    /\ edits < MaxEdits
    /\ tree' \in Commits \ (IF Reverts THEN {tree} ELSE left \union {tree})
    /\ left' = left \union {tree} /\ edits' = edits + 1
    /\ UNCHANGED <<step, attempts, artifacts, status, passed, measured>>

Goes(from, to) == step = from /\ step' = to

-----------------------------------------------------------------------------
(* candidate capture: conflicts are asked for, and then the commit, which  *)
(* goes to a new file.                                                     *)

StartCapture ==
    /\ Goes("idle", "capture")
    /\ UNCHANGED <<repository, attempts, artifacts, status, passed, measured>>

AskConflicts ==
    /\ Goes("capture", IF tree \in Conflicted THEN "idle" ELSE "name")
    /\ UNCHANGED <<repository, attempts, artifacts, status, passed, measured>>

CaptureTo ==
    /\ Goes("name", "idle")
    /\ captured' = tree /\ receipt' = Says("none", None)
    /\ UNCHANGED <<repository, attempts, work, evidence, status, passed, measured>>

-----------------------------------------------------------------------------
(* candidate verify *)

(* Faulty variant: the earlier result stands until there is a new one. *)
BeginQuietly ==
    /\ Goes("idle", "conflicts") /\ captured # None /\ attempts < MaxAttempts
    /\ attempts' = attempts + 1
    /\ UNCHANGED <<repository, artifacts, status, passed, measured>>

Begin ==
    /\ Goes("idle", "conflicts") /\ captured # None /\ attempts < MaxAttempts
    /\ attempts' = attempts + 1
    /\ status' = Says("in-progress", None)
    /\ UNCHANGED <<repository, artifacts, passed, measured>>

(* capture, the first and the second time. *)
Conflicts ==
    /\ \/ Goes("conflicts", IF tree \in Conflicted THEN "refused" ELSE "identity")
       \/ Goes("conflicts again", IF tree \in Conflicted THEN "failed" ELSE "identity again")
    /\ UNCHANGED <<repository, attempts, artifacts, status, passed, measured>>

(* The commit must still be the captured one, and its workspace a new one. *)
(* It may fail to be created, or be left in part; nothing is told of the   *)
(* candidate then.                                                         *)
Materialize ==
    /\ \/ /\ tree = captured /\ captured \notin work
          /\ Goes("identity", "checks")
          /\ work' = work \union {captured}
       \/ /\ Goes("identity", "refused")
          /\ work' \in {work} \union (IF tree = captured THEN {work \union {captured}} ELSE {})
    /\ UNCHANGED <<repository, attempts, captured, evidence, receipt, status, passed, measured>>

(* The acceptance checks, one after the other in the workspace: one fails, *)
(* or they change what they check, or the commit's own content passes all. *)
Checks ==
    /\ \/ Goes("checks", "failed") /\ UNCHANGED passed
       \/ Goes("checks", "conflicts again") /\ passed' = passed \union {captured}
    /\ UNCHANGED <<repository, attempts, artifacts, status, measured>>

StillCaptured ==
    /\ Goes("identity again", IF tree = captured THEN "retain" ELSE "failed")
    /\ UNCHANGED <<repository, attempts, artifacts, status, passed, measured>>

(* Evidence of an earlier attempt is not replaced. *)
Retain ==
    /\ Goes("retain", IF evidence[captured] = 0 THEN "remove" ELSE "failed")
    /\ evidence' = [evidence EXCEPT ![captured] = IF @ = 0 THEN attempts ELSE @]
    /\ UNCHANGED <<repository, attempts, captured, work, receipt, status, passed, measured>>

Remove ==
    /\ \/ Goes("remove", "success") /\ work' = work \ {captured}
       \/ Goes("remove", "failed") /\ work' = work
    /\ UNCHANGED <<repository, attempts, captured, evidence, receipt, status, passed, measured>>

(* The receipt beside the capture, or the failure to write it. *)
Report ==
    /\ \E result \in {"success", "failed"} :
          \/ Goes(result, "publish") /\ receipt' = Says(result, captured)
          \/ Goes(result, "refused") /\ UNCHANGED receipt
    /\ UNCHANGED <<repository, attempts, captured, work, evidence, status, passed, measured>>

(* A failure is told once more by the caller (Refuse). *)
Publish ==
    /\ \/ /\ Goes("publish", IF receipt.result = "success" THEN "idle" ELSE "refused")
          /\ status' = receipt
       \/ Goes("publish", "refused") /\ UNCHANGED status
    /\ UNCHANGED <<repository, attempts, artifacts, passed, measured>>

(* Whatever failed, last-verification says so, without a candidate. *)
Refuse ==
    /\ Goes("refused", "idle")
    /\ status' = Says("failed", None)
    /\ UNCHANGED <<repository, attempts, artifacts, passed, measured>>

-----------------------------------------------------------------------------
(* benchmark *)

StartBench ==
    /\ Goes("idle", "bench conflicts")
    /\ UNCHANGED <<repository, attempts, artifacts, status, passed, measured>>

(* capture, before and after the measurement. *)
BenchConflicts ==
    /\ \/ /\ Goes("bench conflicts", IF tree \in Conflicted THEN "idle" ELSE "bench identity")
          /\ UNCHANGED bench
       \/ /\ Goes("measured", IF tree \in Conflicted THEN "idle" ELSE "bench identity again")
          /\ bench' = IF tree \in Conflicted THEN NoBench ELSE bench
    /\ UNCHANGED <<repository, attempts, artifacts, status, passed, profiles>>

BenchCapture ==
    /\ Goes("bench identity", "accepted")
    /\ bench' = [NoBench EXCEPT !.captured = tree]
    /\ UNCHANGED <<repository, attempts, artifacts, status, passed, profiles>>

BenchAccepted ==
    /\ Goes("accepted", IF status = Says("success", bench.captured) THEN "build" ELSE "idle")
    /\ UNCHANGED <<repository, attempts, artifacts, status, passed, measured>>

(* The executable is built in the working copy, and copied. *)
BenchBuild ==
    /\ Goes("build", "measured")
    /\ bench' = [bench EXCEPT !.binary = tree]
    /\ UNCHANGED <<repository, attempts, artifacts, status, passed, profiles>>

(* Measured with success, if nothing is missing from the measurements and  *)
(* the capture is the same as before.                                      *)
BenchEnd ==
    /\ Goes("bench identity again", "idle")
    /\ \/ tree = bench.captured /\ profiles' = profiles \union {bench}
       \/ UNCHANGED profiles
    /\ bench' = NoBench
    /\ UNCHANGED <<repository, attempts, artifacts, status, passed>>

-----------------------------------------------------------------------------
(* A command ends at any step, what it wrote stays. *)
Interrupt ==
    /\ step # "idle" /\ step' = "idle"
    /\ bench' = NoBench
    /\ UNCHANGED <<repository, attempts, artifacts, status, passed, profiles>>

VerificationNext ==
    \/ Edit
    \/ StartCapture \/ AskConflicts \/ CaptureTo
    \/ Begin \/ Conflicts \/ Materialize \/ Checks \/ StillCaptured
    \/ Retain \/ Remove \/ Report \/ Publish \/ Refuse
    \/ StartBench \/ BenchConflicts \/ BenchCapture \/ BenchAccepted \/ BenchBuild \/ BenchEnd
    \/ Interrupt

VerificationSpec == VerificationInit /\ [][VerificationNext]_verificationVars

-----------------------------------------------------------------------------
(* Every variable has its type. *)
VerificationTypeOK ==
    /\ tree \in Commits /\ left \subseteq Commits /\ edits \in 0..MaxEdits
    /\ captured \in Commits \union {None} /\ attempts \in 0..MaxAttempts
    /\ work \subseteq Commits /\ evidence \in [Commits -> 0..MaxAttempts]
    /\ {status, receipt} \subseteq
          [result : {"none", "in-progress", "failed", "success"}, candidate : Commits \union {None}]
    /\ passed \subseteq Commits
    /\ {bench} \union profiles \subseteq
          [captured : Commits \union {None}, binary : Commits \union {None}]

(* Success is only told of a commit whose own content passed every check,  *)
(* that was captured without conflicts: by last-verification and by the    *)
(* receipt beside the capture.                                             *)
SuccessIsEarned ==
    \A told \in {status, receipt} :
        told.result = "success" => told.candidate \in passed \ Conflicted

(* Success in last-verification is the success of the last attempt: as     *)
(* soon as another begins, and when it is interrupted, there is none.      *)
SuccessIsTheLast ==
    status.result = "success" =>
        /\ evidence[status.candidate] = attempts
        /\ receipt \in {status, Says("none", None)}
        /\ status.candidate \notin work

(* What is measured with success was built from a commit that passed the   *)
(* acceptance checks and that the profile names.                           *)
ProfilesAreOfAccepted ==
    \A p \in profiles : p.captured \in passed /\ p.binary = p.captured

(* Success and profiles are of commits that passed, by the last attempt.   *)
VerificationIsEvidence ==
    SuccessIsEarned /\ SuccessIsTheLast /\ ProfilesAreOfAccepted
=============================================================================
