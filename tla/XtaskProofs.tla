----------------------------- MODULE XtaskProofs -----------------------------
(***************************************************************************)
(* Proofs about the repository's own tool.                                 *)
(*                                                                         *)
(* CandidateVerification, for any commits and edits: a status of success,  *)
(* a receipt and a profile are of what was verified.  CoverageRun, for any *)
(* texts of the manifest: a report is earned by its run.  CandidateSearch, *)
(* for any candidates, evaluators and files: only what is right advances.  *)
(* SearchReference, for lists of any length: the reference is exact.       *)
(***************************************************************************)
EXTENDS MCXtask, FiniteSetTheorems, WellFoundedInduction, TLAPS

(* The steps of a verification, and those in its workspace. *)
Verifying == {"conflicts", "identity", "checks", "conflicts again", "identity again",
              "retain", "remove", "success", "failed", "publish", "refused"}
InWorkspace == {"checks", "conflicts again", "identity again"}
Passing == {"conflicts again", "identity again", "retain", "remove", "success"}
Benching == {"accepted", "build", "measured", "bench identity again"}
Steps == Verifying \union Benching \union
           {"idle", "capture", "name", "bench conflicts", "bench identity"}

Typed == VerificationTypeOK /\ step \in Steps

(* A verification has its captured commit. *)
CommandsHaveCommits ==
    /\ step \in Verifying => captured \in Commits /\ attempts > 0
    /\ step \in Benching => bench.captured \in Commits

(* No success is told while another attempt runs; before it is told, the   *)
(* evidence is this attempt's and the workspace is removed.                *)
SuccessIsMade ==
    /\ step \in Verifying => status.result # "success"
    /\ step \in Passing => captured \in passed
    /\ step \in {"remove", "success"} => evidence[captured] = attempts
    /\ step = "success" => captured \notin work
    /\ step = "publish" /\ receipt.result = "success" =>
          /\ receipt.candidate = captured /\ evidence[captured] = attempts
          /\ captured \notin work
    /\ \A told \in {status, receipt} : told.result = "success" => told.candidate \in passed

LastInv == Typed /\ CommandsHaveCommits /\ SuccessIsMade /\ SuccessIsTheLast

-----------------------------------------------------------------------------
(* What was left does not come back, so that a commit that is compared     *)
(* twice was there all the time: the conflicts that were asked for in      *)
(* between are its own, and so is the executable.                          *)
NothingComesBack ==
    /\ tree \notin left
    /\ step \in InWorkspace => captured \in left \union {tree}
    /\ step = "identity again" /\ captured \in Conflicted => tree # captured
    /\ step \in {"retain", "remove", "success"} => captured \notin Conflicted
    /\ step \in Benching => bench.captured \in left \union {tree}
    /\ step \in Benching \ {"accepted"} => bench.captured \in passed
    /\ step \in {"measured", "bench identity again"} =>
          bench.captured \in left \/ bench.binary = bench.captured

EarnedInv == LastInv /\ NothingComesBack /\ SuccessIsEarned /\ ProfilesAreOfAccepted

-----------------------------------------------------------------------------
LEMMA TypedInit == VerificationInit => Typed
  BY VerificationAssumption
     DEF VerificationInit, Typed, VerificationTypeOK, Steps, Verifying, Benching, Says, NoBench

(* Every action keeps the types. *)
LEMMA TypedStep == Typed /\ CommandsHaveCommits /\ [VerificationNext]_verificationVars => Typed'
<1> SUFFICES ASSUME Typed, CommandsHaveCommits, [VerificationNext]_verificationVars PROVE Typed'
  OBVIOUS
<1> USE VerificationAssumption DEF Typed, VerificationTypeOK, Goes, repository, artifacts, measured
<1>0. CASE UNCHANGED verificationVars
  BY <1>0 DEF verificationVars
<1>1. CASE Edit
  BY <1>1 DEF Edit
<1>2. CASE StartCapture \/ AskConflicts \/ CaptureTo
  <2>1. step' \in {"idle", "capture", "name"}
    BY <1>2 DEF StartCapture, AskConflicts, CaptureTo
  <2>2. /\ captured' \in {captured, tree}
        /\ receipt' \in {receipt, Says("none", None)}
        /\ UNCHANGED <<repository, attempts, work, evidence, status, passed, measured>>
    BY <1>2 DEF StartCapture, AskConflicts, CaptureTo
  <2>3. captured' \in Commits \union {None} /\ step' \in Steps
    BY <2>1, <2>2 DEF Steps
  <2>4. receipt' \in [result : {"none", "in-progress", "failed", "success"},
                      candidate : Commits \union {None}]
    BY <2>2 DEF Says
  <2> QED
    BY <2>2, <2>3, <2>4
<1>3. CASE Begin
  BY <1>3 DEF Begin, Says, Steps, Verifying
<1>4. CASE Conflicts \/ Materialize \/ Checks \/ StillCaptured
  BY <1>4 DEF Conflicts, Materialize, Checks, StillCaptured, Steps, Verifying, CommandsHaveCommits
<1>5. CASE Retain
  BY <1>5 DEF Retain, Steps, Verifying, CommandsHaveCommits
<1>6. CASE Remove
  BY <1>6 DEF Remove, Steps, Verifying, CommandsHaveCommits
<1>7. CASE Refuse
  BY <1>7 DEF Refuse, Says, Steps
<1>8. CASE Report
  <2>1. captured \in Commits
    BY <1>8 DEF Report, CommandsHaveCommits, Verifying
  <2>2. receipt' \in {receipt, Says("success", captured), Says("failed", captured)}
    BY <1>8 DEF Report
  <2>3. step' \in Steps
    BY <1>8 DEF Report, Steps, Verifying
  <2>4. UNCHANGED <<repository, attempts, captured, work, evidence, status, passed, measured>>
    BY <1>8 DEF Report
  <2> QED
    BY <2>1, <2>2, <2>3, <2>4 DEF Says
<1>9. CASE Publish
  <2>1. status' \in {status, receipt} /\ step' \in Steps
    BY <1>9 DEF Publish, Steps, Verifying
  <2>2. UNCHANGED <<repository, attempts, artifacts, passed, measured>>
    BY <1>9 DEF Publish
  <2> QED
    BY <2>1, <2>2
<1>10. CASE StartBench \/ BenchConflicts \/ BenchCapture \/ BenchAccepted \/ BenchBuild
  <2>1. step' \in Steps
    BY <1>10 DEF StartBench, BenchConflicts, BenchCapture, BenchAccepted, BenchBuild, Steps,
                 Benching
  <2>2. /\ bench' \in {bench, NoBench, [NoBench EXCEPT !.captured = tree],
                       [bench EXCEPT !.binary = tree]}
        /\ UNCHANGED <<repository, attempts, artifacts, status, passed, profiles>>
    BY <1>10 DEF StartBench, BenchConflicts, BenchCapture, BenchAccepted, BenchBuild
  <2>3. bench' \in [captured : Commits \union {None}, binary : Commits \union {None}]
    BY <2>2 DEF NoBench
  <2> QED
    BY <2>1, <2>2, <2>3
<1>11. CASE BenchEnd \/ Interrupt
  <2>1. /\ step' = "idle" /\ bench' = NoBench
        /\ profiles' \in {profiles, profiles \union {bench}}
        /\ UNCHANGED <<repository, attempts, artifacts, status, passed>>
    BY <1>11 DEF BenchEnd, Interrupt
  <2>2. NoBench \in [captured : Commits \union {None}, binary : Commits \union {None}]
    BY DEF NoBench
  <2> QED
    BY <2>1, <2>2 DEF Steps
<1> QED
  BY <1>0, <1>1, <1>2, <1>3, <1>4, <1>5, <1>6, <1>7, <1>8, <1>9, <1>10, <1>11 DEF VerificationNext

-----------------------------------------------------------------------------
(* The steps that a verification goes through, one action each. *)
LEMMA CommitsStep ==
  LastInv /\ [VerificationNext]_verificationVars => CommandsHaveCommits'
<1> SUFFICES ASSUME Typed, CommandsHaveCommits, [VerificationNext]_verificationVars
             PROVE CommandsHaveCommits'
  BY DEF LastInv
<1> USE VerificationAssumption
        DEF Typed, VerificationTypeOK, CommandsHaveCommits, Goes, Verifying, Benching,
            repository, artifacts, measured
<1>0. CASE UNCHANGED verificationVars
  BY <1>0 DEF verificationVars
<1>1. CASE Edit \/ StartCapture \/ AskConflicts \/ CaptureTo \/ Interrupt
  BY <1>1 DEF Edit, StartCapture, AskConflicts, CaptureTo, Interrupt
<1>2. CASE Begin
  BY <1>2 DEF Begin
<1>3. CASE Conflicts \/ Materialize \/ Checks \/ StillCaptured
  BY <1>3 DEF Conflicts, Materialize, Checks, StillCaptured
<1>4. CASE Retain \/ Remove
  BY <1>4 DEF Retain, Remove
<1>5. CASE Report
  <2>1. step \in {"success", "failed"} /\ step' \in {"publish", "refused"}
    BY <1>5 DEF Report
  <2>2. captured' = captured /\ attempts' = attempts
    BY <1>5 DEF Report
  <2> QED
    BY <2>1, <2>2
<1>6. CASE Publish \/ Refuse
  BY <1>6 DEF Publish, Refuse
<1>7. CASE StartBench \/ BenchConflicts \/ BenchCapture \/ BenchAccepted \/ BenchBuild \/ BenchEnd
  BY <1>7 DEF StartBench, BenchConflicts, BenchCapture, BenchAccepted, BenchBuild, BenchEnd, NoBench
<1> QED
  BY <1>0, <1>1, <1>2, <1>3, <1>4, <1>5, <1>6, <1>7 DEF VerificationNext

(* What Report writes is the result of its own step. *)
LEMMA ReportTells ==
  ASSUME Report, step' = "publish"
  PROVE  receipt'.result = step /\ receipt'.candidate = captured
<1>1. receipt' = Says(step, captured)
  BY DEF Report, Goes
<1> QED
  BY <1>1 DEF Says

(* A success is made in the attempt that tells it, and told before another *)
(* attempt begins.                                                         *)
LEMMA MadeStep ==
  LastInv /\ [VerificationNext]_verificationVars => SuccessIsMade' /\ SuccessIsTheLast'
<1> SUFFICES ASSUME LastInv, [VerificationNext]_verificationVars
             PROVE SuccessIsMade' /\ SuccessIsTheLast'
  OBVIOUS
<1> USE VerificationAssumption
        DEF LastInv, Typed, VerificationTypeOK, CommandsHaveCommits, SuccessIsMade,
            SuccessIsTheLast, Goes, Verifying, Passing, Says,
            repository, artifacts, measured
<1>0. CASE UNCHANGED verificationVars
  BY <1>0 DEF verificationVars
<1>1. CASE Edit \/ StartCapture \/ AskConflicts \/ Interrupt
  BY <1>1 DEF Edit, StartCapture, AskConflicts, Interrupt
<1>2. CASE CaptureTo
  BY <1>2 DEF CaptureTo
<1>3. CASE Begin
  BY <1>3 DEF Begin
<1>4. CASE Conflicts \/ StillCaptured
  BY <1>4 DEF Conflicts, StillCaptured
<1>5. CASE Materialize
  BY <1>5 DEF Materialize
<1>6. CASE Checks
  BY <1>6 DEF Checks
<1>7. CASE Retain
  BY <1>7 DEF Retain
<1>8. CASE Remove
  BY <1>8 DEF Remove
<1>9. CASE Report
  <2>1. /\ step \in {"success", "failed"} /\ step' \in {"publish", "refused"}
        /\ receipt' \in {receipt, Says(step, captured)}
        /\ step' = "publish" => receipt' = Says(step, captured)
        /\ UNCHANGED <<attempts, captured, work, evidence, status, passed>>
    BY <1>9 DEF Report
  <2>2. \A told \in {status', receipt'} : told.result = "success" => told.candidate \in passed'
    <3>1. status.result = "success" => status.candidate \in passed
      OBVIOUS
    <3>2. receipt.result = "success" => receipt.candidate \in passed
      OBVIOUS
    <3>3. Says(step, captured).result = "success" => Says(step, captured).candidate \in passed
      BY <2>1
    <3>4. receipt' = receipt \/ receipt' = Says(step, captured)
      BY <2>1
    <3>5. receipt'.result = "success" => receipt'.candidate \in passed
      BY <3>2, <3>3, <3>4
    <3> QED
      BY <2>1, <3>1, <3>5
  <2>3. step' = "publish" /\ receipt'.result = "success" =>
            /\ receipt'.candidate = captured' /\ evidence'[captured'] = attempts'
            /\ captured' \notin work'
    <3>1. step' = "publish" => receipt' = [result |-> step, candidate |-> captured]
      BY <2>1
    <3>2. CASE step = "failed"
      BY <2>1, <3>1, <3>2
    <3>3. CASE step = "success"
      <4>1. evidence[captured] = attempts /\ captured \notin work
        BY <3>3
      <4>2. evidence' = evidence /\ captured' = captured /\ attempts' = attempts /\ work' = work
        BY <2>1
      <4>3. evidence'[captured'] = attempts' /\ captured' \notin work'
        BY <4>1, <4>2
      <4>4. step' = "publish" => receipt'.candidate = captured'
        BY <1>9, <4>2, ReportTells
      <4> QED
        BY <4>3, <4>4
    <3> QED
      BY <2>1, <3>2, <3>3
  <2>4. SuccessIsMade'
    BY <2>1, <2>2, <2>3
  <2>5. status'.result # "success"
    BY <2>1
  <2> QED
    BY <2>4, <2>5
<1>10. CASE Publish
  <2>1. /\ step = "publish" /\ step' \in {"idle", "refused"}
        /\ status' \in {receipt, status}
        /\ status' = receipt /\ receipt.result = "success" => step' = "idle" \/ status = receipt
        /\ step' = "idle" => status' = receipt
        /\ UNCHANGED <<attempts, captured, work, evidence, receipt, passed>>
    BY <1>10 DEF Publish
  <2>2. SuccessIsMade'
    BY <2>1
  <2>3. SuccessIsTheLast'
    BY <2>1
  <2> QED
    BY <2>2, <2>3
<1>11. CASE Refuse
  BY <1>11 DEF Refuse
<1>12. CASE StartBench \/ BenchConflicts \/ BenchCapture \/ BenchAccepted \/ BenchBuild \/ BenchEnd
  BY <1>12 DEF StartBench, BenchConflicts, BenchCapture, BenchAccepted, BenchBuild, BenchEnd, NoBench
<1> QED
  BY <1>0, <1>1, <1>2, <1>3, <1>4, <1>5, <1>6, <1>7, <1>8, <1>9, <1>10, <1>11, <1>12
     DEF VerificationNext
-----------------------------------------------------------------------------
LEMMA LastInit == VerificationInit => LastInv
<1> SUFFICES ASSUME VerificationInit PROVE LastInv
  OBVIOUS
<1>1. Typed
  BY TypedInit
<1>2. CommandsHaveCommits /\ SuccessIsMade /\ SuccessIsTheLast
  BY DEF VerificationInit, CommandsHaveCommits, SuccessIsMade, SuccessIsTheLast,
         Says, Verifying, Benching, Passing
<1> QED
  BY <1>1, <1>2 DEF LastInv

(* SuccessIsTheLast: success in last-verification is the success of the    *)
(* last attempt, with its own evidence and its workspace removed.  Nothing *)
(* is assumed of how the working copy is edited.                           *)
THEOREM LastIsLast == VerificationSpec => [](VerificationTypeOK /\ SuccessIsTheLast)
<1>1. LastInv /\ [VerificationNext]_verificationVars => LastInv'
  BY TypedStep, CommitsStep, MadeStep DEF LastInv
<1>2. LastInv => VerificationTypeOK /\ SuccessIsTheLast
  BY DEF LastInv, Typed
<1> QED
  BY LastInit, <1>1, <1>2, PTL DEF VerificationSpec

-----------------------------------------------------------------------------
(* As long as no commit comes back, two captures that agree have seen one  *)
(* working copy: what was asked for in between was asked of it.            *)
LEMMA ComesBackStep ==
  ASSUME ~Reverts
  PROVE  EarnedInv /\ [VerificationNext]_verificationVars => NothingComesBack'
<1> SUFFICES ASSUME EarnedInv, [VerificationNext]_verificationVars
             PROVE NothingComesBack'
  OBVIOUS
<1> USE VerificationAssumption
        DEF EarnedInv, LastInv, Typed, VerificationTypeOK, CommandsHaveCommits,
            NothingComesBack, Goes, InWorkspace, Verifying, Benching,
            repository, artifacts, measured
<1>0. CASE UNCHANGED verificationVars
  BY <1>0 DEF verificationVars
<1>1. CASE Edit
  BY <1>1 DEF Edit
<1>2. CASE StartCapture \/ AskConflicts \/ CaptureTo \/ Interrupt
  BY <1>2 DEF StartCapture, AskConflicts, CaptureTo, Interrupt
<1>3. CASE Begin
  BY <1>3 DEF Begin
<1>4. CASE Conflicts
  BY <1>4 DEF Conflicts
<1>5. CASE Materialize
  BY <1>5 DEF Materialize
<1>6. CASE Checks
  BY <1>6 DEF Checks
<1>7. CASE StillCaptured
  BY <1>7 DEF StillCaptured
<1>8. CASE Retain \/ Remove
  BY <1>8 DEF Retain, Remove
<1>9. CASE Report
  <2>1. /\ step \in {"success", "failed"} /\ step' \in {"publish", "refused"}
        /\ UNCHANGED <<tree, left, captured, passed, bench>>
    BY <1>9 DEF Report
  <2> QED
    BY <2>1
<1>10. CASE Publish \/ Refuse
  BY <1>10 DEF Publish, Refuse
<1>11. CASE StartBench \/ BenchConflicts \/ BenchCapture
  BY <1>11 DEF StartBench, BenchConflicts, BenchCapture, NoBench
<1>12. CASE BenchAccepted
  BY <1>12 DEF BenchAccepted, SuccessIsEarned, Says
<1>13. CASE BenchBuild
  BY <1>13 DEF BenchBuild
<1>14. CASE BenchEnd
  BY <1>14 DEF BenchEnd
<1> QED
  BY <1>0, <1>1, <1>2, <1>3, <1>4, <1>5, <1>6, <1>7, <1>8, <1>9, <1>10, <1>11, <1>12,
     <1>13, <1>14 DEF VerificationNext

(* Success is only told, and a profile only kept, of what was earned. *)
LEMMA EarnedStep ==
  ASSUME ~Reverts
  PROVE  EarnedInv /\ [VerificationNext]_verificationVars
           => SuccessIsEarned' /\ ProfilesAreOfAccepted'
<1> SUFFICES ASSUME EarnedInv, [VerificationNext]_verificationVars
             PROVE SuccessIsEarned' /\ ProfilesAreOfAccepted'
  OBVIOUS
<1> USE DEF EarnedInv, LastInv, SuccessIsMade, NothingComesBack, SuccessIsEarned,
            ProfilesAreOfAccepted, Goes, Passing, Benching, Says,
            repository, artifacts, measured
<1>0. CASE UNCHANGED verificationVars
  BY <1>0 DEF verificationVars
<1>1. CASE Edit \/ StartCapture \/ AskConflicts \/ Interrupt
  BY <1>1 DEF Edit, StartCapture, AskConflicts, Interrupt
<1>2. CASE CaptureTo
  BY <1>2 DEF CaptureTo
<1>3. CASE Begin
  BY <1>3 DEF Begin
<1>4. CASE Conflicts \/ Materialize \/ StillCaptured \/ Retain \/ Remove
  BY <1>4 DEF Conflicts, Materialize, StillCaptured, Retain, Remove
<1>5. CASE Checks
  BY <1>5 DEF Checks
<1>6. CASE Report
  <2>1. /\ step \in {"success", "failed"}
        /\ receipt' \in {receipt, Says(step, captured)}
        /\ UNCHANGED <<status, passed, profiles>>
    BY <1>6 DEF Report
  <2>2. step = "success" => captured \in passed \ Conflicted
    OBVIOUS
  <2>3. receipt' = receipt \/ receipt' = Says(step, captured)
    BY <2>1
  <2>4. receipt'.result = "success" => receipt'.candidate \in passed \ Conflicted
    <3>1. CASE receipt' = receipt
      BY <3>1
    <3>2. CASE receipt' = [result |-> step, candidate |-> captured]
      BY <2>2, <3>2
    <3> QED
      BY <2>3, <3>1, <3>2
  <2>5. status'.result = "success" => status'.candidate \in passed \ Conflicted
    BY <2>1
  <2> QED
    BY <2>1, <2>4, <2>5
<1>7. CASE Publish
  <2>1. status' \in {status, receipt} /\ UNCHANGED <<receipt, passed, profiles>>
    BY <1>7 DEF Publish
  <2> QED
    BY <2>1
<1>8. CASE Refuse
  BY <1>8 DEF Refuse
<1>9. CASE StartBench \/ BenchConflicts \/ BenchCapture \/ BenchAccepted \/ BenchBuild
  BY <1>9 DEF StartBench, BenchConflicts, BenchCapture, BenchAccepted, BenchBuild
<1>10. CASE BenchEnd
  <2>1. /\ step = "bench identity again" /\ profiles' \subseteq profiles \union {bench}
        /\ bench \in profiles' \ profiles => tree = bench.captured
        /\ UNCHANGED <<status, receipt, passed>>
    BY <1>10 DEF BenchEnd
  <2>2. tree = bench.captured => bench.captured \in passed /\ bench.binary = bench.captured
    BY <2>1
  <2> QED
    BY <2>1, <2>2
<1> QED
  BY <1>0, <1>1, <1>2, <1>3, <1>4, <1>5, <1>6, <1>7, <1>8, <1>9, <1>10
     DEF VerificationNext

(* VerificationIsEvidence: a success is of a commit without conflicts      *)
(* whose own content passed every check, in the last attempt, and a        *)
(* profile was built from the commit it names, which was accepted.         *)
THEOREM EvidenceIsEarned ==
  ASSUME ~Reverts
  PROVE  VerificationSpec => []VerificationIsEvidence
<1>1. VerificationInit => EarnedInv
  BY LastInit DEF EarnedInv, VerificationInit, NothingComesBack, SuccessIsEarned,
     ProfilesAreOfAccepted, Says, InWorkspace, Benching
<1>2. EarnedInv /\ [VerificationNext]_verificationVars => EarnedInv'
  BY TypedStep, CommitsStep, MadeStep, ComesBackStep, EarnedStep DEF EarnedInv, LastInv
<1>3. EarnedInv => VerificationIsEvidence
  BY DEF EarnedInv, LastInv, VerificationIsEvidence
<1> QED
  BY <1>1, <1>2, <1>3, PTL DEF VerificationSpec

-----------------------------------------------------------------------------
(* The coverage report. *)

LEMMA CoverageCounts == \A S : Covering!Cardinality(S) = Cardinality(S)
  BY DEF Covering!Cardinality, Cardinality, Covering!IsFiniteSet, IsFiniteSet


(* Manifests as a file may hold them: what they name are words. *)
ManifestTexts(W) ==
    [wellFormed : BOOLEAN, checks : Seq([id : W, test : W]),
     invariants : Seq([id : W, required : BOOLEAN, checks : Seq(W)])]

AreTexts == \E W : Manifests \subseteq ManifestTexts(W)

(* The first n checks of a manifest. *)
FirstChecks(m, n) == {m.checks[i] : i \in 1..n}

AllPassed(cs) == \A c \in cs : outcome[c.test] = Covering!Passed

(* The manifest that is worked through is valid, and its digest is taken   *)
(* of it unless the file is edited in between; the results are its first   *)
(* checks, as many as there are results.                                   *)
RunIsOfManifest ==
    /\ running = "digest" /\ ~torn => loaded = manifest
    /\ running = "check" => digest \in Manifests /\ (~torn => loaded = digest)
    /\ running \in {"digest", "check"} => loaded \in Manifests /\ Covering!Valid(loaded)
    /\ running = "check" =>
         \E n \in 0..Len(loaded.checks) :
            /\ results = FirstChecks(loaded, n) /\ Cardinality(results) = n
            /\ AllPassed(results)

(* This is all of the checks of a valid manifest, and they passed. *)
Tests(m, cs) ==
    /\ m \in Manifests /\ Covering!Valid(m)
    /\ cs = FirstChecks(m, Len(m.checks)) /\ AllPassed(cs)

(* A report is of a valid manifest and has all of its checks; while a run  *)
(* goes on there is none.                                                  *)
ReportIsWhole ==
    report # None =>
      /\ running = "idle" /\ report.run = runs
      /\ \E m \in Manifests :
           /\ report.invariants = m.invariants /\ Tests(m, report.results)
           /\ ~torn => report.digest = m

OutcomesTyped == outcome \in [Covering!Selectors -> Covering!Outcomes]

CoverageInv ==
    manifest \in Manifests /\ OutcomesTyped /\ RunIsOfManifest /\ ReportIsWhole

-----------------------------------------------------------------------------
LEMMA EntriesOf ==
  ASSUME NEW S, NEW t \in Seq(S)
  PROVE  \A i \in DOMAIN t : t[i] \in S
  OBVIOUS

LEMMA TextIs ==
  ASSUME AreTexts, NEW m \in Manifests
  PROVE  /\ Len(m.checks) \in Nat /\ DOMAIN m.checks = 1..Len(m.checks)
         /\ DOMAIN m.invariants = 1..Len(m.invariants)
         /\ \A i \in DOMAIN m.invariants :
              /\ Len(m.invariants[i].checks) \in Nat
              /\ DOMAIN m.invariants[i].checks = 1..Len(m.invariants[i].checks)
              /\ m.invariants[i].checks # << >> => Len(m.invariants[i].checks) # 0
<1>1. PICK W : m \in ManifestTexts(W)
  BY DEF AreTexts
<1>2. /\ m.checks \in Seq([id : W, test : W])
      /\ m.invariants \in Seq([id : W, required : BOOLEAN, checks : Seq(W)])
  BY <1>1 DEF ManifestTexts
<1> DEFINE Record == [id : W, required : BOOLEAN, checks : Seq(W)]
<1>3. \A i \in DOMAIN m.invariants : m.invariants[i] \in Record
  <2> HIDE DEF Record
  <2> QED
    BY <1>2, EntriesOf DEF Record
<1>4. \A i \in DOMAIN m.invariants : m.invariants[i].checks \in Seq(W)
  BY <1>3
<1>5. DOMAIN m.invariants = 1..Len(m.invariants)
  BY <1>2
<1> QED
  BY <1>2, <1>4, <1>5

(* A valid manifest has as many checks as identifiers, so that one check   *)
(* more is one result more.                                                *)
LEMMA ChecksDiffer ==
  ASSUME AreTexts, NEW m \in Manifests, Covering!Valid(m),
         NEW i \in 1..Len(m.checks), NEW j \in 1..Len(m.checks), i # j
  PROVE  m.checks[i] # m.checks[j]
<1> DEFINE S == 1..Len(m.checks)
           f == [k \in S |-> m.checks[k].id]
<1>1. DOMAIN m.checks = S /\ Len(m.checks) \in Nat
  BY TextIs
<1>2. Cardinality(Covering!Ids(m.checks)) = Len(m.checks)
  BY CoverageCounts DEF Covering!Valid, Covering!Distinct
<1>3. f \in Surjection(S, Covering!Ids(m.checks))
  BY <1>1 DEF Surjection, Covering!Ids
<1>4. IsFiniteSet(S) /\ Cardinality(S) = Len(m.checks)
  BY <1>1, FS_Interval
<1>5. f \in Injection(S, Covering!Ids(m.checks))
  BY <1>2, <1>3, <1>4, FS_Surjection
<1>6. f[i] # f[j]
  BY <1>5 DEF Injection, IsInjective
<1> QED
  BY <1>6

LEMMA OneCheckMore ==
  ASSUME AreTexts, NEW m \in Manifests, Covering!Valid(m), NEW n \in Nat, n < Len(m.checks),
         Cardinality(FirstChecks(m, n)) = n
  PROVE  /\ FirstChecks(m, n + 1) = FirstChecks(m, n) \union {m.checks[n + 1]}
         /\ Cardinality(FirstChecks(m, n + 1)) = n + 1
<1>1. Len(m.checks) \in Nat
  BY TextIs
<1>2. 1..(n + 1) = 1..n \union {n + 1}
  OBVIOUS
<1>3. FirstChecks(m, n + 1) = FirstChecks(m, n) \union {m.checks[n + 1]}
  BY <1>2 DEF FirstChecks
<1>4. m.checks[n + 1] \notin FirstChecks(m, n)
  <2>1. \A i \in 1..n : i \in 1..Len(m.checks) /\ n + 1 \in 1..Len(m.checks) /\ i # n + 1
    BY <1>1
  <2>2. \A i \in 1..n : m.checks[i] # m.checks[n + 1]
    BY <2>1, ChecksDiffer
  <2> QED
    BY <2>2 DEF FirstChecks
<1>5. IsFiniteSet(FirstChecks(m, n))
  <2> DEFINE f == [k \in 1..n |-> m.checks[k]]
  <2>1. f \in Surjection(1..n, FirstChecks(m, n))
    BY DEF Surjection, FirstChecks
  <2>2. IsFiniteSet(1..n)
    BY FS_Interval
  <2> QED
    BY <2>1, <2>2, FS_Surjection
<1> QED
  BY <1>3, <1>4, <1>5, FS_AddElement

-----------------------------------------------------------------------------
(* Only the output of the one test that passed is accepted. *)
LEMMA PassedIs ==
  ASSUME NEW o \in Covering!Outcomes, o.success, Covering!PassedExactly(o)
  PROVE  o = Covering!Passed
  BY DEF Covering!Outcomes, Covering!PassedExactly, Covering!Passed, Covering!Failed,
         Covering!Ignored, Covering!Absent, Covering!Several, Covering!Output

LEMMA CoverageInitInv ==
  ASSUME XtaskInit
  PROVE  CoverageInv
<1>1. \A t \in Covering!Selectors : Covering!Passed \in Covering!Outcomes
  BY DEF Covering!Outcomes
<1>2. OutcomesTyped
  BY <1>1 DEF XtaskInit, Covering!CoverageInit, OutcomesTyped
<1> QED
  BY <1>2 DEF XtaskInit, Covering!CoverageInit, CoverageInv, RunIsOfManifest, ReportIsWhole

LEMMA CoverageRunStep ==
  ASSUME AreTexts, CoverageInv, [Covering!CoverageNext]_Covering!coverageVars
  PROVE  CoverageInv'
<1>0. UNCHANGED outcome
  BY DEF Covering!CoverageNext, Covering!coverageVars, Covering!Edit, Covering!Start,
         Covering!Load, Covering!Digest, Covering!Check, Covering!Write, Covering!Interrupt
<1>9. OutcomesTyped' /\ (\A cs : AllPassed(cs)' = AllPassed(cs'))
  BY <1>0 DEF CoverageInv, OutcomesTyped, AllPassed
<1>1. CASE UNCHANGED Covering!coverageVars
  BY <1>1 DEF Covering!coverageVars, Covering!running, CoverageInv, OutcomesTyped, RunIsOfManifest,
              ReportIsWhole, Tests, AllPassed
<1>2. CASE Covering!Edit
  <2>1. /\ manifest' \in Manifests /\ torn' = (torn \/ running = "digest")
        /\ UNCHANGED <<outcome, running, runs, loaded, digest, results, report>>
    BY <1>2 DEF Covering!Edit
  <2>2. RunIsOfManifest'
    BY <2>1 DEF CoverageInv, RunIsOfManifest, AllPassed
  <2>3. ReportIsWhole'
    BY <2>1 DEF CoverageInv, ReportIsWhole, Tests, AllPassed
  <2> QED
    BY <1>9, <2>1, <2>2, <2>3 DEF CoverageInv
<1>3. CASE Covering!Start
  BY <1>3, <1>9 DEF Covering!Start, CoverageInv, RunIsOfManifest, ReportIsWhole
<1>4. CASE Covering!Load
  <2>1. /\ running = "load" /\ loaded' = manifest /\ report = None /\ UNCHANGED <<manifest, report>>
        /\ running' \in {"digest", "idle"} /\ (running' = "digest" => Covering!Valid(manifest))
    BY <1>4 DEF Covering!Load, CoverageInv, ReportIsWhole
  <2> QED
    BY <1>9, <2>1 DEF CoverageInv, RunIsOfManifest, ReportIsWhole
<1>5. CASE Covering!Digest
  <2>1. /\ running = "digest" /\ running' = "check" /\ report = None
        /\ ~torn => loaded = manifest
        /\ digest' = manifest /\ results' = {}
        /\ UNCHANGED <<manifest, loaded, torn, report>>
    BY <1>5 DEF Covering!Digest, CoverageInv, ReportIsWhole, RunIsOfManifest
  <2>2. loaded \in Manifests /\ Covering!Valid(loaded) /\ Len(loaded.checks) \in Nat
    BY <2>1, TextIs DEF CoverageInv, RunIsOfManifest
  <2>3. 0 \in 0..Len(loaded.checks) /\ FirstChecks(loaded, 0) = {} /\ Cardinality({}) = 0
    BY <2>2, FS_EmptySet DEF FirstChecks
  <2>4. RunIsOfManifest'
    BY <2>1, <2>2, <2>3 DEF CoverageInv, RunIsOfManifest, AllPassed
  <2> QED
    BY <1>9, <2>1, <2>4 DEF CoverageInv, ReportIsWhole
<1>6. CASE Covering!Check
  <2>1. /\ running = "check" /\ report = None /\ Cardinality(results) < Len(loaded.checks)
        /\ UNCHANGED <<manifest, outcome, loaded, digest, torn, report>>
        /\ digest \in Manifests /\ (~torn => loaded = digest)
        /\ loaded \in Manifests /\ Covering!Valid(loaded)
    BY <1>6, CoverageCounts DEF Covering!Check, CoverageInv, ReportIsWhole, RunIsOfManifest
  <2>2. PICK n \in 0..Len(loaded.checks) :
            /\ results = FirstChecks(loaded, n) /\ Cardinality(results) = n
            /\ AllPassed(results)
    BY <2>1 DEF CoverageInv, RunIsOfManifest
  <2>3. n \in Nat /\ n < Len(loaded.checks) /\ n + 1 \in 0..Len(loaded.checks)
    BY <2>1, <2>2, TextIs
  <2>4. CASE running' = "idle"
    BY <1>9, <2>1, <2>4 DEF CoverageInv, RunIsOfManifest, ReportIsWhole
  <2> DEFINE c == loaded.checks[n + 1]
  <2>5. CASE /\ outcome[c.test].success /\ Covering!PassedExactly(outcome[c.test])
             /\ results' = results \union {c} /\ running' = running
    <3>1. results' = FirstChecks(loaded, n + 1) /\ Cardinality(results') = n + 1
      BY <2>1, <2>2, <2>3, <2>5, OneCheckMore, ZenonT(40)
    <3>2. n + 1 \in DOMAIN loaded.checks
      BY <2>1, <2>3, TextIs
    <3>3. c.test \in Covering!Selectors
      BY <2>1, <3>2 DEF Covering!Selectors
    <3>4. outcome[c.test] \in Covering!Outcomes
      BY <3>3 DEF CoverageInv, OutcomesTyped
    <3>5. outcome[c.test] = Covering!Passed
      BY <2>5, <3>4, PassedIs
    <3>6. AllPassed(results)'
      BY <2>1, <2>2, <2>5, <3>5 DEF AllPassed
    <3>7. RunIsOfManifest'
      BY <2>1, <2>3, <2>5, <3>1, <3>6 DEF RunIsOfManifest
    <3> QED
      BY <1>9, <2>1, <3>7 DEF CoverageInv, ReportIsWhole
  <2> QED
    BY <1>6, <2>2, <2>4, <2>5, CoverageCounts DEF Covering!Check
<1>7. CASE Covering!Write
  <2>1. /\ running = "check" /\ running' = "idle" /\ Cardinality(results) = Len(loaded.checks)
        /\ UNCHANGED <<manifest, outcome, runs, torn>> /\ report = None
        /\ ~torn => loaded = digest
        /\ loaded \in Manifests /\ Covering!Valid(loaded)
    BY <1>7, CoverageCounts DEF Covering!Write, Covering!running, CoverageInv, ReportIsWhole,
                                RunIsOfManifest
  <2>2. results = FirstChecks(loaded, Len(loaded.checks)) /\ AllPassed(results)
    BY <2>1 DEF CoverageInv, RunIsOfManifest
  <2>3. report' = None \/ report' = Covering!Reported
    BY <1>7, <2>1 DEF Covering!Write
  <2>4. CASE report' = None
    BY <1>9, <2>1, <2>4 DEF CoverageInv, RunIsOfManifest, ReportIsWhole
  <2>5. CASE report' = Covering!Reported
    <3>1. /\ report'.digest = digest /\ report'.invariants = loaded.invariants
          /\ report'.results = results /\ report'.run = runs
      BY <2>5 DEF Covering!Reported
    <3>2. PICK m \in Manifests : m = loaded /\ Tests(m, results)
      BY <2>1, <2>2 DEF Tests
    <3>3. Tests(m, report.results)'
      BY <1>0, <3>1, <3>2 DEF Tests, AllPassed
    <3> QED
      BY <1>9, <2>1, <3>1, <3>2, <3>3 DEF CoverageInv, RunIsOfManifest, ReportIsWhole
  <2> QED
    BY <2>3, <2>4, <2>5
<1>8. CASE Covering!Interrupt
  <2>1. /\ running # "idle" /\ running' = "idle" /\ report = None
        /\ UNCHANGED <<manifest, report>>
    BY <1>8 DEF Covering!Interrupt, CoverageInv, ReportIsWhole
  <2> QED
    BY <1>9, <2>1 DEF CoverageInv, RunIsOfManifest, ReportIsWhole
<1> QED
  BY <1>1, <1>2, <1>3, <1>4, <1>5, <1>6, <1>7, <1>8 DEF Covering!CoverageNext

(* All of the checks of a manifest cover its invariants. *)
LEMMA TestsCover ==
  ASSUME AreTexts, NEW m, Tests(m, report.results)
  PROVE  Covering!Covered(m.invariants)
<1> SUFFICES ASSUME NEW i \in DOMAIN m.invariants
             PROVE  LET inv == m.invariants[i]
                        done == {c \in report.results : c.id \in Covering!Names(inv)}
                    IN /\ inv.required => done # {}
                       /\ {c.id : c \in done} = Covering!Names(inv)
                       /\ \A c \in done : outcome[c.test] = Covering!Passed
  BY DEF Covering!Covered
<1> DEFINE inv == m.invariants[i]
           done == {c \in report.results : c.id \in Covering!Names(inv)}
<1>1. /\ m \in Manifests /\ Covering!Valid(m) /\ report.results = FirstChecks(m, Len(m.checks))
      /\ AllPassed(report.results)
  BY DEF Tests
<1>2. Covering!Names(inv) \subseteq Covering!Ids(m.checks) /\ (inv.required => inv.checks # << >>)
  BY <1>1 DEF Covering!Valid
<1>3. \A name \in Covering!Names(inv) : \E c \in done : c.id = name
  <2>1. Covering!Ids(m.checks) = {c.id : c \in report.results}
    BY <1>1, TextIs DEF Covering!Ids, FirstChecks
  <2> QED
    BY <1>2, <2>1
<1>4. {c.id : c \in done} = Covering!Names(inv)
  BY <1>3
<1>5. inv.required => done # {}
  <2>1. inv.required => 1 \in DOMAIN inv.checks
    BY <1>1, <1>2, TextIs
  <2>2. inv.required => inv.checks[1] \in Covering!Names(inv)
    BY <2>1 DEF Covering!Names
  <2> QED
    BY <1>3, <2>2
<1> QED
  BY <1>1, <1>4, <1>5 DEF AllPassed

(* What a report says, from what it is. *)
LEMMA ReportSays == AreTexts /\ CoverageInv => Covering!ReportIsEvidence
<1> SUFFICES ASSUME AreTexts, CoverageInv PROVE Covering!ReportIsEvidence
  OBVIOUS
<1>1. Covering!ReportIsTheLast
  BY DEF CoverageInv, ReportIsWhole, Covering!ReportIsTheLast
<1>2. Covering!ReportCovers
  <2> SUFFICES ASSUME report # None
               PROVE  /\ Covering!Covered(report.invariants)
                      /\ ~torn => Covering!Covered(report.digest.invariants)
    BY DEF Covering!ReportCovers
  <2>1. PICK m \in Manifests : /\ report.invariants = m.invariants /\ Tests(m, report.results)
                               /\ ~torn => report.digest = m
    BY DEF CoverageInv, ReportIsWhole
  <2>2. Covering!Covered(m.invariants)
    BY <2>1, TestsCover
  <2> QED
    BY <2>1, <2>2
<1> QED
  BY <1>1, <1>2 DEF Covering!ReportIsEvidence

(* Only Write makes a report, and it names what it has just read. *)
LEMMA WritesNamed ==
  ASSUME CoverageInv, [Covering!CoverageNext]_Covering!coverageVars,
         report' # report, report' # None
  PROVE  report'.digest = manifest'
<1>1. Covering!Write
  BY DEF Covering!CoverageNext, Covering!coverageVars, Covering!Edit, Covering!Start,
         Covering!Load, Covering!Digest, Covering!Check, Covering!Interrupt
<1>2. manifest = digest /\ report' = Covering!Reported /\ manifest' = manifest
  BY <1>1 DEF Covering!Write
<1> QED
  BY <1>2 DEF Covering!Reported

NamedUnlessTorn ==
    report # None /\ ~torn => Covering!Covered(report.digest.invariants)

(* ReportIsEvidence, of the commands of the tool: a report covers what it  *)
(* lists, in the last run, and what was in the file when it was written,   *)
(* whenever that is edited, but for an edit between the two reads.         *)
THEOREM ReportsAreEvidence ==
  ASSUME AreTexts
  PROVE  XtaskSpec => ReportIsEvidence
<1>1. XtaskInit => CoverageInv
  BY CoverageInitInv
<1>2. [XtaskNext]_xtaskVars => [Covering!CoverageNext]_(Covering!coverageVars)
  BY DEF XtaskNext, xtaskVars, VerificationStep, CoverageStep, SearchStep, ReferenceStep,
         coverageState, Covering!coverageVars, Covering!running
<1>3. CoverageInv /\ [XtaskNext]_xtaskVars => CoverageInv'
  BY <1>2, CoverageRunStep
<1>4. CoverageInv => (setting = "coverage" => Covering!ReportIsEvidence)
  BY ReportSays
<1>5. CoverageInv => NamedUnlessTorn
  BY ReportSays DEF Covering!ReportIsEvidence, Covering!ReportCovers, NamedUnlessTorn
<1>6. CoverageInv /\ NamedUnlessTorn' /\ [XtaskNext]_xtaskVars
        => [report' # report /\ report' # None =>
              /\ report'.digest = manifest'
              /\ ~torn' => Covering!Covered(manifest.invariants)']_(Covering!coverageVars)
  <2> SUFFICES ASSUME CoverageInv, NamedUnlessTorn', [XtaskNext]_xtaskVars,
                      report' # report, report' # None
               PROVE  /\ report'.digest = manifest'
                      /\ ~torn' => Covering!Covered(manifest.invariants)'
    OBVIOUS
  <2>1. report'.digest = manifest'
    BY <1>2, WritesNamed
  <2>2. ~torn' => Covering!Covered(report.digest.invariants)'
    BY DEF NamedUnlessTorn
  <2> QED
    BY <2>1, <2>2 DEF Covering!Covered
<1> QED
  BY <1>1, <1>3, <1>4, <1>5, <1>6, PTL DEF XtaskSpec, ReportIsEvidence, Covering!WritesWhatIsThere

-----------------------------------------------------------------------------
(* The search: an evaluator holds an evaluation's file and its source; a   *)
(* tested evaluation is of what is right, and what is chosen or ranked     *)
(* comes from evaluations, which stay.                                     *)
Ranking(rs) ==
    /\ \A r \in rs : r.source \in Correct
    /\ \E c, s : \A r \in rs : r.contract = c /\ r.split = s

SearchInv ==
    /\ evaluations \in [Outs -> {evaluations[o] : o \in Outs}]
    /\ Searching!TestedIsRight /\ Searching!ChosenAreRight
    /\ Ranking(ranked)

LEMMA SearchCounts == \A S : Searching!Cardinality(S) = Cardinality(S)
  BY DEF Searching!Cardinality, Cardinality, Searching!IsFiniteSet, IsFiniteSet

LEMMA RankedAreEqual ==
  ASSUME NEW rs, Ranking(rs)
  PROVE  Cardinality({<<r.contract, r.split>> : r \in rs}) <= 1
<1> DEFINE P == {<<r.contract, r.split>> : r \in rs}
<1>1. PICK c, s : \A r \in rs : r.contract = c /\ r.split = s
  BY DEF Ranking
<1>2. P = {} \/ P = {<<c, s>>}
  BY <1>1
<1>3. Cardinality(P) = 0 \/ Cardinality(P) = 1
  BY <1>2, FS_EmptySet, FS_Singleton
<1> QED
  BY <1>3

LEMMA SearchInitInv == Searching!SearchInit => SearchInv
  BY DEF Searching!SearchInit, SearchInv, Searching!TestedIsRight, Searching!ChosenAreRight,
         Ranking

(* An evaluation stays what it is: a file is only written when it is not   *)
(* there.                                                                  *)
LEMMA SearchKeeps ==
  ASSUME SearchInv, [Searching!SearchNext]_(Searching!searchVars)
  PROVE  /\ \A o \in Outs : evaluations[o] # None => evaluations'[o] = evaluations[o]
         /\ evaluations' \in [Outs -> {evaluations'[o] : o \in Outs}]
<1>1. DOMAIN evaluations = Outs
  BY DEF SearchInv
<1>2. CASE evaluations' = evaluations
  BY <1>2 DEF SearchInv
<1>3. CASE \E e \in Evaluators : Searching!Run(e)
  BY <1>1, <1>3, ZenonT(40) DEF Searching!Run, SearchInv
<1> QED
  BY <1>2, <1>3 DEF Searching!SearchNext, Searching!searchVars, Searching!Edit, Searching!Copy,
     Searching!Register, Searching!NextCandidate, Searching!Status, Searching!Compare,
     Searching!Admit, Searching!Materialize, Searching!End

LEMMA SearchChooses ==
  ASSUME SearchInv, [Searching!SearchNext]_(Searching!searchVars)
  PROVE  SearchInv'
<1>1. /\ \A o \in Outs : evaluations[o] # None => evaluations'[o] = evaluations[o]
      /\ evaluations' \in [Outs -> {evaluations'[o] : o \in Outs}]
  BY SearchKeeps
<1>2. Searching!TestedIsRight'
  <2>1. CASE evaluations' = evaluations
    BY <2>1 DEF SearchInv, Searching!TestedIsRight
  <2>2. CASE \E e \in Evaluators : Searching!Run(e)
    <3>1. PICK e \in Evaluators : Searching!Run(e)
      BY <2>2
    <3>2. PICK v \in Searching!Verdict(e) :
            evaluations' = [evaluations EXCEPT ![eval[e].out] =
                              IF @ = None THEN Searching!Result(e, v) ELSE @]
      BY <3>1 DEF Searching!Run
    <3>3. v = "tested" => Searching!Result(e, v).source \in Correct
      BY <3>2 DEF Searching!Verdict, Searching!Result
    <3>4. Searching!Result(e, v).status = v
      BY SMTT(30) DEF Searching!Result
    <3> QED
      BY <3>2, <3>3, <3>4 DEF SearchInv, Searching!TestedIsRight
  <2> QED
    BY <2>1, <2>2 DEF Searching!SearchNext, Searching!searchVars, Searching!Edit,
       Searching!Copy, Searching!Register, Searching!NextCandidate, Searching!Status,
       Searching!Compare, Searching!Admit, Searching!Materialize, Searching!End
<1>3. Searching!ChosenAreRight'
  <2>1. CASE statuses' = statuses
    BY <1>1, <2>1 DEF SearchInv, Searching!ChosenAreRight
  <2>2. CASE Searching!Status
    <3>1. PICK o \in Outs, s \in {"evaluated", "rejected", "retained", "selected"} :
          /\ evaluations[o] # None
          /\ Searching!Identifies(evaluations[o])
          /\ s \in {"retained", "selected"} => evaluations[o].status = "tested"
          /\ statuses' = statuses \union
                {[status |-> s, source |-> candidate.source, contract |-> candidate.contract]}
      BY <2>2 DEF Searching!Status
    <3>4. /\ o \in Outs /\ evaluations[o] # None
          /\ Searching!Identifies(evaluations[o])
          /\ s \in {"retained", "selected"} => evaluations[o].status = "tested"
      BY <3>1
    <3>2. /\ evaluations[o].source = candidate.source
          /\ evaluations[o].contract = candidate.contract
      BY <3>4 DEF Searching!Identifies
    <3>5. Searching!TestedIsRight /\ Searching!ChosenAreRight
      BY DEF SearchInv
    <3>3. s \in {"retained", "selected"} => evaluations[o].source \in Correct
      BY <3>4, <3>5 DEF Searching!TestedIsRight
    <3>6. ASSUME NEW t \in statuses', t.status \in {"retained", "selected"}
          PROVE  /\ t.source \in Correct
                 /\ \E e \in Outs : /\ evaluations'[e] # None
                                     /\ evaluations'[e].source = t.source
                                     /\ evaluations'[e].contract = t.contract
      <4>1. CASE t \in statuses
        BY <1>1, <3>5, <3>6, <4>1 DEF Searching!ChosenAreRight
      <4>2. CASE t = [status |-> s, source |-> candidate.source, contract |-> candidate.contract]
        <5>1. t.status = s /\ t.source = candidate.source /\ t.contract = candidate.contract
          BY <4>2
        <5>2. evaluations'[o] = evaluations[o] /\ evaluations[o] # None
          BY <1>1, <3>4
        <5>3. s \in {"retained", "selected"}
          BY <3>6, <5>1
        <5>4. t.source \in Correct
          BY <3>2, <3>3, <5>1, <5>3
        <5>5. /\ evaluations'[o].source = t.source
              /\ evaluations'[o].contract = t.contract
          BY <3>2, <5>1, <5>2, SMTT(30)
        <5> QED
          BY <3>4, <5>2, <5>4, <5>5
      <4> QED
        BY <3>1, <4>1, <4>2
    <3> QED
      BY <3>6 DEF Searching!ChosenAreRight
  <2> QED
    BY <2>1, <2>2 DEF Searching!SearchNext, Searching!searchVars, Searching!Edit,
       Searching!Copy, Searching!Register, Searching!NextCandidate,
       Searching!Compare, Searching!Admit, Searching!Materialize, Searching!End, Searching!Run
<1>4. Ranking(ranked')
  <2>1. CASE ranked' = ranked
    BY <2>1 DEF SearchInv
  <2>2. CASE Searching!Compare
    <3>1. PICK os \in SUBSET Outs :
          /\ os # {}
          /\ \A o \in os : evaluations[o] # None /\ evaluations[o].status = "tested"
          /\ \A o, q \in os : /\ evaluations[o].contract = evaluations[q].contract
                              /\ evaluations[o].split = evaluations[q].split
          /\ ranked' = {evaluations[o] : o \in os}
      BY <2>2 DEF Searching!Compare
    <3>2. PICK q : q \in os
      BY <3>1
    <3>3. \A r \in ranked' : r.contract = evaluations[q].contract /\ r.split = evaluations[q].split
      BY <3>1, <3>2
    <3>4. \A r \in ranked' : r.source \in Correct
      BY <3>1 DEF SearchInv, Searching!TestedIsRight
    <3> QED
      BY <3>3, <3>4 DEF Ranking
  <2> QED
    BY <2>1, <2>2 DEF Searching!SearchNext, Searching!searchVars, Searching!Edit,
       Searching!Copy, Searching!Register, Searching!NextCandidate,
       Searching!Status, Searching!Admit, Searching!Materialize, Searching!End, Searching!Run
<1> QED
  BY <1>1, <1>2, <1>3, <1>4 DEF SearchInv

(* OnlyRightAdvances: what is tested, retained, selected or ranked is      *)
(* right, whoever edits and evaluates meanwhile, and an evaluation is      *)
(* never replaced.                                                         *)
THEOREM RightOnlyAdvances == XtaskSpec => OnlyRightAdvances
<1>1. XtaskInit => SearchInv
  BY SearchInitInv DEF XtaskInit
<1>2. [XtaskNext]_xtaskVars => [Searching!SearchNext]_(Searching!searchVars)
  BY DEF XtaskNext, xtaskVars, VerificationStep, CoverageStep, SearchStep, ReferenceStep,
         searchState, Searching!searchVars, Searching!files
<1>3. SearchInv /\ [XtaskNext]_xtaskVars => SearchInv'
  BY <1>2, SearchChooses
<1>4. SearchInv => (setting = "search" => Searching!OnlyRightAdvances)
  <2>1. Ranking(ranked) => Searching!RankedAreRight
    BY RankedAreEqual, SearchCounts DEF Searching!RankedAreRight, Ranking
  <2> QED
    BY <2>1 DEF SearchInv, Searching!OnlyRightAdvances
<1>5. SearchInv /\ [XtaskNext]_xtaskVars
        => [\A o \in Outs : evaluations[o] # None => evaluations'[o] = evaluations[o]]_(Searching!searchVars)
  BY <1>2, SearchKeeps
<1> QED
  BY <1>1, <1>3, <1>4, <1>5, PTL DEF XtaskSpec, OnlyRightAdvances, Searching!EvaluationsKept

-----------------------------------------------------------------------------
(* The reference algorithms, for lists of any length of any numbers.  They *)
(* begin by sorting: every list can be put in any order that is total.     *)
LEMMA LeastOf ==
  ASSUME NEW T \in SUBSET Nat, T # {}
  PROVE  \E n \in T : \A m \in T : n <= m
<1> DEFINE R == {ss \in Nat \X Nat : ss[1] < ss[2]}
<1>1. IsWellFoundedOn(R, Nat)
  BY NatLessThanWellFounded DEF OpToRel
<1>2. \A x, y \in Nat : x < y => <<x, y>> \in R
  OBVIOUS
<1> HIDE DEF R
<1>3. PICK n \in T : \A m \in T : ~ (<<m, n>> \in R)
  BY <1>1, WFMin
<1>4. ASSUME NEW m \in T PROVE n <= m
  <2>1. m \in Nat /\ n \in Nat
    OBVIOUS
  <2>2. ~ (m < n)
    BY <1>2, <1>3, <2>1
  <2> QED
    BY <2>1, <2>2
<1> QED
  BY <1>4

IsOrder(R, S) ==
    /\ \A x, y \in S : <<x, y>> \in R \/ <<y, x>> \in R
    /\ \A x, y, z \in S : <<x, y>> \in R /\ <<y, z>> \in R => <<x, z>> \in R

(* A permutation of the first n numbers. *)
Permutes(p, n) ==
    /\ p \in [1..n -> 1..n]
    /\ \A i, j \in 1..n : p[i] = p[j] => i = j
    /\ \A j \in 1..n : \E i \in 1..n : p[i] = j

Puts(p, n, s, R) ==
    Permutes(p, n) /\ \A i, j \in 1..n : i < j => <<s[p[i]], s[p[j]]>> \in R

(* Insertion: the last member has a place among the others. *)
LEMMA HasPlace ==
  ASSUME NEW S, NEW R, IsOrder(R, S), NEW n \in Nat \ {0}, NEW s \in [1..n -> S],
         NEW q, Puts(q, n - 1, s, R)
  PROVE  \E k \in 1..n : /\ \A i \in 1..(n - 1) : i < k => <<s[q[i]], s[n]>> \in R
                         /\ \A i \in 1..(n - 1) : k <= i => <<s[n], s[q[i]]>> \in R
<1> DEFINE U == {k \in 1..n : k = n \/ <<s[n], s[q[k]]>> \in R}
<1>1. U \in SUBSET Nat /\ n \in U
  OBVIOUS
<1>2. PICK k \in U : \A m \in U : k <= m
  BY <1>1, LeastOf
<1>3. k \in 1..n /\ (k = n \/ <<s[n], s[q[k]]>> \in R)
  OBVIOUS
<1>4. \A i \in 1..(n - 1) : q[i] \in 1..(n - 1) /\ s[q[i]] \in S /\ s[n] \in S
  <2>1. \A i \in 1..(n - 1) : q[i] \in 1..(n - 1)
    BY DEF Puts, Permutes
  <2>2. 1..(n - 1) \subseteq 1..n /\ n \in 1..n
    OBVIOUS
  <2> QED
    BY <2>1, <2>2
<1>5. ASSUME NEW i \in 1..(n - 1), i < k PROVE <<s[q[i]], s[n]>> \in R
  <2>1. i \in 1..n /\ i \notin U
    BY <1>2, <1>3, <1>5
  <2>2. <<s[n], s[q[i]]>> \notin R
    BY <2>1
  <2> QED
    BY <1>4, <2>2 DEF IsOrder
<1>6. ASSUME NEW i \in 1..(n - 1), k <= i PROVE <<s[n], s[q[i]]>> \in R
  <2>1. k \in 1..(n - 1) /\ k # n
    BY <1>3, <1>6
  <2>2. <<s[n], s[q[k]]>> \in R
    BY <1>3, <2>1
  <2>3. k = i \/ <<s[q[k]], s[q[i]]>> \in R
    BY <1>3, <1>6, <2>1 DEF Puts
  <2> QED
    BY <1>4, <2>1, <2>2, <2>3 DEF IsOrder
<1> QED
  BY <1>3, <1>5, <1>6

LEMMA Inserts ==
  ASSUME NEW S, NEW R, IsOrder(R, S), NEW n \in Nat \ {0}, NEW s \in [1..n -> S],
         NEW q, Puts(q, n - 1, s, R)
  PROVE  \E p : Puts(p, n, s, R)
<1>1. PICK k \in 1..n : /\ \A i \in 1..(n - 1) : i < k => <<s[q[i]], s[n]>> \in R
                        /\ \A i \in 1..(n - 1) : k <= i => <<s[n], s[q[i]]>> \in R
  BY HasPlace
<1> DEFINE p == [i \in 1..n |-> IF i < k THEN q[i] ELSE IF i = k THEN n ELSE q[i - 1]]
<1>2. /\ \A i \in 1..(n - 1) : q[i] \in 1..(n - 1)
      /\ \A i, j \in 1..(n - 1) : q[i] = q[j] => i = j
      /\ \A j \in 1..(n - 1) : \E i \in 1..(n - 1) : q[i] = j
      /\ \A i, j \in 1..(n - 1) : i < j => <<s[q[i]], s[q[j]]>> \in R
  BY DEF Puts, Permutes
<1>3. /\ \A i \in 1..n : i < k => i \in 1..(n - 1) /\ p[i] = q[i]
      /\ p[k] = n
      /\ \A i \in 1..n : k < i => i - 1 \in 1..(n - 1) /\ k <= i - 1 /\ p[i] = q[i - 1]
  OBVIOUS
<1>4. p \in [1..n -> 1..n]
  <2>1. ASSUME NEW i \in 1..n PROVE p[i] \in 1..n
    <3>1. i < k \/ i = k \/ k < i
      OBVIOUS
    <3>2. 1..(n - 1) \subseteq 1..n /\ n \in 1..n
      OBVIOUS
    <3> HIDE DEF p
    <3>3. CASE i < k
      <4>1. i \in 1..(n - 1) /\ p[i] = q[i]
        BY <1>3, <3>3
      <4>2. q[i] \in 1..(n - 1)
        BY <1>2, <4>1
      <4> QED
        BY <3>2, <4>1, <4>2
    <3>4. CASE i = k
      BY <1>3, <3>2, <3>4
    <3>5. CASE k < i
      <4>1. i - 1 \in 1..(n - 1) /\ p[i] = q[i - 1]
        BY <1>3, <3>5
      <4>2. q[i - 1] \in 1..(n - 1)
        BY <1>2, <4>1
      <4> QED
        BY <3>2, <4>1, <4>2
    <3> QED
      BY <3>1, <3>3, <3>4, <3>5
  <2> QED
    BY <2>1
<1>5. \A i, j \in 1..n : i < k /\ k <= j => <<s[p[i]], s[p[j]]>> \in R
  <2> SUFFICES ASSUME NEW i \in 1..n, NEW j \in 1..n, i < k, k <= j
               PROVE  <<s[p[i]], s[p[j]]>> \in R
    OBVIOUS
  <2>1. i \in 1..(n - 1) /\ p[i] = q[i]
    BY <1>3
  <2>2. CASE j = k
    BY <1>1, <1>3, <2>1, <2>2
  <2>3. CASE k < j
    <3>1. j - 1 \in 1..(n - 1) /\ i < j - 1 /\ p[j] = q[j - 1]
      BY <1>3, <2>3
    <3> QED
      BY <1>2, <2>1, <3>1
  <2> QED
    BY <2>2, <2>3
<1>6. \A i, j \in 1..n : i < j => <<s[p[i]], s[p[j]]>> \in R
  <2> SUFFICES ASSUME NEW i \in 1..n, NEW j \in 1..n, i < j
               PROVE  <<s[p[i]], s[p[j]]>> \in R
    OBVIOUS
  <2>1. CASE i < k /\ k <= j
    BY <1>5, <2>1
  <2>2. CASE j < k
    <3>1. i \in 1..(n - 1) /\ j \in 1..(n - 1) /\ p[i] = q[i] /\ p[j] = q[j]
      BY <1>3, <2>2
    <3> QED
      BY <1>2, <3>1
  <2>3. CASE k <= i
    <3>1. j - 1 \in 1..(n - 1) /\ k <= j - 1 /\ p[j] = q[j - 1]
      BY <1>3, <2>3
    <3>2. CASE i = k
      BY <1>1, <1>3, <3>1, <3>2
    <3>3. CASE k < i
      <4>1. i - 1 \in 1..(n - 1) /\ i - 1 < j - 1 /\ p[i] = q[i - 1]
        BY <1>3, <3>3
      <4> QED
        BY <1>2, <3>1, <4>1
    <3> QED
      BY <2>3, <3>2, <3>3
  <2> QED
    BY <2>1, <2>2, <2>3
<1>7. \A i, j \in 1..n : p[i] = p[j] => i = j
  <2> SUFFICES ASSUME NEW i \in 1..n, NEW j \in 1..n, i # j PROVE p[i] # p[j]
    OBVIOUS
  <2> HIDE DEF p
  <2>1. /\ i < k \/ i = k \/ k < i
        /\ j < k \/ j = k \/ k < j
    OBVIOUS
  <2>6. \A m \in 1..(n - 1) : q[m] # n
    <3>1. \A x \in 1..(n - 1) : x # n
      OBVIOUS
    <3> QED
      BY <1>2, <3>1
  <2>2. CASE i = k \/ j = k
    <3>1. i = k => p[j] # n
      BY <1>3, <2>1, <2>6
    <3>2. j = k => p[i] # n
      BY <1>3, <2>1, <2>6
    <3> QED
      BY <1>3, <2>2, <3>1, <3>2
  <2>3. CASE i < k /\ j < k
    BY <1>2, <1>3, <2>3
  <2>4. CASE i < k /\ k < j
    <3>1. i \in 1..(n - 1) /\ j - 1 \in 1..(n - 1) /\ i # j - 1
      BY <1>3, <2>4
    <3> QED
      BY <1>2, <1>3, <2>4, <3>1
  <2>7. CASE k < i /\ j < k
    <3>1. i - 1 \in 1..(n - 1) /\ j \in 1..(n - 1) /\ i - 1 # j
      BY <1>3, <2>7
    <3> QED
      BY <1>2, <1>3, <2>7, <3>1
  <2>5. CASE k < i /\ k < j
    <3>1. i - 1 \in 1..(n - 1) /\ j - 1 \in 1..(n - 1) /\ i - 1 # j - 1
      BY <1>3, <2>5
    <3> QED
      BY <1>2, <1>3, <2>5, <3>1
  <2> QED
    BY <2>1, <2>2, <2>3, <2>4, <2>5, <2>7
<1>8. \A j \in 1..n : \E i \in 1..n : p[i] = j
  <2> SUFFICES ASSUME NEW j \in 1..n PROVE \E i \in 1..n : p[i] = j
    OBVIOUS
  <2> HIDE DEF p
  <2>1. CASE j = n
    BY <1>3, <2>1
  <2>2. CASE j # n
    <3>0. j \in 1..(n - 1)
      BY <2>2
    <3>1. PICK i \in 1..(n - 1) : q[i] = j
      BY <1>2, <3>0
    <3>2. CASE i < k
      BY <1>3, <3>1, <3>2
    <3>3. CASE k <= i
      <4>1. i + 1 \in 1..n /\ k < i + 1 /\ (i + 1) - 1 = i
        BY <3>3
      <4>2. p[i + 1] = q[(i + 1) - 1]
        BY <1>3, <4>1
      <4> QED
        BY <3>1, <4>1, <4>2
    <3>4. i < k \/ k <= i
      OBVIOUS
    <3> QED
      BY <3>2, <3>3, <3>4
  <2> QED
    BY <2>1, <2>2
<1> HIDE DEF p
<1>9. Permutes(p, n)
  BY <1>4, <1>7, <1>8 DEF Permutes
<1>10. Puts(p, n, s, R)
  BY <1>6, <1>9 DEF Puts
<1> QED
  BY <1>10

(* The shortest list that could not be sorted would be one more than one   *)
(* that can.                                                               *)
LEMMA Sortable ==
  ASSUME NEW S, NEW R, IsOrder(R, S), NEW n \in Nat, NEW s \in [1..n -> S]
  PROVE  \E p : Puts(p, n, s, R)
<1> DEFINE T == {m \in Nat : m <= n /\ ~ \E p : Puts(p, m, s, R)}
<1>1. ASSUME T # {} PROVE FALSE
  <2>1. T \in SUBSET Nat
    OBVIOUS
  <2>2. PICK m \in T : \A l \in T : m <= l
    BY <1>1, <2>1, LeastOf
  <2>3. m \in Nat /\ m <= n /\ ~ \E p : Puts(p, m, s, R)
    OBVIOUS
  <2>4. m # 0
    <3>1. Puts(<< >>, 0, s, R)
      BY DEF Puts, Permutes
    <3> QED
      BY <2>3, <3>1
  <2>5. m - 1 \in Nat /\ m - 1 <= n /\ ~(m <= m - 1)
    BY <2>3, <2>4
  <2>6. m - 1 \notin T
    BY <2>2, <2>5
  <2>7. PICK q : Puts(q, m - 1, s, R)
    BY <2>5, <2>6
  <2> DEFINE r == [i \in 1..m |-> s[i]]
  <2>8. /\ r \in [1..m -> S]
        /\ \A i \in 1..m : r[i] = s[i]
    BY <2>3
  <2> HIDE DEF r
  <2>9. Puts(q, m - 1, r, R)
    <3>1. \A i \in 1..(m - 1) : q[i] \in 1..(m - 1)
      BY <2>7 DEF Puts, Permutes
    <3>2. \A i \in 1..(m - 1) : r[q[i]] = s[q[i]]
      BY <2>3, <2>8, <3>1
    <3> QED
      BY <2>7, <3>2 DEF Puts
  <2>10. PICK p : Puts(p, m, r, R)
    BY <2>3, <2>4, <2>8, <2>9, Inserts
  <2>11. Puts(p, m, s, R)
    <3>1. \A i \in 1..m : p[i] \in 1..m
      BY <2>10 DEF Puts, Permutes
    <3>2. \A i \in 1..m : r[p[i]] = s[p[i]]
      BY <2>8, <3>1
    <3> QED
      BY <2>10, <3>2 DEF Puts
  <2> QED
    BY <2>3, <2>11
<1>2. n \notin T
  BY <1>1
<1> QED
  BY <1>2

LEMMA ListIs ==
  ASSUME NEW S, NEW n \in Nat, NEW s
  PROVE  s \in Seq(S) /\ Len(s) = n <=> s \in [1..n -> S]
OBVIOUS

LEMMA SortedIs ==
  ASSUME NEW S, NEW R, IsOrder(R, S), NEW s \in Seq(S)
  PROVE  \E p : /\ Puts(p, Len(s), s, R)
                /\ Referring!Sorted(s, R) = [i \in 1..Len(s) |-> s[p[i]]]
<1>1. Len(s) \in Nat /\ DOMAIN s = 1..Len(s) /\ s \in [1..Len(s) -> S]
  OBVIOUS
<1>2. \A p : p \in Referring!Bijection(DOMAIN s, DOMAIN s) /\ Referring!InOrder(p, s, R)
               <=> Puts(p, Len(s), s, R)
  <2> DEFINE D == DOMAIN s
  <2>1. \A p : p \in Referring!Bijection(D, D) <=>
                /\ p \in [D -> D]
                /\ \A i, j \in D : p[i] = p[j] => i = j
                /\ \A j \in D : \E i \in D : p[i] = j
    BY DEF Referring!Bijection, Referring!Injection, Referring!Surjection, Referring!IsInjective
  <2>2. \A p : Referring!InOrder(p, s, R) <=>
                \A i, j \in D : i < j => <<s[p[i]], s[p[j]]>> \in R
    BY DEF Referring!InOrder
  <2> QED
    BY <1>1, <2>1, <2>2 DEF Puts, Permutes
<1>3. \E p : Puts(p, Len(s), s, R)
  BY <1>1, Sortable
<1> DEFINE p == CHOOSE p \in Referring!Bijection(DOMAIN s, DOMAIN s) : Referring!InOrder(p, s, R)
<1>4. p \in Referring!Bijection(DOMAIN s, DOMAIN s) /\ Referring!InOrder(p, s, R)
  BY <1>2, <1>3
<1>5. Referring!Sorted(s, R) = [i \in 1..Len(s) |-> s[p[i]]]
  BY <1>1 DEF Referring!Sorted
<1>6. Puts(p, Len(s), s, R)
  BY <1>2, <1>4
<1> HIDE DEF p
<1> QED
  BY <1>5, <1>6

-----------------------------------------------------------------------------
(* The pairs that are left are in order, and those that are merged are     *)
(* pairs: with that, what is merged is exact at every step.                *)
Points(x, p) == 2 * p[1] <= x /\ x <= 2 * p[2]
Starts(p, q) == p[1] <= q[1]
RefTyped ==
    /\ MaxPoint \in Nat
    /\ data \in Seq(Referring!Pairs)
    /\ rest \in Seq(Referring!Pairs) /\ out \in Seq(Referring!Pairs)
RestInOrder == \A i, j \in DOMAIN rest : i < j => Starts(rest[i], rest[j])
RefInv == RefTyped /\ RestInOrder /\ Referring!MergeIsExact

LEMMA PairIs ==
  ASSUME MaxPoint \in Nat
  PROVE  /\ \A p \in Referring!Pairs : p[1] \in Int /\ p[2] \in Int /\ p[1] <= p[2]
         /\ \A p \in Referring!Pairs : p[1] \in 0..MaxPoint /\ p[2] \in 0..MaxPoint
         /\ \A a, b \in 0..MaxPoint : a <= b => <<a, b>> \in Referring!Pairs
BY DEF Referring!Pairs

LEMMA CoverIs ==
  ASSUME NEW s, NEW x
  PROVE  x \in Referring!Cover(s) <=>
           x \in 0..(2 * MaxPoint) /\ \E i \in DOMAIN s : Points(x, s[i])
BY DEF Referring!Cover, Points

LEMMA OrdersAre ==
  ASSUME MaxPoint \in Nat
  PROVE  /\ IsOrder(Referring!Ascending, Referring!Pairs)
         /\ IsOrder(Referring!Descending, 0..MaxPoint)
<1>1. IsOrder(Referring!Ascending, Referring!Pairs)
  <2>1. \A p, q \in Referring!Pairs : <<p, q>> \in Referring!Ascending <=>
          p[1] < q[1] \/ (p[1] = q[1] /\ p[2] <= q[2])
    BY DEF Referring!Ascending
  <2>2. ASSUME NEW p \in Referring!Pairs, NEW q \in Referring!Pairs
        PROVE  <<p, q>> \in Referring!Ascending \/ <<q, p>> \in Referring!Ascending
    BY <2>1, PairIs
  <2>3. ASSUME NEW p \in Referring!Pairs, NEW q \in Referring!Pairs, NEW r \in Referring!Pairs,
               <<p, q>> \in Referring!Ascending, <<q, r>> \in Referring!Ascending
        PROVE  <<p, r>> \in Referring!Ascending
    BY <2>1, <2>3, PairIs
  <2> QED
    BY <2>2, <2>3 DEF IsOrder
<1>2. IsOrder(Referring!Descending, 0..MaxPoint)
  <2>1. \A p, q \in 0..MaxPoint : <<p, q>> \in Referring!Descending <=> p >= q
    BY DEF Referring!Descending
  <2>2. \A p, q \in 0..MaxPoint : <<p, q>> \in Referring!Descending \/ <<q, p>> \in Referring!Descending
    <3>1. \A p, q \in 0..MaxPoint : p >= q \/ q >= p
      OBVIOUS
    <3> QED
      BY <2>1, <3>1
  <2>3. ASSUME NEW p \in 0..MaxPoint, NEW q \in 0..MaxPoint, NEW r \in 0..MaxPoint,
               <<p, q>> \in Referring!Descending, <<q, r>> \in Referring!Descending
        PROVE  <<p, r>> \in Referring!Descending
    BY <2>1, <2>3
  <2> QED
    BY <2>2, <2>3 DEF IsOrder
<1> QED
  BY <1>1, <1>2

LEMMA RefInitInv ==
  ASSUME MaxPoint \in Nat, MaxPairs \in Nat, Referring!ReferenceInit
  PROVE  RefInv
<1>1. data \in Seq(Referring!Pairs) /\ out = << >>
  BY DEF Referring!ReferenceInit
<1>2. PICK p : /\ Puts(p, Len(data), data, Referring!Ascending)
               /\ rest = [i \in 1..Len(data) |-> data[p[i]]]
  BY <1>1, OrdersAre, SortedIs DEF Referring!ReferenceInit
<1>3. /\ p \in [1..Len(data) -> 1..Len(data)]
      /\ \A j \in 1..Len(data) : \E i \in 1..Len(data) : p[i] = j
      /\ \A i, j \in 1..Len(data) : i < j => <<data[p[i]], data[p[j]]>> \in Referring!Ascending
  BY <1>2 DEF Puts, Permutes
<1>4. /\ DOMAIN data = 1..Len(data) /\ DOMAIN rest = 1..Len(data)
      /\ \A i \in 1..Len(data) : data[i] \in Referring!Pairs
      /\ \A i \in 1..Len(data) : rest[i] = data[p[i]] /\ rest[i] \in Referring!Pairs
  <2>1. DOMAIN data = 1..Len(data) /\ \A i \in 1..Len(data) : data[i] \in Referring!Pairs
    BY <1>1
  <2>2. DOMAIN rest = 1..Len(data) /\ \A i \in 1..Len(data) : rest[i] = data[p[i]]
    BY <1>2
  <2>3. \A i \in 1..Len(data) : p[i] \in 1..Len(data)
    BY <1>3
  <2> QED
    BY <2>1, <2>2, <2>3
<1>5. rest \in Seq(Referring!Pairs)
  <2>1. Len(data) \in Nat
    BY <1>1
  <2>2. rest \in [1..Len(data) -> Referring!Pairs]
    BY <1>2, <1>4
  <2> QED
    BY <2>1, <2>2, ListIs
<1>6. RestInOrder
  <2>1. \A a, b \in Referring!Pairs : <<a, b>> \in Referring!Ascending => Starts(a, b)
    BY PairIs DEF Referring!Ascending, Starts
  <2>2. ASSUME NEW i \in DOMAIN rest, NEW j \in DOMAIN rest, i < j
        PROVE  Starts(rest[i], rest[j])
    <3>1. <<rest[i], rest[j]>> \in Referring!Ascending
      <4>1. i \in 1..Len(data) /\ j \in 1..Len(data)
        BY <1>4
      <4>2. rest[i] = data[p[i]] /\ rest[j] = data[p[j]]
        BY <1>4, <4>1
      <4>3. <<data[p[i]], data[p[j]]>> \in Referring!Ascending
        BY <1>3, <2>2, <4>1
      <4> QED
        BY <4>2, <4>3
    <3>2. rest[i] \in Referring!Pairs /\ rest[j] \in Referring!Pairs
      BY <1>4
    <3> QED
      BY <2>1, <3>1, <3>2
  <2> QED
    BY <2>2 DEF RestInOrder
<1>7. Referring!MergeIsExact
  <2>1. ASSUME NEW x
        PROVE  (\E i \in DOMAIN rest : Points(x, rest[i])) <=> (\E i \in DOMAIN data : Points(x, data[i]))
    <3>1. ASSUME NEW i \in DOMAIN rest, Points(x, rest[i])
          PROVE  \E j \in DOMAIN data : Points(x, data[j])
      <4>1. p[i] \in DOMAIN data /\ rest[i] = data[p[i]]
        BY <1>3, <1>4
      <4> QED
        BY <3>1, <4>1
    <3>2. ASSUME NEW j \in DOMAIN data, Points(x, data[j])
          PROVE  \E i \in DOMAIN rest : Points(x, rest[i])
      <4>1. PICK i \in 1..Len(data) : p[i] = j
        BY <1>3, <1>4
      <4>2. i \in DOMAIN rest /\ rest[i] = data[j]
        BY <1>4, <4>1
      <4> QED
        BY <3>2, <4>2
    <3> QED
      BY <3>1, <3>2
  <2>2. \A x : x \in Referring!Cover(rest) <=> x \in Referring!Cover(data)
    BY <2>1, CoverIs
  <2>3. DOMAIN out = {}
    BY <1>1
  <2>4. \A x : x \notin Referring!Cover(out)
    BY <2>3, CoverIs
  <2> QED
    BY <2>2, <2>3, <2>4 DEF Referring!MergeIsExact
<1> QED
  BY <1>1, <1>5, <1>6, <1>7 DEF RefInv, RefTyped

(* The pair that is taken, and what is left. *)
LEMMA RestIs ==
  ASSUME RefInv, rest # << >>, rest' = Tail(rest)
  PROVE  /\ Head(rest) \in Referring!Pairs /\ rest' \in Seq(Referring!Pairs)
         /\ RestInOrder'
         /\ \A j \in DOMAIN rest' : Starts(Head(rest), rest'[j])
         /\ \A x : (\E i \in DOMAIN rest : Points(x, rest[i])) <=>
                     Points(x, Head(rest)) \/ \E i \in DOMAIN rest' : Points(x, rest'[i])
         /\ \A i \in DOMAIN rest' : \E j \in DOMAIN rest : rest'[i] = rest[j]
         /\ 1 \in DOMAIN rest /\ Head(rest) = rest[1]
<1>1. rest \in Seq(Referring!Pairs)
  BY DEF RefInv, RefTyped
<1>2. /\ Len(rest) \in Nat /\ Len(rest) > 0 /\ DOMAIN rest = 1..Len(rest)
      /\ Head(rest) = rest[1] /\ 1 \in DOMAIN rest
      /\ rest' \in Seq(Referring!Pairs) /\ DOMAIN rest' = 1..(Len(rest) - 1)
      /\ \A i \in DOMAIN rest' : i + 1 \in DOMAIN rest /\ rest'[i] = rest[i + 1]
  BY <1>1
<1>3. \A i \in DOMAIN rest : i = 1 \/ (i - 1 \in DOMAIN rest' /\ rest'[i - 1] = rest[i])
  BY <1>2
<1>4. rest[1] \in Referring!Pairs
  BY <1>1, <1>2
<1>5. RestInOrder'
  <2>1. ASSUME NEW i \in DOMAIN rest', NEW j \in DOMAIN rest', i < j
        PROVE  Starts(rest'[i], rest'[j])
    <3>1. i + 1 < j + 1
      BY <1>2, <2>1
    <3> QED
      BY <1>2, <3>1 DEF RefInv, RestInOrder
  <2> QED
    BY <2>1 DEF RestInOrder
<1>6. ASSUME NEW j \in DOMAIN rest' PROVE Starts(Head(rest), rest'[j])
  <2>1. 1 < j + 1
    BY <1>2
  <2> QED
    BY <1>2, <2>1 DEF RefInv, RestInOrder
<1>7. ASSUME NEW x
      PROVE  (\E i \in DOMAIN rest : Points(x, rest[i])) <=>
                Points(x, Head(rest)) \/ \E i \in DOMAIN rest' : Points(x, rest'[i])
  BY <1>2, <1>3
<1> QED
  BY <1>2, <1>4, <1>5, <1>6, <1>7

(* What has been merged is in order, and starts before what has not been.  *)
Apart(s) == \A i \in DOMAIN s : i > 1 => s[i - 1][2] < s[i][1]
StartsFirst(s, r) == \A i \in DOMAIN s : \A j \in DOMAIN r : Starts(s[i], r[j])

LEMMA ExactIs ==
  Referring!MergeIsExact <=>
    /\ \A x : (x \in Referring!Cover(out) \/ x \in Referring!Cover(rest)) <=> x \in Referring!Cover(data)
    /\ Apart(out) /\ StartsFirst(out, rest)
BY DEF Referring!MergeIsExact, Apart, StartsFirst, Starts

LEMMA FrontIs ==
  ASSUME NEW S, NEW s \in Seq(S), NEW n \in Nat \ {0}, n = Len(s)
  PROVE  /\ SubSeq(s, 1, n - 1) \in Seq(S) /\ Len(SubSeq(s, 1, n - 1)) = n - 1
         /\ \A i \in 1..(n - 1) : SubSeq(s, 1, n - 1)[i] = s[i]
         /\ (n - 1) + 1 = n /\ \A i \in 1..n : i # n => i \in 1..(n - 1)
<1>1. SubSeq(s, 1, n - 1) = [i \in 1..(n - 1) |-> s[i]]
  OBVIOUS
<1>2. [i \in 1..(n - 1) |-> s[i]] \in [1..(n - 1) -> S]
  OBVIOUS
<1> QED
  BY <1>1, <1>2

(* The last of what has been merged gives way to one that starts with it,  *)
(* or another comes after it.                                              *)
LEMMA OutIs ==
  ASSUME RefInv, Referring!Merge
  PROVE  /\ out' \in Seq(Referring!Pairs) /\ Apart(out') /\ StartsFirst(out', rest')
         /\ \A x \in Int : (\E i \in DOMAIN out' : Points(x, out'[i])) <=>
                     Points(x, Head(rest)) \/ \E i \in DOMAIN out : Points(x, out[i])
<1> DEFINE h == Head(rest)
<1>0. PICK n \in Nat : n = Len(out)
  BY DEF RefInv, RefTyped
<1>1. /\ h \in Referring!Pairs
      /\ \A j \in DOMAIN rest' : Starts(h, rest'[j])
      /\ \A i \in DOMAIN rest' : \E j \in DOMAIN rest : rest'[i] = rest[j]
      /\ 1 \in DOMAIN rest /\ h = rest[1]
      /\ rest' \in Seq(Referring!Pairs)
  BY RestIs DEF Referring!Merge
<1>2. /\ MaxPoint \in Nat /\ out \in Seq(Referring!Pairs) /\ rest \in Seq(Referring!Pairs)
      /\ Apart(out) /\ StartsFirst(out, rest)
  BY ExactIs DEF RefInv, RefTyped
<1>3. /\ n \in Nat /\ DOMAIN out = 1..n
      /\ \A i \in 1..n : out[i] \in Referring!Pairs
  BY <1>0, <1>2
<1>4. StartsFirst(out, rest')
  BY <1>1, <1>2 DEF StartsFirst
<1>5. \A i \in DOMAIN out : Starts(out[i], h)
  BY <1>1, <1>2 DEF StartsFirst
<1>6. \A j \in DOMAIN rest' : rest'[j] \in Referring!Pairs
  BY <1>1
<1>7. CASE out # << >> /\ h[1] <= out[n][2]
  <2> DEFINE e == IF h[2] > out[n][2] THEN h[2] ELSE out[n][2]
             m == <<out[n][1], e>>
  <2>1. n > 0 /\ n \in 1..n
    BY <1>0, <1>2, <1>7
  <2>2. out' = Append(SubSeq(out, 1, n - 1), m)
    BY <1>0, <1>7 DEF Referring!Merge, Referring!Last, Referring!Front
  <2>3. /\ h[1] \in 0..MaxPoint /\ h[2] \in 0..MaxPoint /\ h[1] <= h[2]
        /\ out[n][1] \in 0..MaxPoint /\ out[n][2] \in 0..MaxPoint /\ out[n][1] <= out[n][2]
        /\ out[n][1] <= h[1]
    BY <1>1, <1>2, <1>3, <1>5, <2>1, PairIs DEF Starts
  <2>4. m \in Referring!Pairs
    <3>1. e \in 0..MaxPoint /\ out[n][1] <= e
      BY <1>2, <2>3
    <3> QED
      BY <1>2, <2>3, <3>1, PairIs
  <2>5. /\ out' \in Seq(Referring!Pairs) /\ Len(out') = n /\ DOMAIN out' = 1..n
        /\ \A i \in 1..n : i # n => out'[i] = out[i]
        /\ out'[n] = m
    <3> DEFINE f == SubSeq(out, 1, n - 1)
    <3>1. /\ f \in Seq(Referring!Pairs) /\ Len(f) = n - 1
          /\ \A i \in 1..(n - 1) : f[i] = out[i]
          /\ (n - 1) + 1 = n /\ \A i \in 1..n : i # n => i \in 1..(n - 1)
      BY <1>0, <1>2, <1>3, <2>1, FrontIs
    <3> HIDE DEF m, f
    <3>2. /\ out' \in Seq(Referring!Pairs) /\ Len(out') = (n - 1) + 1
          /\ \A i \in 1..(n - 1) : out'[i] = f[i]
          /\ out'[(n - 1) + 1] = m
      BY <2>2, <2>4, <3>1 DEF f
    <3>3. DOMAIN out' = 1..n
      BY <3>1, <3>2
    <3> QED
      BY <3>1, <3>2, <3>3
  <2>6. m[1] = out[n][1] /\ m[2] = e
    OBVIOUS
  <2>7. \A i \in 1..n : out'[i][1] = out[i][1]
    BY <2>5, <2>6
  <2>8. ASSUME NEW x \in Int
        PROVE  Points(x, m) <=> Points(x, h) \/ Points(x, out[n])
    <3>1. /\ e \in Int /\ e >= h[2] /\ e >= out[n][2] /\ (e = h[2] \/ e = out[n][2])
          /\ h[1] \in Int /\ h[2] \in Int /\ out[n][1] \in Int /\ out[n][2] \in Int
          /\ h[1] <= out[n][2] /\ out[n][1] <= h[1] /\ h[1] <= h[2]
      BY <1>2, <1>7, <2>3, SMTT(30)
    <3>2. m[1] = out[n][1] /\ m[2] = e
      BY <2>6
    <3> HIDE DEF m, e, h
    <3> QED
      BY <3>1, <3>2 DEF Points
  <2> HIDE DEF m, e
  <2>9. Apart(out')
    <3>1. ASSUME NEW i \in 1..n, i > 1 PROVE out'[i - 1][2] < out'[i][1]
      <4>1. i - 1 \in 1..n /\ i - 1 # n
        BY <1>3, <3>1
      <4>2. out[i - 1][2] < out[i][1]
        BY <1>2, <1>3, <3>1 DEF Apart
      <4> QED
        BY <2>5, <2>7, <4>1, <4>2
    <3> QED
      BY <2>5, <3>1 DEF Apart
  <2>10. StartsFirst(out', rest')
    BY <1>3, <1>4, <2>5, <2>7 DEF StartsFirst, Starts
  <2>11. ASSUME NEW x \in Int
         PROVE  (\E i \in DOMAIN out' : Points(x, out'[i])) <=>
                   Points(x, h) \/ \E i \in DOMAIN out : Points(x, out[i])
    <3>1. ASSUME NEW i \in 1..n PROVE i # n => (Points(x, out'[i]) <=> Points(x, out[i]))
      BY <2>5
    <3>2. Points(x, out'[n]) <=> Points(x, h) \/ Points(x, out[n])
      BY <2>5, <2>8
    <3> QED
      BY <1>3, <2>1, <2>5, <3>1, <3>2
  <2> QED
    BY <2>5, <2>9, <2>10, <2>11
<1>8. CASE ~(out # << >> /\ h[1] <= out[n][2])
  <2>1. out' = Append(out, h)
    BY <1>0, <1>8 DEF Referring!Merge, Referring!Last
  <2>2. /\ out' \in Seq(Referring!Pairs) /\ DOMAIN out' = 1..(n + 1)
        /\ \A i \in 1..n : out'[i] = out[i]
        /\ out'[n + 1] = h
    <3> HIDE DEF h
    <3> QED
      BY <1>0, <1>1, <1>2, <1>3, <2>1
  <2>3. n > 0 => out[n][2] < h[1]
    <3>1. n > 0 => out # << >> /\ n \in 1..n
      BY <1>0, <1>2, <1>3
    <3>2. n > 0 => out[n][2] \in Int /\ h[1] \in Int
      BY <1>1, <1>2, <1>3, <3>1, PairIs
    <3> QED
      BY <1>8, <3>1, <3>2
  <2>4. \A i \in 1..(n + 1) : i \in 1..n \/ i = n + 1
    BY <1>3
  <2> HIDE DEF h
  <2>5. Apart(out')
    <3>1. ASSUME NEW i \in 1..(n + 1), i > 1 PROVE out'[i - 1][2] < out'[i][1]
      <4>1. CASE i = n + 1
        <5>1. n > 0 /\ i - 1 = n /\ n \in 1..n
          BY <1>3, <3>1, <4>1
        <5> QED
          BY <2>2, <2>3, <4>1, <5>1
      <4>2. CASE i \in 1..n
        <5>1. i - 1 \in 1..n
          BY <1>3, <3>1, <4>2
        <5>2. out[i - 1][2] < out[i][1]
          BY <1>2, <1>3, <3>1, <4>2 DEF Apart
        <5> QED
          BY <2>2, <4>2, <5>1, <5>2
      <4> QED
        BY <2>4, <4>1, <4>2
    <3> QED
      BY <2>2, <3>1 DEF Apart
  <2>6. StartsFirst(out', rest')
    BY <1>1, <1>3, <1>4, <2>2, <2>4 DEF StartsFirst
  <2>7. ASSUME NEW x \in Int
        PROVE  (\E i \in DOMAIN out' : Points(x, out'[i])) <=>
                  Points(x, h) \/ \E i \in DOMAIN out : Points(x, out[i])
    <3>1. n + 1 \in DOMAIN out' /\ \A i \in 1..n : i \in DOMAIN out' /\ i \in DOMAIN out
      BY <1>3, <2>2
    <3>2. \A i \in DOMAIN out' : i \in DOMAIN out \/ i = n + 1
      BY <1>3, <2>2, <2>4
    <3> QED
      BY <1>3, <2>2, <3>1, <3>2
  <2> QED
    BY <2>2, <2>5, <2>6, <2>7 DEF h
<1> QED
  BY <1>7, <1>8

LEMMA MergeKeeps ==
  ASSUME RefInv, Referring!Merge
  PROVE  RefInv'
<1>1. /\ rest # << >> /\ rest' = Tail(rest) /\ data' = data
      /\ MaxPoint \in Nat /\ data \in Seq(Referring!Pairs)
  BY DEF Referring!Merge, RefInv, RefTyped
<1>2. /\ rest' \in Seq(Referring!Pairs) /\ RestInOrder'
      /\ \A x : (\E i \in DOMAIN rest : Points(x, rest[i])) <=>
                  Points(x, Head(rest)) \/ \E i \in DOMAIN rest' : Points(x, rest'[i])
  BY <1>1, RestIs
<1>3. /\ out' \in Seq(Referring!Pairs) /\ Apart(out') /\ StartsFirst(out', rest')
      /\ \A x \in Int : (\E i \in DOMAIN out' : Points(x, out'[i])) <=>
                  Points(x, Head(rest)) \/ \E i \in DOMAIN out : Points(x, out[i])
  BY OutIs
<1>4. \A x : (x \in Referring!Cover(out) \/ x \in Referring!Cover(rest)) <=> x \in Referring!Cover(data)
  BY ExactIs DEF RefInv
<1>5. ASSUME NEW x
      PROVE  (x \in Referring!Cover(out') \/ x \in Referring!Cover(rest')) <=> x \in Referring!Cover(data)
  <2>1. x \in 0..(2 * MaxPoint) => x \in Int
    BY <1>1
  <2>2. /\ x \in Referring!Cover(out') <=>
              x \in 0..(2 * MaxPoint) /\ \E i \in DOMAIN out' : Points(x, out'[i])
        /\ x \in Referring!Cover(rest') <=>
              x \in 0..(2 * MaxPoint) /\ \E i \in DOMAIN rest' : Points(x, rest'[i])
    BY CoverIs
  <2>3. /\ x \in Referring!Cover(out) <=>
              x \in 0..(2 * MaxPoint) /\ \E i \in DOMAIN out : Points(x, out[i])
        /\ x \in Referring!Cover(rest) <=>
              x \in 0..(2 * MaxPoint) /\ \E i \in DOMAIN rest : Points(x, rest[i])
    BY CoverIs
  <2> QED
    BY <1>2, <1>3, <1>4, <2>1, <2>2, <2>3
<1>6. Referring!MergeIsExact'
  <2>1. \A x : (x \in Referring!Cover(out') \/ x \in Referring!Cover(rest')) <=> x \in Referring!Cover(data')
    BY <1>1, <1>5
  <2>2. (Referring!Cover(out') \union Referring!Cover(rest')) = Referring!Cover(data')
    BY <2>1
  <2> QED
    BY <1>3, <2>2 DEF Referring!MergeIsExact, Apart, StartsFirst, Starts
<1> QED
  BY <1>1, <1>2, <1>3, <1>6 DEF RefInv, RefTyped

-----------------------------------------------------------------------------
(* The largest k: the first ones of the values in descending order.  Each  *)
(* of them is in a place of its own among the values; if a value is there  *)
(* more often, one of its places is behind all of them.                    *)
LEMMA ReferringCounts == \A S : Referring!Cardinality(S) = Cardinality(S)
  BY DEF Referring!Cardinality, Cardinality, Referring!IsFiniteSet, IsFiniteSet

Places(v, s, n) == {i \in 1..n : s[i] = v}

TopHas(v, top, m, values, n) ==
    /\ Cardinality(Places(v, top, m)) <= Cardinality(Places(v, values, n))
    /\ Cardinality(Places(v, top, m)) < Cardinality(Places(v, values, n))
         => \A i \in 1..m : v <= top[i]

LEMMA TopCounts ==
  ASSUME MaxPoint \in Nat, NEW n \in Nat, NEW values \in [1..n -> 0..MaxPoint],
         NEW p, Puts(p, n, values, Referring!Descending),
         NEW m \in 0..n, NEW top \in [1..m -> 0..MaxPoint],
         \A i \in 1..m : top[i] = values[p[i]],
         NEW v \in 0..MaxPoint
  PROVE  TopHas(v, top, m, values, n)
<1> DEFINE A == Places(v, top, m)
           B == Places(v, values, n)
           f == [i \in A |-> p[i]]
<1>1. /\ p \in [1..n -> 1..n]
      /\ \A i, j \in 1..n : p[i] = p[j] => i = j
      /\ \A j \in 1..n : \E i \in 1..n : p[i] = j
      /\ \A i, j \in 1..n : i < j => <<values[p[i]], values[p[j]]>> \in Referring!Descending
  BY DEF Puts, Permutes
<1>2. \A i \in 1..m : i \in 1..n
  OBVIOUS
<1>3. f \in Injection(A, B)
  <2>1. \A i \in A : i \in 1..m /\ top[i] = v
    BY DEF Places
  <2>2. \A i \in A : p[i] \in 1..n /\ values[p[i]] = v
    BY <1>1, <1>2, <2>1
  <2>3. \A i \in A : p[i] \in B
    BY <2>2 DEF Places
  <2>4. \A i, j \in A : p[i] = p[j] => i = j
    BY <1>1, <1>2, <2>1
  <2> HIDE DEF A, B
  <2> QED
    BY <2>3, <2>4 DEF Injection, IsInjective
<1>4. IsFiniteSet(A) /\ IsFiniteSet(B)
  <2>1. IsFiniteSet(1..m) /\ IsFiniteSet(1..n)
    BY FS_Interval
  <2>2. A \subseteq 1..m /\ B \subseteq 1..n
    BY DEF Places
  <2> QED
    BY <2>1, <2>2, FS_Subset
<1> HIDE DEF A, B, f
<1>5. /\ Cardinality(A) <= Cardinality(B)
      /\ Cardinality(A) = Cardinality(B) <=> f \in Surjection(A, B)
  BY <1>3, <1>4, FS_Injection
<1>6. ASSUME Cardinality(A) < Cardinality(B), NEW i \in 1..m
      PROVE  v <= top[i]
  <2>1. Cardinality(A) # Cardinality(B)
    BY <1>4, <1>6, FS_CardinalityType
  <2>2. f \notin Surjection(A, B)
    BY <1>5, <2>1
  <2>3. PICK j \in B : \A a \in A : f[a] # j
    BY <1>3, <2>2 DEF Injection, Surjection
  <2>4. j \in 1..n /\ values[j] = v
    BY DEF B, Places
  <2>5. PICK l \in 1..n : p[l] = j
    BY <1>1, <2>4
  <2>6. l \notin 1..m
    <3>1. ASSUME l \in 1..m PROVE FALSE
      <4>1. top[l] = v
        BY <2>4, <2>5, <3>1
      <4>2. l \in A
        BY <3>1, <4>1 DEF A, Places
      <4> QED
        BY <2>3, <2>5, <4>2 DEF f
    <3> QED
      BY <3>1
  <2>7. i \in 1..n /\ i < l
    BY <1>2, <2>6
  <2>8. <<values[p[i]], values[p[l]]>> \in Referring!Descending
    BY <1>1, <2>7
  <2>9. values[p[i]] >= values[p[l]]
    BY <2>8 DEF Referring!Descending
  <2>10. top[i] >= v
    BY <2>4, <2>5, <2>9
  <2>11. top[i] \in Nat /\ v \in Nat
    OBVIOUS
  <2> QED
    BY <2>10, <2>11
<1> QED
  BY <1>5, <1>6 DEF A, B, TopHas

IsTop(p, top, values, n, m) ==
    /\ Puts(p, n, values, Referring!Descending)
    /\ top \in [1..m -> 0..MaxPoint] /\ Len(top) = m
    /\ \A i \in 1..m : top[i] = values[p[i]]

LEMMA TopIs ==
  ASSUME MaxPoint \in Nat, NEW n \in Nat, NEW values \in [1..n -> 0..MaxPoint],
         NEW k \in 0..(n + 1), NEW m \in 0..n, m = IF k < n THEN k ELSE n
  PROVE  \E p : IsTop(p, Referring!TopK(values, k), values, n, m)
<1>0. values \in Seq(0..MaxPoint) /\ Len(values) = n
  BY ListIs
<1>1. PICK p : /\ Puts(p, n, values, Referring!Descending)
               /\ Referring!Sorted(values, Referring!Descending) = [i \in 1..n |-> values[p[i]]]
  BY <1>0, OrdersAre, SortedIs
<1>3. PICK s : s = [i \in 1..n |-> values[p[i]]]
  OBVIOUS
<1>4. Referring!TopK(values, k) = SubSeq(s, 1, m)
  BY <1>0, <1>1, <1>3 DEF Referring!TopK
<1>5. p \in [1..n -> 1..n]
  BY <1>1 DEF Puts, Permutes
<1>6. s \in [1..n -> 0..MaxPoint] /\ s \in Seq(0..MaxPoint)
  <2>1. s \in [1..n -> 0..MaxPoint]
    BY <1>3, <1>5
  <2> QED
    BY <2>1, ListIs
<1>7. SubSeq(s, 1, m) = [i \in 1..m |-> s[i]]
  BY <1>6
<1>8. \A i \in 1..m : i \in 1..n
  OBVIOUS
<1>9. [i \in 1..m |-> s[i]] \in [1..m -> 0..MaxPoint]
  BY <1>6, <1>8
<1>10. SubSeq(s, 1, m) \in Seq(0..MaxPoint) /\ Len(SubSeq(s, 1, m)) = m
  BY <1>7, <1>9, ListIs
<1>11. \A i \in 1..m : SubSeq(s, 1, m)[i] = values[p[i]]
  BY <1>3, <1>7, <1>8
<1> QED
  <2>1. IsTop(p, SubSeq(s, 1, m), values, n, m)
    BY <1>1, <1>7, <1>9, <1>10, <1>11 DEF IsTop
  <2> QED
    BY <1>4, <2>1

LEMMA TopIsLargest ==
  ASSUME RefInv
  PROVE  Referring!TopKIsLargest
<1> DEFINE vs == [i \in DOMAIN data |-> data[i][2]]
<1>1. MaxPoint \in Nat /\ data \in Seq(Referring!Pairs)
  BY DEF RefInv, RefTyped
<1>2. PICK n \in Nat : n = Len(data)
  BY <1>1
<1>3. DOMAIN data = 1..n /\ \A i \in 1..n : data[i] \in Referring!Pairs
  BY <1>1, <1>2
<1>4. vs \in [1..n -> 0..MaxPoint]
  BY <1>1, <1>3, PairIs
<1>5. vs \in Seq(0..MaxPoint) /\ Len(vs) = n
  BY <1>4, ListIs
<1> HIDE DEF vs
<1>6. ASSUME NEW k \in 0..(n + 1)
      PROVE  LET top == Referring!TopK(vs, k)
             IN /\ Len(top) = IF k < n THEN k ELSE n
                /\ \A i \in DOMAIN top : i > 1 => top[i - 1] >= top[i]
                /\ \A v \in Referring!Range(vs) :
                     /\ Referring!Count(v, top) <= Referring!Count(v, vs)
                     /\ Referring!Count(v, top) < Referring!Count(v, vs)
                          => \A i \in DOMAIN top : v <= top[i]
  <2>1. PICK m \in 0..n : m = IF k < n THEN k ELSE n
    OBVIOUS
  <2>2. PICK top : top = Referring!TopK(vs, k)
    OBVIOUS
  <2>3. PICK p : IsTop(p, top, vs, n, m)
    BY <1>1, <1>4, <2>1, <2>2, TopIs
  <2>4. /\ Puts(p, n, vs, Referring!Descending)
        /\ top \in [1..m -> 0..MaxPoint] /\ Len(top) = m /\ DOMAIN top = 1..m
        /\ \A i \in 1..m : top[i] = vs[p[i]]
    BY <2>3 DEF IsTop
  <2>5. ASSUME NEW i \in 1..m, i > 1 PROVE top[i - 1] >= top[i]
    <3>1. i - 1 \in 1..m /\ i - 1 \in 1..n /\ i \in 1..n /\ i - 1 < i
      BY <2>5
    <3>2. <<vs[p[i - 1]], vs[p[i]]>> \in Referring!Descending
      BY <2>4, <3>1 DEF Puts
    <3>3. vs[p[i - 1]] >= vs[p[i]]
      BY <3>2 DEF Referring!Descending
    <3> QED
      BY <2>4, <3>1, <3>3
  <2>6. ASSUME NEW v \in Referring!Range(vs)
        PROVE  /\ Referring!Count(v, top) <= Referring!Count(v, vs)
               /\ Referring!Count(v, top) < Referring!Count(v, vs) => \A i \in 1..m : v <= top[i]
    <3>1. v \in 0..MaxPoint
      BY <1>4 DEF Referring!Range
    <3>2. /\ Referring!Count(v, top) = Cardinality(Places(v, top, m))
          /\ Referring!Count(v, vs) = Cardinality(Places(v, vs, n))
      BY <1>4, <2>4, ReferringCounts DEF Referring!Count, Places
    <3>3. TopHas(v, top, m, vs, n)
      BY <1>1, <1>4, <2>4, <3>1, TopCounts
    <3> QED
      BY <3>2, <3>3 DEF TopHas
  <2> QED
    BY <2>1, <2>2, <2>4, <2>5, <2>6
<1> QED
  BY <1>5, <1>6 DEF Referring!TopKIsLargest, vs

(* ReferenceIsExact: at every step of the merging loop nothing is gained   *)
(* or lost and what is merged is in order and apart; the k largest are     *)
(* the k largest.  For lists of any length, of numbers up to any bound.    *)
THEOREM ReferenceExact ==
  ASSUME MaxPoint \in Nat, MaxPairs \in Nat
  PROVE  XtaskSpec => []ReferenceIsExact
<1>1. XtaskInit => RefInv
  BY RefInitInv DEF XtaskInit
<1>2. RefInv /\ [XtaskNext]_xtaskVars => RefInv'
  <2> SUFFICES ASSUME RefInv, [XtaskNext]_xtaskVars PROVE RefInv'
    OBVIOUS
  <2>1. Referring!Merge \/ UNCHANGED referenceState
    BY DEF XtaskNext, xtaskVars, VerificationStep, CoverageStep, SearchStep, ReferenceStep
  <2>2. CASE UNCHANGED referenceState
    <3>1. data' = data /\ rest' = rest /\ out' = out
      BY <2>2 DEF referenceState
    <3>2. Referring!Cover(data)' = Referring!Cover(data)
      BY <3>1 DEF Referring!Cover
    <3>3. Referring!Cover(rest)' = Referring!Cover(rest)
      BY <3>1 DEF Referring!Cover
    <3>4. Referring!Cover(out)' = Referring!Cover(out)
      BY <3>1 DEF Referring!Cover
    <3>5. Referring!MergeIsExact' = Referring!MergeIsExact
      BY <3>1, <3>2, <3>3, <3>4 DEF Referring!MergeIsExact
    <3>6. RestInOrder' = RestInOrder
      BY <3>1 DEF RestInOrder
    <3>7. RefTyped' = RefTyped
      BY <3>1 DEF RefTyped
    <3> QED
      BY <3>5, <3>6, <3>7 DEF RefInv
  <2> QED
    BY <2>1, <2>2, MergeKeeps
<1>3. RefInv => ReferenceIsExact
  BY TopIsLargest DEF ReferenceIsExact, Referring!ReferenceIsExact, RefInv
<1> QED
  BY <1>1, <1>2, <1>3, PTL DEF XtaskSpec
=============================================================================
