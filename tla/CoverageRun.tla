----------------------------- MODULE CoverageRun -----------------------------
(***************************************************************************)
(* `xtask coverage check`: the manifest of required invariants and of the  *)
(* tests that check them is validated, each test is run by its exact name, *)
(* and a report says which invariants were tested under which manifest.    *)
(* The file is edited at any step.                                         *)
(*                                                                         *)
(* The digest of a manifest stands for it.  Identifiers and texts are well *)
(* formed or not as a whole (wellFormed).                                  *)
(***************************************************************************)
EXTENDS Naturals, FiniteSets, Sequences, SequencesExt, Functions

CONSTANTS
  Manifests,   (* [wellFormed, checks, invariants] the file may hold        *)
  None,
  MaxRuns      (* bound                                                     *)

(* What cargo makes of a test that is selected by its exact name: whether  *)
(* it succeeds, how many lines say that this test is ok, and the results   *)
(* it prints, as numbers of passed, failed and ignored tests.              *)
Output(success, ok, result) == [success |-> success, ok |-> ok, results |-> <<result>>]
Passed == Output(TRUE, 1, <<1, 0, 0>>)
Failed == Output(FALSE, 0, <<0, 1, 0>>)
Ignored == Output(TRUE, 0, <<0, 0, 1>>)
Absent == Output(TRUE, 0, <<0, 0, 0>>)
Several == Output(TRUE, 1, <<2, 0, 0>>)
Outcomes == {Passed, Failed, Ignored, Absent, Several}
Selectors == UNION {{m.checks[i].test : i \in DOMAIN m.checks} : m \in Manifests}

VARIABLES
  manifest,  (* verification/coverage.toml                                  *)
  outcome,   (* what becomes of each test                                   *)
  step, runs,
  loaded, digest,   (* the manifest that is worked through, and its digest  *)
  results,          (* the checks that were tested                          *)
  torn,             (* the file was edited between the run's two reads      *)
  report     (* .local/coverage.json: [digest, invariants, results, run], or None *)

running == <<loaded, digest, results, torn>>
coverageVars == <<manifest, outcome, step, runs, running, report>>

CoverageInit ==
    /\ manifest \in Manifests
    /\ outcome \in [Selectors -> Outcomes]
    /\ step = "idle" /\ runs = 0
    /\ loaded = None /\ digest = None /\ results = {} /\ torn = FALSE
    /\ report = None

Edit ==
    /\ manifest' \in Manifests \ {manifest}
    /\ torn' = (torn \/ step = "digest")
    /\ UNCHANGED <<outcome, step, runs, loaded, digest, results, report>>

-----------------------------------------------------------------------------
Ids(s) == {s[i].id : i \in DOMAIN s}
Distinct(s) == Cardinality(Ids(s)) = Len(s)
Names(i) == {i.checks[j] : j \in DOMAIN i.checks}

(* Manifest::validate *)
Valid(m) ==
    /\ m.wellFormed /\ Len(m.invariants) \in 1..128 /\ Len(m.checks) \in 1..128
    /\ Distinct(m.checks) /\ Distinct(m.invariants)
    /\ \A i, j \in DOMAIN m.checks : i # j => m.checks[i].test # m.checks[j].test
    /\ \A i \in DOMAIN m.invariants :
           /\ m.invariants[i].required => m.invariants[i].checks # << >>
           /\ Cardinality(Names(m.invariants[i])) = Len(m.invariants[i].checks)
           /\ Names(m.invariants[i]) \subseteq Ids(m.checks)
    /\ UNION {Names(m.invariants[i]) : i \in DOMAIN m.invariants} = Ids(m.checks)

(* passed_exact_test *)
PassedExactly(output) ==
    /\ output.ok = 1
    /\ Len(output.results) = 1 /\ output.results[1] = <<1, 0, 0>>

-----------------------------------------------------------------------------
(* coverage::run *)

Start ==
    /\ step = "idle" /\ runs < MaxRuns
    /\ step' = "load" /\ runs' = runs + 1 /\ torn' = FALSE
    /\ report' = None
    /\ UNCHANGED <<manifest, outcome, loaded, digest, results>>

Load ==
    /\ step = "load"
    /\ step' = IF Valid(manifest) THEN "digest" ELSE "idle"
    /\ loaded' = manifest
    /\ UNCHANGED <<manifest, outcome, runs, digest, results, torn, report>>

Digest ==
    /\ step = "digest" /\ step' = "check"
    /\ digest' = manifest /\ results' = {}
    /\ UNCHANGED <<manifest, outcome, runs, loaded, torn, report>>

(* The next check in the manifest's order; the first that is not passed    *)
(* ends the run.                                                           *)
Check ==
    /\ step = "check" /\ Cardinality(results) < Len(loaded.checks)
    /\ LET c == loaded.checks[Cardinality(results) + 1]
       IN IF outcome[c.test].success /\ PassedExactly(outcome[c.test])
          THEN results' = results \union {c} /\ UNCHANGED step
          ELSE step' = "idle" /\ UNCHANGED results
    /\ UNCHANGED <<manifest, outcome, runs, loaded, digest, torn, report>>

Reported ==
    [digest |-> digest, invariants |-> loaded.invariants, results |-> results, run |-> runs]

(* Faulty variant: the digest is not compared at the end. *)
WriteUnread ==
    /\ step = "check" /\ Cardinality(results) = Len(loaded.checks)
    /\ step' = "idle"
    /\ report' = Reported
    /\ UNCHANGED <<manifest, outcome, runs, running>>

(* The file is read for the third time, and the report written. *)
Write ==
    /\ step = "check" /\ Cardinality(results) = Len(loaded.checks)
    /\ step' = "idle"
    /\ report' = IF manifest = digest THEN Reported ELSE report
    /\ UNCHANGED <<manifest, outcome, runs, running>>

(* The program is ended, or a call of it fails. *)
Interrupt ==
    /\ step # "idle" /\ step' = "idle"
    /\ UNCHANGED <<manifest, outcome, runs, running, report>>

CoverageNext == Edit \/ Start \/ Load \/ Digest \/ Check \/ Write \/ Interrupt

CoverageSpec == CoverageInit /\ [][CoverageNext]_coverageVars

-----------------------------------------------------------------------------
(* Each of these invariants that is required has a check, and all of its   *)
(* checks are in the report and passed, by their exact names: not ignored, *)
(* not absent, not as one of several.                                      *)
Covered(invariants) ==
    \A i \in DOMAIN invariants :
        LET inv == invariants[i]
            done == {c \in report.results : c.id \in Names(inv)}
        IN /\ inv.required => done # {}
           /\ {c.id : c \in done} = Names(inv)
           /\ \A c \in done : outcome[c.test] = Passed

(* A report covers the invariants it lists.  These are those of the        *)
(* manifest it names, unless that one came between the two reads.          *)
ReportCovers ==
    report # None =>
        Covered(report.invariants) /\ (~torn => Covered(report.digest.invariants))

(* A report is that of the last run: a run that fails or is ended leaves   *)
(* none.                                                                   *)
ReportIsTheLast == report # None => report.run = runs

(* The report is of the last run, and of all checks of what it lists.      *)
ReportIsEvidence == ReportCovers /\ ReportIsTheLast

(* A report that is written covers what is in the file then: whatever was  *)
(* edited since the manifest was loaded is put back or noticed, unless it  *)
(* came between the two reads.                                             *)
WritesWhatIsThere ==
    [][report' # report /\ report' # None =>
         /\ report'.digest = manifest'
         /\ ~torn' => Covered(manifest.invariants)']_coverageVars

(* A report covers what the manifest that it names requires. *)
NamedIsCovered == report # None => Covered(report.digest.invariants)
=============================================================================
