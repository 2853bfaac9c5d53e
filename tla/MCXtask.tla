------------------------------- MODULE MCXtask -------------------------------
(***************************************************************************)
(* The repository's own tool, one command of it at a time: candidates are  *)
(* verified and measured, coverage is checked, algorithms are searched     *)
(* for.  `setting` says which one it is; the variables of the others stand *)
(* still.                                                                  *)
(***************************************************************************)
EXTENDS CandidateVerification, Sequences

CONSTANTS
  ca, cb, cc, cx,
  Manifests, MaxRuns,                     (* of CoverageRun                 *)
  Codes, Correct, Contracts, Splits, Evaluators, Outs,
  MaxAuthored,                            (* of CandidateSearch             *)
  MaxPoint, MaxPairs                      (* of SearchReference             *)

VARIABLES
  setting,
  manifest, outcome, running, runs, loaded, digest, results, torn, report,
  code, contract, authored, candidate, eval, evaluations, statuses, ranked,
  data, rest, out

coverageState ==
    <<manifest, outcome, running, runs, loaded, digest, results, torn, report>>
searchState ==
    <<code, contract, authored, candidate, eval, evaluations, statuses, ranked>>
referenceState == <<data, rest, out>>
xtaskVars ==
    <<setting, verificationVars, coverageState, searchState, referenceState>>

-----------------------------------------------------------------------------
Test(i, t) == [id |-> i, test |-> t]
Inv(i, r, cs) == [id |-> i, required |-> r, checks |-> cs]
Text(cs, is) == [wellFormed |-> TRUE, checks |-> cs, invariants |-> is]

(* Two manifests that are valid, and others that are not: an invariant     *)
(* without a check, a check of no invariant, an unknown one, a bad text.   *)
Whole == Text(<<Test("k", "t"), Test("l", "u")>>,
              <<Inv("i", TRUE, <<"k", "l">>), Inv("j", FALSE, << >>)>>)
Small == Text(<<Test("k", "u")>>, <<Inv("i", TRUE, <<"k">>)>>)
Bare == Text(<<Test("k", "t")>>, <<Inv("i", TRUE, <<"k">>), Inv("j", TRUE, << >>)>>)
Unused == Text(<<Test("k", "t"), Test("l", "u")>>, <<Inv("i", TRUE, <<"k">>)>>)
Unknown == Text(<<Test("k", "t")>>, <<Inv("i", TRUE, <<"m">>)>>)
MCManifests ==
    {Whole, Small, Bare, Unused, Unknown, [Small EXCEPT !.wellFormed = FALSE]}

(* The manifest is edited at any step. *)
Covering == INSTANCE CoverageRun WITH step <- running

(* Candidates that are right or wrong, two evaluators and two files. *)
Searching == INSTANCE CandidateSearch WITH MaxEdits <- MaxAuthored, edits <- authored

Referring == INSTANCE SearchReference

-----------------------------------------------------------------------------
Settings == {"verification", "coverage", "search", "reference"}

(* The search starts with some contract: they are alike. *)
XtaskInit ==
    /\ setting \in Settings
    /\ VerificationInit /\ (setting = "verification" \/ tree = ca)
    /\ Covering!CoverageInit
    /\ \/ setting = "coverage"
       \/ manifest = Small /\ outcome = [t \in Covering!Selectors |-> Covering!Passed]
    /\ Searching!SearchInit /\ contract = CHOOSE c \in Contracts : TRUE
    /\ Referring!ReferenceInit /\ (setting = "reference" \/ data = << >>)

Runs(s) == setting = s /\ UNCHANGED setting

VerificationStep ==
    /\ Runs("verification") /\ VerificationNext
    /\ UNCHANGED <<coverageState, searchState, referenceState>>
CoverageStep ==
    /\ Runs("coverage") /\ Covering!CoverageNext
    /\ UNCHANGED <<verificationVars, searchState, referenceState>>
SearchStep ==
    /\ Runs("search") /\ Searching!SearchNext
    /\ UNCHANGED <<verificationVars, coverageState, referenceState>>
ReferenceStep ==
    /\ Runs("reference") /\ Referring!Merge
    /\ UNCHANGED <<verificationVars, coverageState, searchState>>

XtaskNext ==
    VerificationStep \/ CoverageStep \/ SearchStep \/ ReferenceStep

XtaskSpec == XtaskInit /\ [][XtaskNext]_xtaskVars

-----------------------------------------------------------------------------
(* A coverage report is earned by what it lists, in the last run, and no   *)
(* edit of the manifest goes unnoticed but one between its two reads.      *)
ReportIsEvidence ==
    /\ [](setting = "coverage" => Covering!ReportIsEvidence)
    /\ Covering!WritesWhatIsThere

(* Only algorithms that are right advance, and no evaluation is replaced,  *)
(* whoever else evaluates into its file.                                   *)
OnlyRightAdvances ==
    /\ [](setting = "search" => Searching!OnlyRightAdvances)
    /\ Searching!EvaluationsKept

(* The reference algorithms compute what the contract says. *)
ReferenceIsExact == setting = "reference" => Referring!ReferenceIsExact

-----------------------------------------------------------------------------
(* What a document says and the code does not do (README, disagreements).  *)

(* Evidence binds the identity of the manifest: the report covers what the *)
(* manifest that it names requires.                                        *)
NamedIsCovered == setting = "coverage" => Covering!NamedIsCovered
=============================================================================
