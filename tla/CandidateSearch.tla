--------------------------- MODULE CandidateSearch ---------------------------
(***************************************************************************)
(* `xtask search`: candidate algorithms are registered as copies, built    *)
(* and run by evaluators, given a status by evidence and compared, while   *)
(* their authors go on editing the files and evaluators are ended.         *)
(*                                                                         *)
(* The digest of a file stands for it.  Files of evidence are created      *)
(* anew, or not at all.                                                    *)
(***************************************************************************)
EXTENDS Naturals, FiniteSets

CONSTANTS
  Codes, Correct,      (* candidate programs, and those that are right      *)
  Contracts, Splits,
  Evaluators, Outs,    (* evaluating processes and the files they are given *)
  None, MaxEdits       (* bound                                             *)

VARIABLES
  code,        (* candidate.rs in the candidate's directory, or None        *)
  contract,    (* verification/search-contract.md                           *)
  edits,
  candidate,   (* candidate.json: [source, contract], or None               *)
  eval,        (* per evaluator: [at, out, split, source, contract, work]   *)
  evaluations, (* the evaluation in each file, or None                      *)
  statuses,    (* the records of status: [status, source, contract]         *)
  ranked       (* the evaluations that were compared last                   *)

files == <<code, contract, edits>>
searchVars == <<files, candidate, eval, evaluations, statuses, ranked>>

Idle == [at |-> "idle", out |-> None, split |-> None, source |-> None,
         contract |-> None, work |-> None]

SearchInit ==
    /\ code = None /\ contract \in Contracts /\ edits = 0
    /\ candidate = None
    /\ eval = [e \in Evaluators |-> Idle]
    /\ evaluations = [o \in Outs |-> None]
    /\ statuses = {} /\ ranked = {}

(* The author edits the copy, or the contract is edited. *)
Edit ==
    /\ edits < MaxEdits /\ edits' = edits + 1
    /\ \/ code # None /\ code' \in Codes \ {code} /\ UNCHANGED contract
       \/ contract' \in Contracts \ {contract} /\ UNCHANGED code
    /\ UNCHANGED <<candidate, eval, evaluations, statuses, ranked>>

-----------------------------------------------------------------------------
(* search register: the source is copied, and the copy named. *)

Copy ==
    /\ code = None
    /\ code' \in Codes
    /\ UNCHANGED <<contract, edits, candidate, eval, evaluations, statuses, ranked>>

Register ==
    /\ code # None /\ candidate = None
    /\ candidate' = [source |-> code, contract |-> contract]
    /\ UNCHANGED <<files, eval, evaluations, statuses, ranked>>

-----------------------------------------------------------------------------
(* search evaluate *)

(* Neither the copy nor the contract has changed since they were           *)
(* registered, and no evaluation is in the file.                           *)
Admit(e) ==
    /\ eval[e].at = "idle" /\ candidate # None
    /\ code = candidate.source /\ contract = candidate.contract
    /\ \E o \in Outs, s \in Splits :
          /\ evaluations[o] = None
          /\ eval' = [eval EXCEPT ![e] = [Idle EXCEPT
                !.at = "copy", !.out = o, !.split = s,
                !.source = candidate.source, !.contract = candidate.contract]]
    /\ UNCHANGED <<files, candidate, evaluations, statuses, ranked>>

Materialize(e) ==
    /\ eval[e].at = "copy"
    /\ eval' = [eval EXCEPT ![e].at = "build", ![e].work = code]
    /\ UNCHANGED <<files, candidate, evaluations, statuses, ranked>>

Result(e, status) ==
    [source |-> eval[e].source, contract |-> eval[e].contract,
     split |-> eval[e].split, status |-> status]

(* Faulty variant: what was copied is not looked at again. *)
VerdictUnchecked(e) == IF eval[e].work \in Correct THEN {"tested", "failed"} ELSE {"failed"}

(* What was copied must be what was registered.  Then it is built, and run *)
(* on every case against the reference: any of that may fail.              *)
Verdict(e) ==
    IF eval[e].work = eval[e].source /\ eval[e].work \in Correct
    THEN {"tested", "failed"} ELSE {"failed"}

Run(e) ==
    /\ eval[e].at = "build"
    /\ \E v \in Verdict(e) :
          evaluations' = [evaluations EXCEPT ![eval[e].out] = IF @ = None THEN Result(e, v) ELSE @]
    /\ eval' = [eval EXCEPT ![e] = Idle]
    /\ UNCHANGED <<files, candidate, statuses, ranked>>

End(e) ==
    /\ eval[e].at # "idle"
    /\ eval' = [eval EXCEPT ![e] = Idle]
    /\ UNCHANGED <<files, candidate, evaluations, statuses, ranked>>

-----------------------------------------------------------------------------
(* search status, by the evidence of one evaluation *)

Identifies(r) ==
    /\ candidate.source = code /\ candidate.source = r.source
    /\ candidate.contract = r.contract /\ candidate.contract = contract

Status ==
    /\ candidate # None
    /\ \E o \in Outs, s \in {"evaluated", "rejected", "retained", "selected"} :
          /\ evaluations[o] # None
          /\ Identifies(evaluations[o])
          /\ s \in {"retained", "selected"} => evaluations[o].status = "tested"
          /\ statuses' = statuses \union
                {[status |-> s, source |-> candidate.source, contract |-> candidate.contract]}
    /\ UNCHANGED <<files, candidate, eval, evaluations, ranked>>

(* Another candidate is registered in a directory of its own: the          *)
(* evaluations and statuses of the earlier one stay.                       *)
NextCandidate ==
    /\ candidate # None /\ eval = [e \in Evaluators |-> Idle]
    /\ code' = None /\ candidate' = None
    /\ UNCHANGED <<contract, edits, eval, evaluations, statuses, ranked>>

(* search compare: of one contract and one split, and all of them correct. *)
Compare ==
    /\ \E os \in SUBSET Outs :
          /\ os # {}
          /\ \A o \in os : evaluations[o] # None /\ evaluations[o].status = "tested"
          /\ \A o, q \in os : /\ evaluations[o].contract = evaluations[q].contract
                              /\ evaluations[o].split = evaluations[q].split
          /\ ranked' = {evaluations[o] : o \in os}
    /\ UNCHANGED <<files, candidate, eval, evaluations, statuses>>

-----------------------------------------------------------------------------
SearchNext ==
    \/ Edit \/ Copy \/ Register \/ NextCandidate \/ Status \/ Compare
    \/ \E e \in Evaluators : Admit(e) \/ Materialize(e) \/ Run(e) \/ End(e)

SearchSpec == SearchInit /\ [][SearchNext]_searchVars

-----------------------------------------------------------------------------
(* A source is only told to be tested when that very source was built and  *)
(* is right, whenever the copy was edited.                                 *)
TestedIsRight ==
    \A o \in Outs : (evaluations[o] # None /\ evaluations[o].status = "tested")
                    => evaluations[o].source \in Correct

(* Only what is right is retained or selected, and only under the contract *)
(* it was evaluated under.                                                 *)
ChosenAreRight ==
    \A s \in statuses : s.status \in {"retained", "selected"} =>
        /\ s.source \in Correct
        /\ \E o \in Outs : evaluations[o] # None
              /\ evaluations[o].source = s.source /\ evaluations[o].contract = s.contract

(* Only what is right is ranked, with its equals. *)
RankedAreRight ==
    /\ \A r \in ranked : r.source \in Correct
    /\ Cardinality({<<r.contract, r.split>> : r \in ranked}) <= 1

(* An evaluation stays what it is, failed ones too: whoever else is        *)
(* evaluating into the same file.                                          *)
EvaluationsKept ==
    [][\A o \in Outs : evaluations[o] # None => evaluations'[o] = evaluations[o]]_searchVars

(* Only what is right is tested, chosen or ranked, under one contract.     *)
OnlyRightAdvances == TestedIsRight /\ ChosenAreRight /\ RankedAreRight
=============================================================================
