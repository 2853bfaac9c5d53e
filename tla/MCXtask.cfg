SPECIFICATION XtaskSpec
CONSTANTS
  ca = ca
  cb = cb
  cc = cc
  cx = cx
  Commits = {ca, cb, cc, cx}
  Conflicted = {cx}
  None = None
  Reverts = FALSE
  MaxAttempts = 2
  MaxEdits = 3
  Manifests <- MCManifests
  MaxRuns = 2
  Codes = {"good", "bad"}
  Correct = {"good"}
  Contracts = {"old", "new"}
  Splits = {"heldout", "dev"}
  Evaluators = {"e1", "e2"}
  Outs = {"o1", "o2"}
  MaxAuthored = 2
  MaxPoint = 3
  MaxPairs = 3
INVARIANT VerificationIsEvidence
INVARIANT ReferenceIsExact
PROPERTY OnlyRightAdvances
PROPERTY ReportIsEvidence
CHECK_DEADLOCK FALSE
