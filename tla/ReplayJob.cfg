SPECIFICATION Spec
CONSTANTS
  w1 = w1  w2 = w2  g1 = g1
  long = long  longer = longer  other = other
  i1 = i1  i2 = i2  i3 = i3  i4 = i4
  None = None
  Targets = {1, 2}
  Workers = {w1, w2}
  Registrars = {g1}
  Texts = {long, longer, other}
  Inputs = {i1, i2, i3, i4}
  Clip <- Clips
  FirstEvidence <- Evidence
  Acquirable = {1}
  Dispositions = {"review_required", "failed"}
  DefaultProvider = "laya"
  Overrides = {None, "jev"}
  EditsTried <- EditsAndRemoval
  MaxEdits = 1
  MaxCalls = 1
  MaxRuns = 2
SYMMETRY Symmetry
INVARIANTS AttemptsFormAChain CompletedIsBacked EveryAttemptIsCounted
PROPERTIES CompletedForGood
CHECK_DEADLOCK FALSE
