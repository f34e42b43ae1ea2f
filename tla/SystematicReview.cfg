SPECIFICATION ReviewSpec
CONSTANTS
  c1 = c1  c2 = c2  s1 = s1  q1 = q1  r1 = r1  r2 = r2  p1 = p1  p2 = p2
  src1 = src1  src2 = src2  f1 = f1  v1 = v1  v2 = v2
  None = None
  Candidates = {c1, c2}
  Reviewers = {r1, r2}
  Group <- TwoGroups
  Sources = {src1, src2}
  Callers = {p1, p2}
  Searches = {s1}
  Queries = {q1}
  Hits <- TwoHits
  MaxResults = 2
  Fields = {f1}
  Values = {v1, v2}
  OutcomesTried <- AllOutcomes
  TitleSources = {None}
  MaxMinted <- MostRecords
  MaxExtracts = 3
  MaxRecords = 7
  AppraisalRequired = TRUE
SYMMETRY Symmetry
CONSTRAINT KeysAreUnique
INVARIANTS OneCanonicalPerKey DuplicatesPointAtCanonical ResolutionsKeepInputs
  IncludedStudiesRestOnOneSource FlowBalances
PROPERTY SettledValueStays
CHECK_DEADLOCK FALSE
