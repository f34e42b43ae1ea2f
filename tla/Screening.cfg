SPECIFICATION ScreeningSpec
CONSTANTS
  r1 = r1  r2 = r2  r3 = r3  p1 = p1  p2 = p2  c1 = c1  s1 = s1
  None = None
  Candidates = {c1}
  Reviewers = {r1, r2, r3}
  Group <- Groups
  Sources = {s1}
  Callers = {p1, p2}
  OutcomesTried <- TwoOutcomes
  TitleSources = {None}
  MaxMinted <- MostRecords
SYMMETRY Symmetry
INVARIANTS AdjudicationsRestOnDisagreement FlowAgreesWithFinal
  OneDecisionPerReviewer FullTextOnlyWhenIncluded
PROPERTY SettledStaysSettled
CHECK_DEADLOCK FALSE
