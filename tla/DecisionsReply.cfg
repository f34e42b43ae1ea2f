SPECIFICATION Spec
CONSTANTS
  p1 = p1  p2 = p2  t1 = t1  t2 = t2  g1 = g1  g2 = g2  r1 = r1  r2 = r2
  l1 = l1  l2 = l2  c1 = c1  c2 = c2  e1 = e1  e2 = e2
  None = None
  NoReview = NoReview
  NoText = NoText
  Callers = {p1}
  Requests = {r1}
  Denied = {}
  Targets = {t1}
  ChoiceFields = {g1}
  TagFields = {g2}
  Labels = {l1, l2}
  Threshold = 75
  NoChoice = NoChoice
  Given <- ThreeAnswers
  MaxClassifications = 2
  Consoles = {c1}
  Names = {e1, e2}
  Texts <- ThreeTexts
  FirstText <- LocalText
  MaxEdits = 1
  MaxHandoffs = 2
  MaxCalls = 4
CONSTRAINT OnePart
INVARIANT RepliesAreCurrent
CHECK_DEADLOCK FALSE
