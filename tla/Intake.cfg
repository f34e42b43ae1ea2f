SPECIFICATION Spec
CONSTANTS
  p1 = p1  p2 = p2  f1 = f1  f2 = f2  u1 = u1  c1 = c1  c2 = c2  k1 = k1  k2 = k2
  None = None
  Callers = {p1, p2}
  Files = {f1, f2}
  Urls = {u1}
  Contents = {c1, c2}
  RawKinds = {k1, k2}
  Statuses = {"new", "processed"}
  Raw <- TwoFiles
  Batches <- TwoBatches
  MaxEvidence = 2
  MaxCalls = 3
SYMMETRY Symmetry
INVARIANTS EvidenceRests OneSourcePerContent RowsAreBacked QueueMirrorsIntake
CHECK_DEADLOCK FALSE
