SPECIFICATION RunSpec
CONSTANTS
  q1 = q1  q2 = q2  a1 = a1  a2 = a2
  None = None
  Protocols = {q1, q2}
  Agents = {a1, a2}
  StatusesTried = {"draft", "active", "paused", "completed"}
  MaxVersion = 2
  MaxStore = 1
SYMMETRY Symmetry
INVARIANTS RunInv BindingIsFrozen RecordsUnderActiveProtocols CompletedIsAudited
PROPERTY BindingFixedAfterDraft
