SPECIFICATION RunSpec
CONSTANTS
  q1 = q1  q2 = q2  a1 = a1  a2 = a2
  None = None
  Protocols = {q1, q2}
  Agents = {a1}
  StatusesTried = {"draft", "active"}
  MaxVersion = 3
  MaxStore = 0
SYMMETRY Symmetry
INVARIANT ReportCanBeRegenerated
