SPECIFICATION Spec
CONSTANTS
  x1 = x1
  x2 = x2
  y = y
  z = z
  x = x
  s1 = s1
  s2 = s2
  None = None
  Chunks = {x1, x2, y}
  Old = {z}
  Nodeless = {}
  Content <- MCContent
  Home <- MCHome
  Referring = {}
  ForeignKeys = TRUE
  Faulty = {"search", "archive", "save", "node", "recall", "relate", "edges", "undoNode", "undoMemory", "restore"}
  Crashes = TRUE
INVARIANTS TypeOK NeverEmptied DoubledByRollbackOnly
CHECK_DEADLOCK FALSE
