SPECIFICATION Spec
CONSTANTS
  x1 = x1
  x2 = x2
  y = y
  z = z
  x = x
  s1 = s1
  s2 = s2
  None = None
  Chunks = {x1, x2, y}
  Old = {z}
  Nodeless = {}
  Content <- MCContent
  Home <- MCHome
  Referring = {x1}
  ForeignKeys = TRUE
  Faulty = {}
  Crashes = FALSE
INVARIANTS Accepted
CHECK_DEADLOCK FALSE
