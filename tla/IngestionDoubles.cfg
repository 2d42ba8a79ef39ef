SPECIFICATION Spec
CONSTANTS
  x1 = x1
  x2 = x2
  y = y
  z = z
  x = x
  s1 = s1
  s2 = s1
  None = None
  Chunks = {x1, x2, y}
  Old = {z}
  Nodeless = {}
  Content <- MCContent
  Home <- MCHome
  Referring = {}
  ForeignKeys = TRUE
  Faulty = {"node"}
  Crashes = FALSE
INVARIANTS NoDoubles
CHECK_DEADLOCK FALSE
