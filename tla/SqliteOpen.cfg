SPECIFICATION Spec
CONSTANTS
  Procs = {"p", "q"}
  Tries = 1
  None = None
  Requests = {"r1", "r2", "r3", "r4"}
  At <- Where
  Kind <- What
  Dim <- Differ
  MaxConcurrent = 1
  MaxQueued = 1
INVARIANTS TypeOK SchemaSound GateExact
PROPERTIES UpdateAgrees
