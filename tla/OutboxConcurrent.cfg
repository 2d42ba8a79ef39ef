SPECIFICATION Spec
CONSTANTS
  m1 = m1
  m2 = m2
  s1 = s1
  s2 = s2
  c1 = c1
  Memories = {m1}
  Servers = {s1, s2}
  Clis = {c1}
  BatchSize = 2
  MaxRetries = 1
  PendingUnique = TRUE
  Exclusive = FALSE
  Crashes = TRUE
  FaultyCalls = {"fetch", "read", "merge", "completeSync", "erase", "completeDelete", "reset"}
SYMMETRY Symmetry
INVARIANTS TypeOK NoLostMemory
PROPERTIES MirrorSpec
