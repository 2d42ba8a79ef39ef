SPECIFICATION Spec
CONSTANTS
  m1 = m1
  m2 = m2
  s1 = s1
  s2 = s2
  c1 = c1
  Memories = {m1, m2}
  Servers = {s1}
  Clis = {c1}
  BatchSize = 2
  MaxRetries = 1
  PendingUnique = FALSE
  Exclusive = TRUE
  Crashes = TRUE
  FaultyCalls = {"fetch", "read", "merge", "completeSync", "erase", "completeDelete", "reset"}
SYMMETRY Symmetry
INVARIANTS DeletionCovered Converged
PROPERTIES RetriesNeverRewind
