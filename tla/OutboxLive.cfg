SPECIFICATION FairSpec
CONSTANTS
  m1 = m1
  m2 = m2
  s1 = s1
  s2 = s2
  c1 = c1
  Memories = {m1}
  Servers = {s1}
  Clis = {}
  BatchSize = 1
  MaxRetries = 3
  PendingUnique = FALSE
  Exclusive = TRUE
  Crashes = FALSE
  FaultyCalls = {"read", "merge", "completeSync", "erase", "completeDelete"}
PROPERTIES EventuallySettled
