SPECIFICATION FairSpec
CONSTANTS
  N = 3
  Worlds <- Chain
  Durable = {2}
  IdleDays = 0
  Retention = 1
  PageSize = 2
  BatchSize = 2
  TopK = 3
  LastDay = 3
  MaxRequests = 1
  DryRuns = {TRUE, FALSE}
INVARIANTS TypeOK CursorCovers
PROPERTIES PurgesOnlyExpired KeepsSuccessor RunEnds
CHECK_DEADLOCK FALSE
