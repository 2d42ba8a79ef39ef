SPECIFICATION FairSpec
CONSTANTS
  N = 2
  Worlds <- Twins
  Durable = {1, 2}
  IdleDays = 0
  Retention = 1
  PageSize = 2
  BatchSize = 2
  TopK = 2
  LastDay = 1
  MaxRequests = 0
  DryRuns = {FALSE}
PROPERTY SlippedRepaired
CHECK_DEADLOCK FALSE
