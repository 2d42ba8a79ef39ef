SPECIFICATION Spec
CONSTANTS
  N = 1
  Worlds <- Single
  Durable = {1}
  IdleDays = 0
  Retention = 0
  PageSize = 2
  BatchSize = 2
  TopK = 2
  LastDay = 2
  MaxRequests = 1
  DryRuns = {FALSE}
PROPERTY PurgesArchived
CHECK_DEADLOCK FALSE
