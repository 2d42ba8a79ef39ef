SPECIFICATION FairSpec
CONSTANTS
  Configs <- Some
  Saves = {"s"}
  Flushes = {"f1", "f2"}
  Keys = {"k1", "k2"}
  Chunks <- Texts
  Cleanups = {"check", "run"}
  Check = "check"
  MaxJobs = 1
  Slots = 1
  None = None
  Clients = {"a"}
  Capacity = 2
  Copies = 1
  MaxRecords = 3
  MaxWarnings = 1
INVARIANTS TypeOK NoLeak SingleFlight FlushAdmission RestAsked StreamInOrder
PROPERTIES CancelIsolated CallsSettle ShutdownEnds BroadcastEnds
CHECK_DEADLOCK FALSE
