SPECIFICATION Spec
CONSTANTS
  p1 = p1
  p2 = p2
  Servers = {p1, p2}
  Threshold = 2
  SharedFile = FALSE
  Pausing = {p2}
  Faults = TRUE
  Stops = TRUE
  MaxSaves = 3
INVARIANTS TypeOK LeaseHeld NeverOvercounts
PROPERTIES ProgressNeverRewinds
