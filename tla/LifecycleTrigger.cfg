SPECIFICATION FairSpec
CONSTANTS
  p1 = p1
  p2 = p2
  Servers = {p1}
  Threshold = 2
  SharedFile = FALSE
  Pausing = {}
  Faults = FALSE
  Stops = FALSE
  MaxSaves = 4
PROPERTIES ThresholdCleans
