SPECIFICATION Spec
CONSTANTS
  Memories <- Four
  Changing = {"m3"}
  ByVector <- Vectors
  ByKeyword <- Keywords
  Project <- Homes
  Importance <- Values
  Recency <- Ages
  Tokens <- Sizes
  Graphs <- AllGraphs
  Requests <- SomeRequests
  MaxLogical = 2
  MaxHops = 3
  Unit = 7624512
  None = None
INVARIANT ArchivedExcluded
CHECK_DEADLOCK FALSE
