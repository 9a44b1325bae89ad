SPECIFICATION FairSpec
CONSTANTS
  k1 = k1
  k2 = k2
  v1 = v1
  v2 = v2
  Keys <- MCOneKey
  Values <- MCOneValue
  RecSize <- MCPairSize
  MaxSize = 2
  Expirations = {0}
  MaxTime = 1
  FailBytes = {0, 1}
  MaxEnd = 3
  None = None
  Garbage = Garbage
PROPERTIES
  CompactionFinishes
  CloseReturns
  ExpiredDeleted
CHECK_DEADLOCK FALSE
