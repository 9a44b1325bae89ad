SPECIFICATION FileProxySpec
CONSTANTS
  c1 = c1
  c2 = c2
  k1 = k1
  k2 = k2
  Clients <- MCClients
  Keys <- MCKeys
  Values <- MCResponses
  RecSize <- MCRecSize
  MaxSize = 6
  Expirations = {}
  MaxTime = 1
  FailBytes = {}
  MaxEnd = 2
  CacheControls <- MCCacheControls
  MaxVersion = 1
  IntMax = 7
  Second = 1
  TimeDel = 0
  ReloadFor = 0
  None = None
  Garbage = Garbage
  Failed = Failed
INVARIANTS
  SizeWithinLimit
SYMMETRY MCSymmetry
CHECK_DEADLOCK FALSE
