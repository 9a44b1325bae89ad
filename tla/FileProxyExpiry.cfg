SPECIFICATION FileProxySpec
CONSTANTS
  c1 = c1
  c2 = c2
  k1 = k1
  k2 = k2
  Clients <- MCClients
  Keys <- MCKeys
  Values <- MCAgingResponses
  RecSize <- MCAgingRecSize
  MaxSize = 6
  Expirations = {}
  MaxTime = 2
  FailBytes = {}
  MaxEnd = 2
  CacheControls <- MCMaxAges
  MaxVersion = 1
  IntMax = 7
  Second = 1
  TimeDel = 0
  ReloadFor = 1
  None = None
  Garbage = Garbage
  Failed = Failed
INVARIANTS
  ExpiredNotServed
SYMMETRY MCSymmetry
CHECK_DEADLOCK FALSE
