SPECIFICATION FairSpec
CONSTANTS
  c1 = c1
  c2 = c2
  k1 = k1
  Clients <- MCClients
  Keys <- MCKeys
  ShardOf <- MCShardOf
  QtShards = 2
  TimeDel = 1
  MaxTime = 2
  CacheControls <- MCCacheControls
  MaxVersion = 1
  IntMax = 7
  Second = 2
  None = None
  Failed = Failed
INVARIANTS
  TypeOK
  NoGoingBack
PROPERTIES
  HeaderHonoured
  RefinesCache
  EveryRequestAnswered
  ExpiredSwept
CHECK_DEADLOCK FALSE
