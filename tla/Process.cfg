SPECIFICATION FairSpec
CONSTANTS
  s1 = s1
  s2 = s2
  r1 = r1
  r2 = r2
  Shards <- MCShards
  Records <- MCRecords
  Requests <- MCRequests
INVARIANTS
  TypeOK
  ReadyComplete
  MetricsExact
  ShutdownDrains
PROPERTIES
  SignalEndsProcess
CHECK_DEADLOCK FALSE
