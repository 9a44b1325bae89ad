SPECIFICATION Spec
CONSTANTS
  ip1 = ip1
  ip2 = ip2
  Ips <- MCOneIp
  ShardOf <- MCOneShardOf
  ShardsCount = 2
  Unit = 2
  GlCapacity = 2
  GlRate = 1
  ShCapacity = 3
  ShRates = {1}
  Minutes5 = 3
  MaxTime = 7
  None = None
INVARIANTS
  BurstBound
CHECK_DEADLOCK FALSE
