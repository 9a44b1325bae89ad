SPECIFICATION ServingSpec
CONSTANTS
  k1 = k1
  k2 = k2
  v1 = v1
  v2 = v2
  Keys <- MCKeys
  Values <- MCValues
  RecSize <- MCRecSize
  MaxSize = 2
  Expirations = {0}
  MaxTime = 1
  FailBytes = {0}
  MaxEnd = 12
  None = None
  Garbage = Garbage
INVARIANTS
  TypeOK
  IndexSound
  NoResurrection
  SnapshotFrozen
  CompactionOwned
PROPERTIES
  RefinesCache
SYMMETRY MCKeySymmetry
CHECK_DEADLOCK FALSE
