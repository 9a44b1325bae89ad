SPECIFICATION RestartSpec
CONSTANTS
  k1 = k1
  k2 = k2
  v1 = v1
  v2 = v2
  Keys <- MCKeys
  Values <- MCValues
  RecSize <- MCRecSize
  MaxSize = 4
  Expirations = {0}
  MaxTime = 1
  FailBytes = {0, 1}
  MaxEnd = 5
  None = None
  Garbage = Garbage
  Names <- MCNames
  ReloadFor = 1
  MaxStarts = 3
  MaxCalls = 2
INVARIANTS
  RestartTypeOK
  LeakNeedsTornWrite
  HealedByRestart
  LifetimeBound
PROPERTIES
  FailedWriteInvisible
  RestoresItsFile
  TornTailContained
SYMMETRY MCKeySymmetry
CHECK_DEADLOCK FALSE
