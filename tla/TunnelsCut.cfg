SPECIFICATION Spec
CONSTANTS
  s1 = s1
  s2 = s2
  Sessions <- MCSessions
INVARIANTS
  TransfersComplete
CHECK_DEADLOCK FALSE
