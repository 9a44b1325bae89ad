SPECIFICATION FairSpec
CONSTANTS
  s1 = s1
  s2 = s2
  Sessions <- MCSessions
INVARIANTS
  TypeOK
  AccountsExact
  NoLeakedSocket
  ShutdownCompletes
  PanicIsLate
PROPERTIES
  BothEnd
  FoundEnds
CHECK_DEADLOCK FALSE
