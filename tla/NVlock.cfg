CONSTANTS
  Proc = {p1, p2, p3}
  LockStackSize = 3
  MaxSize = 2
SPECIFICATION FairSpec
INVARIANTS
  TypeOK
  LockedMeansHeld
  MappingCurrent
PROPERTIES
  StableWhileLocked
  ImplementsSharedFile
  WaitersServed
