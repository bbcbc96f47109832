CONSTANTS
  Proc = {p1, p2}
  LockStackSize = 2
  MaxSize = 2
SPECIFICATION SignalSpec
INVARIANT LockedMeansHeld
