SPECIFICATION Spec
CONSTANTS
  Key = {k1, k2}
  Pinger = {p1, p2}
  Delay = 2
  MaxWait = 3
  Period = 1
  Lag = 1
  MaxTime = 12
  None = None
INVARIANTS
  BoundedWait
PROPERTY NoEarlyFire
CHECK_DEADLOCK FALSE
