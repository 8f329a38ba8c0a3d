SPECIFICATION Spec
CONSTANTS
  t1 = t1
  t2 = t2
  t3 = t3
  Timers <- MCTimers
  None = None
  R = 4
  N = 2
  Births = {0}
  Offsets = {1, 4}
  MaxOps = 3
  MaxDelay = 1
  MaxSleep = 10
  Horizon = 10
SYMMETRY Symmetry
INVARIANT
  WakesForTimer
