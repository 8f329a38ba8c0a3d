SPECIFICATION Spec
CONSTANTS
  t1 = t1
  t2 = t2
  t3 = t3
  Timers <- MCTimers
  None = None
  R = 4
  N = 2
  Births = {60}
  Offsets = {0, 4}
  MaxOps = 4
  MaxDelay = 0
  MaxSleep = 6
  Horizon = 5
SYMMETRY Symmetry
INVARIANTS
  OnTime
  AllDueFired
  Placed
  SleepBound
