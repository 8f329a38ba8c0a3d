SPECIFICATION Spec
CONSTANTS
  f1 = f1
  f2 = f2
  Fds = {f1}
  WakeupFd = wakeup
  ListenFd = listen
  MaxPending = 1
  MaxHolds = 0
  MaxSends = 2
  MaxReady = 2
INVARIANTS
  OutputWatched
  SendOrder
PROPERTIES
  ClosedIsFreed
  QuitStops
