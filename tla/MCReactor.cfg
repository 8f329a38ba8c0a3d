SPECIFICATION SafeSpec
CONSTANTS
  f1 = f1
  f2 = f2
  Fds <- MCFds
  WakeupFd = wakeup
  ListenFd = listen
  MaxPending = 2
  MaxHolds = 1
  MaxSends = 0
  MaxReady = 2
SYMMETRY Symmetry
INVARIANTS
  TypeOK
  NoUseAfterFree
  RefExact
  CallbackProtocol
  IdlePoll
