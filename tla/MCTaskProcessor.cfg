SPECIFICATION Spec
CONSTANTS
  w1 = w1
  w2 = w2
  c1 = c1
  c2 = c2
  t1 = t1
  t2 = t2
  Workers <- MCWorkers
  Clients <- MCClients
  Tasks <- MCTasks
  Owner = owner
  None = None
  MaxRuns <- MCMaxRuns
  Waiters = {c1}
  Teams <- MCTeams
INVARIANTS
  TypeOK
  BusyExact
  NoUseAfterFree
  DrainedAtShutdown
PROPERTIES
  EveryRunExecuted
  DestroyTaskReturns
  ShutdownEnds
CHECK_DEADLOCK FALSE
