SPECIFICATION Spec
CONSTANTS
  c1 = c1
  c2 = c2
  Callers <- MCCallers
  Worker = w
  None = None
  MaxCalls = 4
INVARIANTS
  JoinComplete
  NoUseAfterDestroy
PROPERTIES
  CallsReturn
  ImplementsJob
