SPECIFICATION Spec
CONSTANTS
  p1 = p1
  p2 = p2
  c1 = c1
  c2 = c2
  Producers <- MCProducers
  Consumers <- MCConsumers
  Capacity = 3
  W = 16
  Origin = 14
  MaxBatch = 2
  MaxClaims = 4
SYMMETRY Symmetry
INVARIANTS
  TypeOK
  CounterOrder
  ExclusiveClaims
  TurnHeld
PROPERTY
  PublishInTurn
