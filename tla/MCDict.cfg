SPECIFICATION Spec
CONSTANTS
  k1 = k1
  k2 = k2
  k3 = k3
  k4 = k4
  v1 = v1
  v2 = v2
  Keys <- MCKeys
  Values = {v1, v2}
  Pairs <- MCPairs
  Hash <- MCHash
  None = None
  Bits = 3
  InitialSize = 2
  ForceRatio = 1
  EmptyVisits = 2
  Sizes = {8}
  Batches = {2}
INVARIANTS
  WellFormed
  IsMap
  ScanComplete
  IterateOnce
