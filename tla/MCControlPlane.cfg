CONSTANTS
  k1 = k1
  k2 = k2
  Keys <- MCKeys
  Capacity = 2
  MaxBatch = 2
  MaxUpdates = 5
SPECIFICATION Spec
INVARIANTS
  LatestWinsWithoutOverflow
PROPERTIES
  EveryKeyApplied
