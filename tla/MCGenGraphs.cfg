SPECIFICATION Spec
CONSTANTS
  Batches <- MCBatches
  P = 16
  Coordinates = {0, 9}
  Errors = {1, 2, 4}
  ManyErrors = {1, 3}
  MaxResults = 4
  MaxFiles = 4
INVARIANTS
  PooledByDistance
  FailuresExplained
  ColorsByRank
  OutputsTrue
