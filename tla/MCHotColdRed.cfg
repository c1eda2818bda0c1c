CONSTANTS
  Errors = {1, 2, 3, 4}
  MaxResults = 6
  Results <- AllResults
  Steps = 4
  ByteSize = 4
SPECIFICATION Spec
INVARIANTS
  RedByRank
CHECK_DEADLOCK FALSE
