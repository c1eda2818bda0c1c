CONSTANTS
  Files <- AllFiles
  UseMad = TRUE
  Step = 2
  MaxDelta = 2
  MaxSetBack = 2
  TimeLimit = 5
  Keys = {"A"}
  Ips = {1, 2, 3}
  FileTimes = {0, 2, 7}
SPECIFICATION FairSpec
INVARIANTS
  NoCrash
PROPERTIES
  Brackets
  GraphForward
  FinishesWithinLimit
CHECK_DEADLOCK FALSE
