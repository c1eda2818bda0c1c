CONSTANTS
  Files <- AllFiles
  UseMad = TRUE
  Step = 2
  MaxDelta = 2
  MaxSetBack = 3
  TimeLimit = 5
  Keys = {"A"}
  Ips = {1, 2, 3}
  FileTimes = {0, 2, 7}
SPECIFICATION FairSpec
PROPERTIES
  GraphFinishes
CHECK_DEADLOCK FALSE
