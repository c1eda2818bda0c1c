CONSTANTS
  r1 = r1
  r2 = r2
  Runner <- TwoRunners
  MaxSimulations = 2
  DefaultError = 2
  Error = {1, 3}
  NaN = NaN
  NoBackup = NoBackup
  Faults = {"binary"}
SPECIFICATION FairSpec
PROPERTIES
  ShutdownCompletes
CHECK_DEADLOCK FALSE
