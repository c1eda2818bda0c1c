CONSTANTS
  r1 = r1
  r2 = r2
  Runner <- TwoRunners
  MaxSimulations = 2
  DefaultError = 4
  Error = {1, 2, 5}
  NaN = NaN
  NoBackup = NoBackup
  Faults = {"binary", "analysis", "nan", "copy", "remove", "clock", "write"}
SPECIFICATION FairSpec
INVARIANTS
  TypeOK
  BestExported
  ResultsBound
  NoFileLeft
  BackupComplete
PROPERTIES
  ImplementsSearch
  ShutdownWithData
  PoisonEndsAll
CHECK_DEADLOCK FALSE
