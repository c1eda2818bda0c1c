CONSTANTS
  UavCount = 2
  PacketInterval = 2
  CalculateInterval = 1
  LogInterval = 2
  StartDelay = 1
  AttackDelay = 1
  Duration = 8
  DoCyberAttack = TRUE
  Pos = {o, p, q}
  Origin = o
  NaN = NaN
  NoData = NoData
SPECIFICATION FairSpec
INVARIANTS
  TypeOK
  OneTimerEach
  Heartbeat
  NoCrash
  NoSelfEntry
  KnowledgeSound
  CentralFixed
  StationaryUntilHeard
  WaypointsInStep
  PacketAccounting
PROPERTIES
  NaNAbsorbing
  SimulationEnds
CHECK_DEADLOCK FALSE
