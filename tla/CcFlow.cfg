SPECIFICATION CcSpec
CONSTANTS
  DupackLimit = 0
  InitSrtt = 2
  MinRto = 2
  MaxRto = 4
  MaxBackoff = 4
  StartTime = 0
  TxLength <- ThreePackets
  PktSize = 1
  Cwnds = {0, 1, 2, 3}
  Intersends <- AnyInterval
  Till = 3
  MaxEvents = 60
  MaxSack = 3
  MaxLosses = 2
  TimeMax = 100
  RttMinReset = 2
  OscSwing = 27
  OscInterval = 2
  BaseHist = 2
  LongHist = 1
  AckWindow = 1
  MaxWindow = 3
  StatsIntervals <- Intervals
  CcConfigs <- AllConfigs
INVARIANTS
  CcTypeOK
  AbortsExplained
  WindowsExact
  WindowNeverCloses
  StatsAddUp
CHECK_DEADLOCK FALSE
