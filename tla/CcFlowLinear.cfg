SPECIFICATION CcSpec
CONSTANTS
  DupackLimit = 2
  InitSrtt = 10
  MinRto = 10
  MaxRto = 10
  MaxBackoff = 4
  StartTime = 0
  TxLength <- ThreePackets
  PktSize = 1
  Cwnds = {0, 1, 2, 3}
  Intersends = {0}
  Till = 3
  MaxEvents = 60
  MaxSack = 3
  MaxLosses = 0
  TimeMax = 100
  RttMinReset = 2
  OscSwing = 27
  OscInterval = 2
  BaseHist = 2
  LongHist = 1
  AckWindow = 1
  MaxWindow = 3
  StatsIntervals <- Intervals
  CcConfigs <- OnlyLinear
INVARIANT HistoryCoversAcks
CHECK_DEADLOCK FALSE
