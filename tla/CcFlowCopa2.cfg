SPECIFICATION CcSpec
CONSTANTS
  DupackLimit = 2
  InitSrtt = 10
  MinRto = 10
  MaxRto = 10
  MaxBackoff = 4
  StartTime = 0
  TxLength <- TwelvePackets
  PktSize = 1
  Cwnds = {0, 1, 2, 3, 4, 5, 6}
  Intersends <- AnyInterval
  Till = 2
  MaxEvents = 60
  MaxSack = 3
  MaxLosses = 1
  TimeMax = 100
  RttMinReset = 2
  OscSwing = 27
  OscInterval = 2
  BaseHist = 2
  LongHist = 4
  AckWindow = 4
  MaxWindow = 6
  StatsIntervals <- Intervals
  CcConfigs <- OnlyCopa2
INVARIANT Copa2SeesNoLoss
CHECK_DEADLOCK FALSE
