SPECIFICATION FairFlow
CONSTANTS
  DupackLimit = 2
  InitSrtt = 2
  MinRto = 2
  MaxRto = 4
  MaxBackoff = 4
  StartTime = 1
  TxLength <- OddBytes
  PktSize = 2
  Cwnds = {2}
  Intersends = {0}
  Till = 3
  MaxEvents = 60
  MaxSack = 3
  MaxLosses = 1
INVARIANT LengthRespected
PROPERTIES
  SenderSpec
  BackoffNeverResets
  FlowCompletes
CHECK_DEADLOCK FALSE
