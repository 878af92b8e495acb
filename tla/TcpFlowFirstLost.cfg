SPECIFICATION FlowSpec
CONSTANTS
  DupackLimit = 2
  InitSrtt = 3
  MinRto = 3
  MaxRto = 6
  MaxBackoff = 4
  StartTime = 0
  TxLength <- EndlessFlow
  PktSize = 1
  Cwnds = {2}
  Intersends = {0}
  Till = 4
  MaxEvents = 14
  MaxSack = 3
  MaxLosses = 1
INVARIANT NoPanic
CHECK_DEADLOCK FALSE
