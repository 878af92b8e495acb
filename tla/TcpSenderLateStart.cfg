SPECIFICATION SenderSpec
CONSTANTS
  DupackLimit = 2
  InitSrtt = 3
  MinRto = 3
  MaxRto = 6
  MaxBackoff = 4
  StartTime = 2
  TxLength <- TimedFlow
  PktSize = 1
  Cwnds = {2}
  Intersends = {2}
  Till = 5
  MaxEvents = 8
INVARIANT Paced
CHECK_DEADLOCK FALSE
