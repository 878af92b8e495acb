SPECIFICATION FlowSpec
CONSTANTS
  DupackLimit = 1
  InitSrtt = 1
  MinRto = 1
  MaxRto = 2
  MaxBackoff = 4
  StartTime = 0
  TxLength <- EndlessFlow
  PktSize = 1
  Cwnds = {4}
  Intersends = {0}
  Till = 1
  MaxEvents = 17
  MaxSack = 3
  MaxLosses = 2
INVARIANTS
  TypeOK
  TrackerMatchesSender
  OneTransmitPending
  TimerPending
  EventsKnown
  WindowRespected
  WindowFilled
  FlowTypeOK
  AcksAreTrue
  AcksNeverGoBack
  CumAckCatchesUp
  InFlightIsSomewhere
PROPERTIES
  FastRetransmitIsNeeded
CHECK_DEADLOCK FALSE
