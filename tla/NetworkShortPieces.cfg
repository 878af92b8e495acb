SPECIFICATION FairSpec
CONSTANTS
  Second = 12
  PktSize = 1
  NumFlows = 1
  Delays <- OneDelay
  Links <- ShortPieces
  BufSizes <- OnePlace
  AggGaps <- AggregateNone
  SendGaps = {1, 2}
  MaxPkts = 5
  Till = 20
  LinkBucketSize = 5
  TxOppBytes = 1
PROPERTY PiecewiseFollows
