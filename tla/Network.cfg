SPECIFICATION FairSpec
CONSTANTS
  Second = 12
  PktSize = 1
  NumFlows = 2
  Delays <- TwoDelays
  Links <- AnyLink
  BufSizes <- AnySize
  AggGaps <- AggregateFirst
  SendGaps = {0, 3}
  MaxPkts = 3
  Till = 12
  LinkBucketSize = 5
  TxOppBytes = 1
INVARIANTS
  TypeOK
  Routed
  LinkOnSchedule
  QueueingBounded
  AcksAggregated
  LinkTraced
PROPERTIES
  PerFlowFifo
  PiecewiseFollows
  SimulationEnds
