SPECIFICATION Spec
CONSTANTS
  DupackLimit = 2
  MaxPkts = 6
  MaxArrivals = 10
  MaxSack = 3
INVARIANTS
  TrackerIsSound
  AckLoopMatches
  SackLoopMatches
PROPERTY ReceivedIsStable
