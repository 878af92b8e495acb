SPECIFICATION FairSpec
CONSTANTS
  Till = 2
  MaxTime = 3
  MaxNew = 3
  MaxActions = 5
INVARIANTS
  TypeOK
  HeapMatchesCalendar
  CalendarInOrder
PROPERTIES
  RunsInOrder
  SimulationEnds
CHECK_DEADLOCK FALSE
