SPECIFICATION FairSpec
CONSTANTS
  Capacity = 2
  SendMax = 2
  Total = 5
INVARIANTS InOrder ClosedIsComplete
PROPERTIES CancelStops
\* The writer may be closed or dropped.
CHECK_DEADLOCK FALSE
