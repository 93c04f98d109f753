SPECIFICATION FairSpec
CONSTANTS
  MaxKeys = 1
  MaxTyped = 4
  MaxAhead = 1
  MaxStops = 2
INVARIANTS NothingEchoedIsRead LeavesAllAsFound LineIsAsEdited CancelWins
PROPERTIES CancelEnds
\* The entry may have ended.
CHECK_DEADLOCK FALSE
