SPECIFICATION CallFairSpec
CONSTANTS
  MaxSessions = 3
INVARIANTS ReleasedOnceAfterUse
PROPERTIES DeadlineHolds
\* The call may be over.
CHECK_DEADLOCK FALSE
