SPECIFICATION FairSpec
CONSTANTS
  MaxRuns = 3
INVARIANTS AtMostOnePost ReportsAreTrue LogsOut
PROPERTIES SentOnce RunsEnd
\* The user may be done.
CHECK_DEADLOCK FALSE
