SPECIFICATION CallSpec
CONSTANTS
  MaxSessions = 2
INVARIANTS OpenSessionHasOwner
\* The call may be over.
CHECK_DEADLOCK FALSE
