SPECIFICATION Spec
CONSTANTS
  MaxRuns = 1
INVARIANTS NoCredentialOutlivesItsRun
\* The user may be done.
CHECK_DEADLOCK FALSE
