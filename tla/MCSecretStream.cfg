SPECIFICATION Spec
CONSTANTS
  ChunkSize = 2
  MaxName = 2
  MaxData = 5
INVARIANTS OnlyTheOriginal NoFalseAlarm
\* Both runs may be over.
CHECK_DEADLOCK FALSE
