SPECIFICATION PipelineSpec
CONSTANTS
  ChunkSize = 400
  PerChunk = 21
  EnvelopeHeader = 72
  McuSide = 16
  MaxFile = 1610612736
  MaxConceal = 1073741824
  NameLengths = {1, 20, 21}
  BlueskyRooms = {465, 3000}
  EmbedGrowths = {0, 1}
  Keys = {"shown", "other"}
  Inputs <- MCInputs
  Replacements <- MCReplacements
  FrontSegments <- MCFront
  TableSums <- MCTableSums
INVARIANTS RecoveredAsConcealed LimitsAgree CapacityIsExact CoverIsKept
\* A run that was refused, or has recovered, ends.
CHECK_DEADLOCK FALSE
