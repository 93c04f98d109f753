SPECIFICATION Spec
CONSTANTS
  Conceals = {c1}
  Recovers = {r1}
  ImageNames = {"jrif_1.jpg"}
  RecoveredNames = {"jrif_1.jpg"}
  Candidate <- OneCandidate
  TempNames = {".tmp1"}
  NameLimit = 1
  CandidateLimit = 1
  TempLimit = 2
  Starts <- AllRuns
  FileSystems <- EachPrimitive
INVARIANTS NoPartialOutput
PROPERTIES TouchesOnlyItsOwn KeepsPromise
\* Every run may have ended.
CHECK_DEADLOCK FALSE
