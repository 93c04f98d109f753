SPECIFICATION Spec
CONSTANTS
  Conceals = {c1}
  Recovers = {}
  ImageNames = {"jrif_1.jpg"}
  RecoveredNames = {"jrif_1.jpg"}
  Candidate <- OneCandidate
  TempNames = {".tmp1"}
  NameLimit = 1
  CandidateLimit = 1
  TempLimit = 1
  Starts <- AllRuns
  FileSystems <- EachPrimitive
INVARIANTS WithdrawnImageHasNoKey
\* Every run may have ended.
CHECK_DEADLOCK FALSE
