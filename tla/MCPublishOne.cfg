SPECIFICATION FairSpec
CONSTANTS
  Conceals = {c1}
  Recovers = {r1}
  ImageNames = {"jrif_1.jpg", "jrif_1_1.jpg"}
  RecoveredNames = {"jrif_1.jpg", "jrif_1_1.jpg"}
  Candidate <- TwoCandidates
  TempNames = {".tmp1"}
  NameLimit = 2
  CandidateLimit = 2
  TempLimit = 1
  Starts <- OneRun
  FileSystems <- AllFileSystems
INVARIANTS ShownKeyHasImage CleanEnd SuccessIsReal
PROPERTIES CancelledKeyStaysHidden Termination
\* Every run may have ended.
CHECK_DEADLOCK FALSE
