SPECIFICATION CarriersSpec
CONSTANTS
  EncryptedSizes = {24, 64687, 64688, 64689, 130207, 130208, 195726, 195727}
  KeptSizes = {0, 16}
  CoverSizes = {200}
  MaxConceal = 196829
  AddedSizes = {16, 65504}
  MaxAdded = 17
  Reads = {30000, 64688, 65519}
  Sizes = {21, 65027, 65028, 97794, 97795, 130524, 130525, 130526, 130527, 175245, 175246}
  Pushes = {1, 2, 4, 130525}
  MaxPushes = 4
  OtherSizes <- MCOtherSizes
  MaxOthers = 2
  OtherXmpAt = 400
  Splits = {1, 6}
  Decoys = {100, 66000}
  Domains = {1, 2, 5, 8}
  Counts = {1, 3, 4, 6}
  SparseDivisor = 2
  FirstCapacity = 2
  HashRange = 64
  Multipliers = {0, 39}
  MessageSizes = {1, 2, 3, 4, 5, 6, 7, 11, 24, 25, 38, 40}
  CodedBits = 5
  MaxSegment = 10
  Height = 3
  Columns2 <- MCColumns2
  Columns3 <- MCColumns3
  CoverPatterns <- MCCovers
  CostPatterns <- MCCosts
INVARIANTS RunsAreTheCiphertext UndamagedIsAccepted DamagedIsRefused
INVARIANTS ReadsInOrder CountsAgree
INVARIANTS BlueskyIsReassembled BlueskyIsAccepted SizesAreTrue
INVARIANTS ScheduleFits CarriesTheMessage
PROPERTY ShufflesInSteps
\* One image, concealed and recovered once.
CHECK_DEADLOCK FALSE
