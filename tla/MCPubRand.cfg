SPECIFICATION FairSpec
CONSTANTS
  NumPubRand = 3
  MinRandHeightGap = 4
  MaxSubmissionRetries = 1
  MaxHeight = 3
  MaxFaults = 3
  FpPk = FpPk
  ChainID = ChainID
  BlockHash = BlockHash
INVARIANTS
  CommitsContiguous
  ProofsStoredFirst
  OperatingProofsMatch
  VotesVerify
PROPERTIES
  Replenished
CHECK_DEADLOCK FALSE
