SPECIFICATION Spec
CONSTANTS
  NumPubRand = 3
  MinRandHeightGap = 2
  MaxSubmissionRetries = 1
  MaxHeight = 3
  MaxFaults = 1
  FpPk = FpPk
  ChainID = ChainID
  BlockHash = BlockHash
INVARIANTS
  ProofsMatchCommits
CHECK_DEADLOCK FALSE
