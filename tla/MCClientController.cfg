CONSTANTS
  Calls = {c1, c2}
  MaxAttempts = 2
  NumPubRand = 1
  MaxPunish = 1
SPECIFICATION FairSpec
INVARIANTS SuccessIsNeverCritical
PROPERTIES PromiseKept 
CHECK_DEADLOCK FALSE
