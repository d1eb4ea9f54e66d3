SPECIFICATION FairSpec
CONSTANTS
  MaxHeight = 4
  BufferSize = 2
  MaxFailedCycles = 1
PROPERTIES SkipAnswered
CHECK_DEADLOCK FALSE
