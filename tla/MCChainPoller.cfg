SPECIFICATION FairSpec
CONSTANTS
  MaxHeight = 4
  BufferSize = 2
  MaxFailedCycles = 1
INVARIANTS Contiguous SkipTakesEffect QueriesExact
PROPERTIES ImplementsStream StopTerminates SkipAnsweredUnlessFull
CHECK_DEADLOCK FALSE
