SPECIFICATION Spec
CONSTANTS
  MaxHeight = 5
  ActivatedHeight = 2
  FastSyncGap = 2
  FastSyncLimit = 3
  MaxSubmissionRetries = 1
  StaticStartHeights = {0}
  MaxFaults = 0
  MaxStops = 0
  Punishments = {}
INVARIANTS
  BatchUsesOwnRandomness
CHECK_DEADLOCK FALSE
