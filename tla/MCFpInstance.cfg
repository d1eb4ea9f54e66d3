SPECIFICATION Spec
CONSTANTS
  MaxHeight = 6
  ActivatedHeight = 3
  FastSyncGap = 2
  FastSyncLimit = 3
  MaxSubmissionRetries = 1
  StaticStartHeights = {0, 2}
  MaxFaults = 1
  MaxStops = 0
  Punishments = {"jailed", "slashed"}
INVARIANTS
  VoteOrder
  StoredProgressIsReal
PROPERTIES
  StoredHeightsRise
CHECK_DEADLOCK FALSE
