CONSTANTS
  StatusUpdates = TRUE
  MaxInstances = 1
  MaxRuns = 1
  Punishments = {"jailed", "slashed"}
SPECIFICATION FairSpec
INVARIANTS  SlashedIsReal
PROPERTIES PanicHasCause PunishedIsRemoved PowerIsNoticed
CHECK_DEADLOCK FALSE
