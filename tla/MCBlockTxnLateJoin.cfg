SPECIFICATION Spec
CONSTANTS
  Entry <- PairEntry
  FlushThreshold = 3
  Window = {0}
  Cutoff = {4}
  FailuresUndone = TRUE
  MaxDepth = 0
  MaxJoinDepth = 0
  StartModes = {"savepoint"}
PROPERTIES RollbackToRestores
