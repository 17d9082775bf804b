SPECIFICATION ReadSpec
CONSTANTS
  Entry <- PairEntry
  FlushThreshold = 3
  Window = {0}
  Cutoff = {4}
  FailuresUndone = TRUE
  MaxDepth = 2
  MaxJoinDepth = 1
  StartModes = {"begin"}
INVARIANTS ReadsOnlyCommitted ReadsOnce SavepointsRestorable RollbackExact
