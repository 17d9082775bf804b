SPECIFICATION ReadSpec
CONSTANTS
  Entry <- PairEntry
  FlushThreshold = 2
  Window = {0}
  Cutoff = {}
  FailuresUndone = TRUE
  MaxDepth = 0
  MaxJoinDepth = 0
  StartModes = {"begin"}
INVARIANTS ReadSeesCommitted
