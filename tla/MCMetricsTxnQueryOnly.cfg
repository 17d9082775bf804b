SPECIFICATION Spec
CONSTANTS
  Point <- PairPoint
  FlushThreshold = 2
  MemoryBudget = 2
  CacheSize = 2
  Window = 0
  Cutoff = {}
  Ladder = {"hourly"}
  OtherProcess = FALSE
  MaxId = 4
  FailuresUndone = TRUE
  QueryOnly = TRUE
  MaxDepth = 0
  MaxJoinDepth = 0
  StartModes = {"begin"}
INVARIANTS CommitsWhatWasWritten
