SPECIFICATION Spec
CONSTANTS
  Point <- PairPoint
  FlushThreshold = 2
  MemoryBudget = 2
  CacheSize = 1
  Window = 0
  Cutoff = {}
  Ladder = {"none", "hourly"}
  OtherProcess = TRUE
  MaxId = 3
  FailuresUndone = TRUE
  QueryOnly = TRUE
  MaxDepth = 2
  MaxJoinDepth = 1
  StartModes = {"begin"}
INVARIANTS CacheIsRows LadderIsRows BuffersAreTheTransactions TotalsAreRows NoOrphans
