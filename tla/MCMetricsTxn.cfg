SPECIFICATION Spec
CONSTANTS
  Point <- SmallPoint
  FlushThreshold = 2
  MemoryBudget = 2
  CacheSize = 2
  Window = 2
  Cutoff = {4}
  Ladder = {"hourly"}
  OtherProcess = FALSE
  MaxId = 4
  FailuresUndone = TRUE
  QueryOnly = FALSE
  MaxDepth = 1
  MaxJoinDepth = 1
  StartModes = {"begin"}
INVARIANTS TypeOK TotalsAreRows NoOrphans CommitsWhatWasWritten
PROPERTIES ImplementsTable
