SPECIFICATION Spec
CONSTANTS
  Entry <- SmallEntry
  FlushThreshold = 3
  Window = {2}
  Cutoff = {4}
  FailuresUndone = TRUE
  MaxDepth = 1
  MaxJoinDepth = 1
  StartModes = {"begin"}
INVARIANTS TypeOK IndexIsRows EachOnce
PROPERTIES ImplementsTable
