SPECIFICATION FairSpec
CONSTANTS
  Addr = {c1, c2, c3}
  None = None
  MaxGen = 1
INVARIANTS TypeOK JournalSingleWriter HolderIsLive NoReadUnderWriter CountersExact NoLostWakeup
PROPERTIES WriterServed WaiterSettles
