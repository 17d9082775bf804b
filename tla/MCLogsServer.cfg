SPECIFICATION Spec
CONSTANTS
  Req <- Batches
  Job = {"flush", "backup"}
  Units <- BatchUnits
  GateUnits = 2
  QueueSlots = 2
INVARIANTS TailIsSearchable FlushIsBarrier BackupHoldsAcknowledged ReleasedIsDurable
PROPERTIES EverySettles
CHECK_DEADLOCK FALSE
