SPECIFICATION FairSpec
CONSTANTS
  Threads = {t1, t2}
  MaxCalls = 3
  BufferSize = 0
  L0_CompactionTrigger = 1
  L0_SlowdownWritesTrigger = 1
  L0_StopWritesTrigger = 2
  MaxTroubles = 2
INVARIANTS OwedVisible StatusTrue SequenceExact Reopens
PROPERTIES WriteReturns MemTableWritten
CHECK_DEADLOCK FALSE
