SPECIFICATION FairSpec
CONSTANTS
  t1 = t1  t2 = t2  s1 = s1  s2 = s2
  Tokens = {t1, t2}
  Slots = {s1}
  Source <- MCSource3
  MaxTime = 3
  MaxRuns = 2
  WindowSize = 2
  Overlap = 1
  Recent = 1
  MaxLag = 1
  Reconcile = TRUE
  GroupSize = 2
  ChunkRows = 2
  FlushRows = 2
  QueueCap = 1
  RoutineInterval = 1
  EmptyRetryBase = 1
  EmptyRetryMax = 2
  ErrorRetry = 1
  DayLength = 2
  Faults = {"transient", "permanent", "request", "flush", "noprogress", "slowfinal"}
INVARIANTS TypeOK VouchedIsStored
PROPERTIES LedgerIsMonotone 
CHECK_DEADLOCK FALSE
