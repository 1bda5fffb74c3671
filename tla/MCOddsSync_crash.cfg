SPECIFICATION Spec
CONSTANTS
  t1 = t1  t2 = t2  s1 = s1  s2 = s2
  Tokens = {t1, t2}
  Slots = {s1, s2}
  Source <- MCSource3
  MaxTime = 4
  MaxRuns = 2
  WindowSize = 2
  Overlap = 2
  Recent = 1
  MaxLag = 2
  Reconcile = FALSE
  GroupSize = 1
  ChunkRows = 2
  FlushRows = 2
  QueueCap = 2
  RoutineInterval = 1
  EmptyRetryBase = 1
  EmptyRetryMax = 2
  ErrorRetry = 1
  DayLength = 2
  Faults = {"request", "flush", "crash"}
INVARIANTS LedgerIsTrue SuccessMeansStored
SYMMETRY MCSlots
CHECK_DEADLOCK FALSE
