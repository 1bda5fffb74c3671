SPECIFICATION FetchSpec
CONSTANTS
  Window <- MCWindow
  History <- MCHistory
  Doubtful = {2}
  Coarse = {3}
  CoarseInstants = {0, 2, 4}
  Minute = 2
  ChunkLength = 3
  LongestRange = 1
  MinSplit = 1
  BatchSize = 2
  Workers = 2
  MaxInflight = 2
  Rates = {1, 2}
  HardTimeout = 1
  Retries = 1
  Leg = "futures"
  Failures = {"transient", "disk", "audit", "busy"}
INVARIANTS OutcomesAreTrue StaysInBounds
PROPERTIES RunEnds
CHECK_DEADLOCK FALSE
