SPECIFICATION FairSpec
CONSTANTS
  t1 = t1  t2 = t2
  Tokens = {t1, t2}
  Catalogs <- MCCatalogs
  MaxWorkers = 2
  MaxAttempts = 2
  MaxEvents = 2
  ShardSize = 2
  QueueMessages = 2
  QueueBytes = 4
  BatchSize = 2
  Faults = {"lost", "budget"}
INVARIANTS CommittedIsWhole TokensAreFollowed ResolvedStaysOut
PROPERTIES SessionEnds
CHECK_DEADLOCK FALSE
