SPECIFICATION Spec
CONSTANTS
  t1 = t1  t2 = t2
  Tokens = {t1, t2}
  MaxRuns = 3
  MaxWindow = 2
  Legs = {"match", "futures", "soccer"}
  MaxActive <- MCMaxActive
  Faults <- MCFaults
INVARIANTS PublicationAgrees SnapshotsAreKept
PROPERTIES AtomicPublication PriorRowsKept FetchedRunPublishes
SYMMETRY MCTokens
