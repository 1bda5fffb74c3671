\* Two runs of each scope.
CONSTANTS
  Runs <- MCRuns
  Keys = {k1, k2}
  Scopes = {"wc2026", "soccer", "kalshi", "jobs"}
  MonitoredRuns = {1}
  MaxTime = 2
  Lookback = 1
  MaxLatency = 1
  Window = 1
  Revisions <- MCRevisions
  Markets = {m1, m2}
  m1 = m1
  m2 = m2
  Opens <- MCOpens
  Interval = 1
  Backfills = {0, 1}
SPECIFICATION Spec
INVARIANTS TablesRecover KalshiIsStored LedgerIsHonest
CHECK_DEADLOCK FALSE
