SPECIFICATION SettlementSpec
CONSTANTS
  a1 = a1  a2 = a2
  Exchanges <- MCExchanges
  Markets <- MCMarkets
  Manifests <- MCManifests
  FinalizedHead = 3
  BlockTime <- MCBlockTime
  Txs <- MCTxs
  ProviderLimit = 2
  MinChunk = 1
  Attempts = {a1, a2}
  MaxAttempts = 3
  MaxReseeds = 2
  MaxForks = 1
  Workers = 1
  InitialChunk = 2
  MaxChunk = 2
  Overlap = {}
  ScanFaults = {"rpc", "crash"}
SYMMETRY Symmetry
INVARIANTS CanonicalIsPublished ResumableIsStaged
PROPERTIES NeverDemoted
CHECK_DEADLOCK FALSE
