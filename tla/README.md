# OddsFox pipeline: a TLA+ model

OddsFox collects prediction-market data (Polymarket, Kalshi, Polygon) into one
DuckDB warehouse, builds dbt models on it and publishes derived data.  This
directory models the parts of it whose correctness depends on order, failure and
concurrency, checks the models with TLC and proves the most important of the
properties with TLAPS.

Contents: 1 Inventory, 2 Plan and modules, 3 The models and the code, 4 The runs,
5 Fairness, 6 What the models brought to light, 7 The proofs, 8 Not modelled.

## 1. Inventory

| Component | State | Operations and interactions | Hard behaviour | What makes it correct | Module |
|---|---|---|---|---|---|
| Hourly odds sync (`ingestion/polymarket/odds`, `storage/duckdb/odds`) | `odds_history`, `token_sync_ledger`, `token_sync_skips`, `token_odds_daily`; write queue, writer buffers, dirty token-days | plan due tokens; workers fetch windows and put rows, skips and ledger rows on a queue; one writer commits | worker/writer interleaving, bounded queue, failing transaction, crash, abort, late rows | a cursor never overtakes stored rows; success means durable; every run ends | `OddsSync` |
| Minute-odds publication (`storage/minute_odds_snapshots.py`, `storage/duckdb/dlt_batch.py`, `match_minute.py`, `futures_minute.py`, `soccer_match.py`) | snapshot directories, `CURRENT`, fetch audit with `raw_published`, file lock | plan, reuse, fetch, audit, lock, merge, move `CURRENT`, flip flags, retain, reconcile by hand | two publishers, crash between the two commits, stale reuse, rollback | rows served, manifest and audit agree; nobody's rows are lost | `MinuteOddsPublish` |
| Minute fetch pool (`odds/minute_batch.py`, `odds/fetch.py`), HTTP resources, guardrail | units in flight, chunks, limiter, cache directory, progress clock | submit, split, isolate, retry, spill, tune, abort | answers in flight at an abort, partial windows, a bad token in a batch | a token is complete or an error of its own; bounds hold; the run ends | `MinuteFetch` |
| Polygon settlement scan (`polygon_settlement_*`) | scan run, chunks, staged and canonical fills | plan ranges, split leaves, record chunks, revalidate, publish, verify | reorganised headers, crash between chunks, two attempts, changed seed | canonical fills are exactly the seed's trades | `PolygonChain`, `PolygonSettlement` |
| Sports-data recorder (`sports_data`) | queue, pressure counter, active tokens, segments, manifests | receive, enqueue, consume, rotate, refresh, drain | async interleavings, reconnects, backpressure, cancellation | no silent gap; no forgotten token | `SportsRecorder` |
| Global catalog (`catalog.py`, `polymarket_catalog.py`) | crawl runs, pages, issues, snapshots, mart, releases | four passes page by page, resume, activate, build, release | the source changes, crash between pages, conflicts | complete crawls are whole and final; a release is all of them | `CatalogCrawl` |
| Event catalog, scope registry, market sync and backfill | checkpoints, snapshots, registry, raw markets, tokens, enrichment ledger | scan until two walks agree, merge bridge rows, admit, prune, materialise, enrich | source changes during a scan, retries and re-executions, failure between statements | observations never go back; whole families are admitted | `EventCatalog`, `MarketScope` |
| Order book and trades (`match_order_book.py`, `match_trades.py`) | scans, windows, leases, monthly counter, marts, bundle | split ranges, reserve, fetch, publish, build, export | cut-off answers, paid retries, expired leases, corrected data | published means whole, paid for and final | `OrderBookCapture` |
| Stage execution (`publishing/stage_execution*.py`) | checkpoints, ledger of the month, publication lock, release | plan, acquire by range or archive, publish | shared budget, crash and resume, late archive objects, racing publishers | one whole release within the budget | `StageExecution` |
| Polygon settlement releases (`publishing/polygon_settlement*.py`, dbt models) | dbt tables, audit releases, exports | seed, build, gate, verify, release, export | killed builds, edited files, second provider | a release is of one scan and one seed | `PolygonRelease` |
| dbt builds, warehouse lock | incremental tables, in-progress marks, file lock, child process | mark, launch, build, clear, recover | parent and child die separately | what a build leaves behind is found again | `DbtBuild` |
| Kalshi ingestion | registry, raw markets, candlesticks, ledger, pending packages | collect, load, fetch, save, build | partial failure, dead runs, overlapping runs | the ledger vouches for stored hours | `KalshiPipeline` |
| Soccer jobs and their ledger (`soccer_monitoring.py`) | `pipeline_runs`, `pipeline_step_runs` | preflight, steps, checks, terminal step | failed, cancelled, killed and locked-out steps | success is earned; a verdict is reached | `SoccerMonitoring` |
| Reference bundle | - | pure check of files | - | - | - |
| dbt models, scripts, tests | - | - | - | - | in part |

The components meet in the DuckDB warehouse, a file one writer holds at a time.
Within a process the hourly sync's threads share a queue and the minute fetch a
pool; between processes the minute-odds publishers share the snapshot directory,
`CURRENT` and the audit under a file lock, captures and stage executions share
ledgers of paid requests, and dbt children share the warehouse with whatever
their parents have left running.  `PROJECT.json` lists under `hazards` where in
the code each kind of failure bites, with the properties about it.

## 2. Plan and modules

| Module | Models | Composed with |
|---|---|---|
| `OddsSync` (+ `OddsSyncProofs`) | the hourly sync | - |
| `MinuteOddsPublication` | what publishing minute odds promises | - |
| `MinuteOddsPublish` (+ `PublicationProofs`) | how it is done | refines `MinuteOddsPublication` |
| `MinuteFetch` (+ `FetchProofs`) | the pool that delivers a minute run's rows | what `MinuteOddsPublish.RecordFetch` abstracts |
| `SportsRecorder` (+ `SportsRecorderProofs`) | one recording session | - |
| `PolygonChain`, `PolygonSettlement` (+ `PublicationProofs`) | chain arithmetic; the scan | `PolygonSettlement` extends `PolygonChain` |
| `PolygonRelease` (+ `PublicationProofs`) | from the published scan to the exported file | takes the scan of `PolygonSettlement` as one step |
| `CatalogCrawl` (+ `FetchProofs`) | crawl, mart and release of the global catalog | - |
| `EventCatalog`, `MarketScope` (+ `MarketScopeProofs`) | observation of a scope's events; the job around it | `MarketScope` extends `EventCatalog` |
| `OrderBookCapture` (+ `OrderBookCaptureProofs`) | captures, their marts and bundle | - |
| `StageExecution` (+ `StageExecutionProofs`) | acquisition and release of execution evidence | - |
| `DbtBuild`, `KalshiPipeline`, `SoccerMonitoring` (+ `PipelinesProofs`) | builds; the Kalshi pipeline around its build; the soccer jobs and their ledger | composed in `Pipelines`, on one warehouse |

The plan (the hourly sync, then publication, the recorder, the
scans and catalogs, fetch pool, dbt) has been carried out, save the reference
bundle, which turned out to keep no state (section 8).  Captures, stage
execution, releases, Kalshi and the soccer ledger were added because they share
budgets, locks and ledgers between processes that die.

What is left to TLC alone, and why, is said at the end of section 7.

## 3. The models and the code

### 3.1 `OddsSync`

State.  `history`, `ledger`, `skips` and `daily` are the tables of the same
names and survive `Crash`; `queue` is the `write_queue`; `wOdds`, `wStates`,
`wSkips` and `dirty` are the `WriterBuffers`; `task[s]` is the group one
in-flight future works on (`Slots` is the pool's `max_inflight`), `prog[t]` the
local variables of the fetch loop for one token, `todo` the planned tokens not
yet submitted, `report` those for which the main thread still has to put a retry
row.  `vouched`, `leapt` and `delivered` are history variables.

| Action | Code |
|---|---|
| `StartRun`, `NoopRun` | planning: due tokens, their start, the reconciled cursor (`planning.py`, `odds_snapshot.py`) |
| `Submit`, `Collect`, `CollectFailed`, `ReportRetry` | `run_sync_pool` |
| `FetchWindow`, `RequestFails`, `PutOdds`, `PutSkips`, `PutStates` | `sync_token_group_plan`, `_finalize_token_result` |
| `WriterTake`, `WriterStop`, `WriterFinalFlush`, `WriterRefresh` | `writer_loop`, `flush_writer_buffers`, `refresh_dirty_daily_keys` |
| `Drain`, `Finish`, `FinishWithoutWriter` | `drain_writer`, `raise_writer_failures` |
| `Abort`, `FinishAborted` | the guardrail's `NoProgressTimeoutError` in the pool |
| `Crash`, `Tick`, `CloseMarket` | the process, the clock, the market's closed flag |

Abstractions.  A row is a token and an instant; the clock moves between runs
only, one unit being a scheduling period.  The API serves a row at most `MaxLag`
instants after its timestamp; `LagAssumption` states `MaxLag <= Overlap`, which
is what the overlap of a plan is for.  The executor's queue and number of workers
are abstracted by the groups in flight.  The chunk flush of a group is checked
once a window, where the code checks after each token's rows.  Any exception the
code does not foresee is a `Crash`.  The branch of a permanent error raised by a
whole batch (`execution.py:519-524`) cannot be reached with the default fetch
function and is left out, and so are `empty_token_skip_budgets`, whose default is
off, and the flush of an idle writer, which never finds anything to do.  A market
is closed only once all its rows are served.  When the final flush outlives the
join (`FinishWithoutWriter`), the writer is taken to end with the process.

### 3.2 `MinuteOddsPublish` and `MinuteOddsPublication`

State.  `snapshots`, `current` and `lock` are the snapshot directories, the
`CURRENT` link and `.publish.lock`; `rowsOf` and `flagged` are the fetch audit
and its `raw_published` flags; `plan`, `reuse`, `prior` and `loaded` are local to
a run.  A fetch result and its hash are the record of the run and the window it
was fetched for, so that equal hashes mean equal rows.

| Action | Code |
|---|---|
| `Plan`, `ResolveReuse`, `ResolveSoccer`, `RecordFetch` | the leg's run: `match_minute.py`, `futures_minute.py`, `soccer_match.py` with `resolve_minute_token_reuse` |
| `LoadReused` | `_load_reused_audit_rows`, before the lock |
| `TakeLock`, `ReuseChanged`, `Build`, `Advance` | the locked part of `dlt_batch.py` and `build_and_publish_snapshot_from_shards` |
| `Commit`, `RegisterFails` | the DuckDB transaction and its exception handler |
| `Retain` | `retain_snapshots` |
| `Reconcile` | the operator's script (`reconcile_snapshot_publication`) |
| `Crash`, `ChangeWindow` | the process, the catalog |

`MinuteOddsPublication` says what is promised: the rows served and the audit
that describes them change in one step, which replaces the tokens its run has
fetched and keeps the others.  The refinement takes a publication to happen at
the commit: while a run is between the move of `CURRENT` and the end of its
transaction, `served` is the predecessor (`ServedRun`).

Abstractions.  Two runs of the WC2026 legs never overlap, as
`docs/reference/warehouse.md:269-271` asks, so their `MaxActive` is 1; the soccer
leg checks its reuse again under the lock and runs with two.  Each leg has the
faults that matter to it (`MCFaults`).  DuckDB's own file lock is not modelled;
it would only exclude interleavings.  The audit rows of a run that ends without
publishing are kept for the script alone.  Disk space, the file-level checks of
a snapshot and an invalid previous snapshot are left out.  The script runs alone
and takes no publish lock, as its documentation has the operator do; it has no
soccer path.

### 3.3 `SportsRecorder`

State.  `active` and `resolved` are `active_tokens` and `resolved_tokens`;
`workers[w]` is a worker coroutine: the await it is at (`pc`), its `token_set`,
`subscribed` and `retired_tokens`, connection attempt and sequence number, and
the record it waits to enqueue.  `admission` is the order in which waiters hold
or will get `queue_admission` (an `asyncio.Lock` is first come, first served),
`queue` and `pressure` are the queue and `pressure_bytes`.  `phase` is the main
coroutine.  `appended` and `committed` stand for the segment files, by what they
replay to in each stream: next sequence number, initialized books, books that lack
a message (`behind`), and whether the stream is closed.

| Action | Code |
|---|---|
| `Connect`, `Subscribe`, `Disconnect`, `Unsubscribe`, `Receive`, `ReceiveInvalid`, `Close` | `worker`, one step from an await to the next |
| `Admit` | `enqueue`, a waiter that gets its room |
| `ApplyCatalog` | `refresh_loop`, `launch` |
| `Consume`, `Rotate`, `AppendFails` | `consume_batch`, `publish`, `Segments` |
| `Stop`, `Finish` | the end of the main loop, the `finally` block |
| `Cancelled` (in `Stop`) | `task.cancel()` at each await a worker can be at |

Abstractions.  Every token is a condition of its own.  A message too large for
the queue and one that cannot be parsed leave the same record, `lost`.  A
message concerns one token; heartbeats, which are records without rows, are
left out.  `Replay` knows which messages are missing from a
stream: those between two sequence numbers that do not follow each other, and
those in `missed`, which the record before them could not carry.  Applying a
catalog while the session stops only launches workers that end at once and is
left out.  `BudgetStop` in the middle of one record's normalized rows is taken
to lose the record whole.  An interrupt (Ctrl-C) is not modelled.

### 3.4 `PolygonChain` and `PolygonSettlement`

State.  `runs`, `chunks`, `stage` and `fills` are the tables
`polygon_settlement_scan_runs`, `_scan_chunks`, `_fill_stage` and `_fills`; `seed`
is the manifest in the repository, `forked` the blocks whose header the provider
now serves differently; `attempts[a]` is a running backfill, `verifier` the
verification under way.

| Action | Code |
|---|---|
| `Begin`, `StartScan` | `polygon_settlement_sync.py`, the scan row |
| `ReadChunks`, `Revalidate`, `RevalidateFails` | what is resumed, and whether its headers still stand |
| `PlanWork`, `LeavesArrive`, `RecordLeaf`, `ChunkDone` | `polygon_settlement_scan.py`: gaps, pool, adaptive leaves, one transaction a chunk |
| `CheckPublication`, `Publish`, `RecordFailure` | coverage checks, the publishing transaction, the failing one |
| `VerifyBegin`, `VerifyEnd` | `verify_polygon_settlement_scan` |
| `AttemptDies`, `Reseed`, `Fork` | the process, the repository, the chain |

`PolygonChain` computes what a scan computes: block bisection, ranges, gaps,
leaves split at the provider's limit, and fills of a matched transaction, which it
refuses as a whole if a match differs from its active order, or a segment with a token
of the manifest has an amount out of range, a shape that is not supported or sums that
do not agree.
`MCPolygonSettlement` checks bisection, ranges and gaps against their definitions
by set difference (`ASSUME`); `TradesIn` is a second definition of the fills,
straight off the chain, that `CanonicalIsExact` compares with.

Abstractions.  The scan identifier is a hash of manifest and boundary headers;
headers change only strictly between those, so a scan is its manifest.  Hashes
and addresses are identities, decoding is the identity on a decoded event.  The
run lets only a seed change supersede a scan (`Overlap = {}`).

### 3.5 `CatalogCrawl`

State.  `runs`, `pages`, `issues` and `snapshots` are the crawl tables, `mart` is
`polymarket_graph_catalog`, `releases` the release directories; `listed`,
`closed`, `tradable` and `condition` are Gamma; `job` is the one process that has
the database; `since` is a history variable.

| Action | Code |
|---|---|
| `Start` | `collect_polymarket_catalog`: new crawl, resumption, refusal |
| `NextPass`, `FetchPage`, `FetchFails`, `PassBreaks` | one pass page by page; each page is stored by itself |
| `Activate`, `RecordIssue`, `MarkFailed` | `activate_catalog_crawl` and the exception handlers |
| `BuildMart` | the mart's SQL |
| `PrepareRelease`, `Install` | `publishing/polymarket_catalog.py` |
| `Crash`, `Change` | the process, Gamma |

Abstractions.  A page holds one item; a row keeps what the catalog decides on.
`MaxPages = 1` makes a pass truncate, which breaks the crawl, as `--max-pages` does.

### 3.6 `EventCatalog` and `MarketScope`

State.  `worlds` is Gamma's history, and what is read is the number of the state
it was read from; `walk` is the partition being paged, `payloads` what the job has
merged so far, `checkpoints` the checkpoint table, `snapshots` the observations;
`registry`, `rawMarkets`, `tokens` and `checked` are the registry, the raw tables and
the enrichment ledger; `root`, `retries` and `step` are Dagster's.

| Action | Code |
|---|---|
| `StartCatalog`, `UseCheckpoint`, `ReadPage`, `Converge`, `WalkAgain` | `event_catalog.py`: partitions walked until two inventories agree |
| `FetchReferences`, `MergeBatch`, `ClearCheckpoints` | bridge events, the observation's transaction |
| `CollectRaw`, `Load`, `SaveTokens` | `markets/sync.py`, `markets/persistence.py` |
| `Admit`, `RefreshUngated`, `PruneStale`, `PruneApi`, `Materialize` | `market_scope/registry.py`, `market_scope_registry.py` |
| `Enrich`, `DeleteOrphans` | `markets/backfill/metadata.py` |
| `FailJob`, `Retry`, `GiveUp`, `Reexecute` | failures between statements, Dagster's retry and a re-execution by hand |
| `Change` (in `GammaMoves`) | Gamma, which changes only while it is read |

Abstractions.  Slug and text predicates are data (`Scope`, `Seeds`, `Matches`); the
tag crawl behind the seeds is abstracted.  Every statement commits by itself, and
the job may fail between any two.  The one failure that the run leaves out has a
constant of its own, `Leftovers`: the end of a run between its observation and the
removal of checkpoints that another root run has left (section 6).  Bounds: one change
of Gamma, two root runs, one retry, one fault, two observations; the safety properties
were also checked once with two faults (687 thousand states).  Market `m1` refers to an
event of the listing and to one outside it, `m3` is a seed that two events may list.

### 3.7 `OrderBookCapture`

State.  `runs`, `windows` and `raw` are the scan, window and row tables of books and
trades, `used` the month's counter, `mart` the portrait marts, `bundle` the last
bundle, `job` the process that has the warehouse; `unpaid` and `steady` are history.

| Action | Code |
|---|---|
| `StartBooks`, `StartTrades`, `LeaseLost`, `Expire` | scan identity, resumption, the lease and its end |
| `NextWindow`, `Reserve`, `Request`, `Split` | the adaptive ranges and their paid requests |
| `MergeBooks`, `InsertTrade`, `CompleteWindow` | rows and checkpoint, each a statement of its own |
| `GammaDrift`, `Publish`, `SetStatus` | inventory checks and the end of a run |
| `BuildMart`, `BuildTrades`, `Export` | the marts and `market_portrait_export.py` |
| `Crash`, `Change`, `NewMonth` | the process, the provider's corrections, the calendar |

Abstractions.  A range of two instants is taken to be irreducible.  The provider
changes only just before a request, and a month ends only when its credit is used
up.  Owners matter only for the lease.  The splitting of trade ranges is not
exercised (two trades are below the limit).  Bounds: two scans, six credits, two
months, one retry, one change, one crash.  User activity is not modelled.

### 3.8 `StageExecution`

State.  `db[p]` is the checkpoint database of a process, `job[p]` what it is doing,
`used` and `elsewhere` the ledger of the month and what other programs reserved of
it, `lock` the publication lock directory, `release` the release.

| Action | Code (`publishing/stage_execution.py`, `stage_execution_archive.py`) |
|---|---|
| `Start` | the plan and the checkpoint's input key |
| `NextWindow`, `FetchBooks`, `FetchTrades`, `MarkSplit`, `InsertHalves`, `InsertRows`, `CompleteWindow` | acquisition by ranges |
| `NextHour`, `FetchSeed`, `StoreSeed`, `FetchObject`, `FinishWindows` | acquisition from the hourly archive |
| `TakeLock`, `Write`, `Reject`, `Install`, `Unlock` | publication |
| `Crash`, `Elsewhere`, `ObjectAppears` | the process, other programs, the archive |

Abstractions.  A book is the set of changes that led to it, so that a book rebuilt
from the wrong seed differs.  No two books of a token share an instant.  Evidence
is historical and does not change; an object of the archive may be late.  A
"missing" object is final for its checkpoint.  The local count of requests binds
over months only.  The branch for a split that cannot be made is not reached.

### 3.9 `MinuteFetch`

State.  `queue`, `worker` and `finished` are the pool's units by station, `main` the
main thread, `rate` and `permits` the limiter, `idle` the guardrail's clock in polls,
`results`, `cache` and `audit` what the run has; `sent` and `lost` are history.

| Action | Code |
|---|---|
| `TakeUnit`, `Answered`, `NextChunk`, `Finish` | `minute_batch.py`: a worker's unit chunk by chunk |
| `Halve`, `Isolate`, `DropFidelity` | a 400: too long, a bad token, or too fine |
| `Permanent`, `Transient` | what becomes of a failing request |
| `Poll`, `Take`, `EndOfStream` | the main thread: collect, spill, submit the next |
| `Audit`, `Publish` | the end of the run |
| `Tick` | the limiter's second and the guardrail's poll |

Abstractions.  Instants are numbers and a minute is two of them.  The tuner may set
any configured rate.  The API's longest range is at least the shortest chunk
(`LongestRange >= MinSplit`).  Prices do not change.  The mode of one token at a time
appears through `ChunkTask` only, and the check for duplicate tokens cannot be
reached.

### 3.10 `PolygonRelease`

State.  `draft` is the committed seed with its attestation, `run` and `canonical` the
published scans, `sidecar`, `candidate`, `quality` and `mart` the dbt tables, `dbt` the
build under way, `builder` and `exporter` the processes, `audits` and `exports` the
release directories by version; `built`, `verdict`, `tornMart`, `rejected` are history.

| Action | Code |
|---|---|
| `CommitSeed`, `PublishScan` | the repository, the scan of section 3.4 |
| `DbtSeed`, `DbtCandidate`, `DbtQuality`, `DbtMart`, `KillDbt` | the models in the order dbt builds them |
| `OpenRelease`, `Verify`, `BuildRelease`, `Refuse`, `RenameAudit` | `publishing/polygon_settlement.py` |
| `BeginExport`, `CopyFile`, `CopyFails`, `WriteExport`, `RefuseExport`, `RenameExport` | `publishing/polygon_settlement_export.py` |
| `RemoveAudit`, `EditAudit` | people |

Prices are computed: `HalfEven` in the release's Python and `WarehouseRatio` in the
dbt macro round the same way up to the macro's exact range, and the minute rows are
summed, averaged and validated as the code does.  A row of the mart carries some columns of
the seed only (`IdentityOf`), and only these are compared with the sidecar.
Abstractions: a file's hash is its content; git's clean check, wording, block ranges and inventory counts are left out,
as are temporary directories and killed builders.  The instance leaves out exports
that overlap a dbt build or a verification (`NoOverlap`), with which they share only
the committed files.  Volume sums beyond the exact range give a null average.

### 3.11 `DbtBuild`, `KalshiPipeline`, `SoccerMonitoring`, composed in `Pipelines`

`Pipelines` has runs of one of four kinds (`scope`): builds of the incremental models
of WC2026 or soccer, the Kalshi pipeline around its build, or soccer jobs with their
ledger.  They share the warehouse, `lock`, which a dbt child may keep longer than its
parent lives.

| Action | Code |
|---|---|
| `Land`, `Revise`, `Tick` | upstream, the clock |
| `BuildStep`, `ChildStep` (each a disjunction) | `orchestration/dbt_build.py`: check and write marks, launch, the child model by model, exit codes, clear, recover; kills of either process |
| `KalshiStep`: `DropPending`, `CollectMarkets`, `Extract`, `Load`, `SaveMetrics`, `RefreshRegistry`, `ReadDue`, `FetchCandles`, `SaveCandles`, `WriteLedger` | `assets_kalshi_wc2026.py`, `markets`, `candlesticks/sync.py`, `kalshi_candlesticks.py` |
| `StartJob`, `BeginStep`, `OpenRun`, `OpenStep`, `Work`, `FinishStep`, `FinishRun` | `soccer_monitoring.py` around a step |
| `LaunchStep`, `StepChildEnds` | the dbt step |
| `CheckPasses`, `CheckFails`, `CheckRaises` | blocking asset checks |
| `StepDies`, `JobDies`, `JobEnds` | the processes |

Abstractions.  A row of an incremental model is its ingestion time or source
revision, which is what the models' filters compare, and whether all of the key's
rows are there.  A child that dies may leave the model it was at half written, as
the comments of the wrapper suppose; it may also fail after the last model, by a
test.  `Backfills` has what `history_backfill_days` may be: a sync asks for the shorter of
it and the window, and the ledger row remembers the hours asked for.  dlt is external: it loads pending packages
before what it is given.  Dagster's executor is external: ready steps run one at a
time in any order, and a blocking check holds up only what is downstream of the asset
it checks.  The repository sets no retry policy, so an attempt is always the first.
Of the soccer runs only run 1 writes a ledger, the other holds the warehouse: runs
share nothing else, rows being keyed by run.  Pruning, heartbeats and alerts are not
modelled.  Two runs of each kind, a window of one hour, three instants.

## 4. The runs

A property named in a cfg is a conjunction of the parts listed with it; each part
is a definition of its own, with a comment.

| Run | Instance | What TLC shows |
|---|---|---|
| `groups` | two tokens in one group, one slot, a queue of one, two runs, three instants; every fault but a crash | `TypeOK`; `VouchedIsStored`; `LedgerIsMonotone`; `RunEnds`: a claim never speaks of instants whose rows are not stored, nothing stored is taken back, every run ends |
| `crash` | two groups, two slots, a queue of two, four instants; requests, transactions and the process fail | `LedgerIsTrue` (`ClaimsAreBacked`, `NoGapBehindCursor`, `FullyCheckedIsComplete`); `SuccessMeansStored` (`SuccessIsDurable`, `SuccessRefreshesDaily`) |
| `publish` | the three legs, two tokens, three runs, two windows; the faults of each leg | `PublicationAgrees` (`OnePublication`, `OneAuditRow`, `ManifestDescribesRows`); `SnapshotsAreKept` (`TypeOK`, `CurrentIsKept`, `PublishedTokenIsServed`); `PriorRowsKept`; `FetchedRunPublishes`; `AtomicPublication`, the abstract specification under the refinement mapping |
| `recorder` | two tokens, two workers, two connections each, a queue of two records and four units, lost messages, failing appends | `CommittedIsWhole` (`ReplayIsHonestWithinBudget`, `AcceptedIsCommitted`); `TokensAreFollowed` (`TypeOK`, `NoTokenForgotten`); `ResolvedStaysOut`; `SessionEnds` |
| `polygon` | two manifests on a chain of a few blocks, three attempts of which two at once, one fork | `CanonicalIsPublished` (`SettlementTypeOK`, `CanonicalIsExact`, `OneCanonicalScan`, `PublishedIsTiled`); `ResumableIsStaged`; `NeverDemoted` |
| `crawl` | two crawls of two events and two markets, one change of the source, four kinds of fault | `CrawlIsWhole` (`TypeOK`, `PagesAreOneWalk`, `NothingMissed`); `ReleaseIsComplete`; `NothingIsTakenBack`; `JobEnds` |
| `scope` | two root runs, four events, three markets, one change, one fault, one retry | `ObservationsAreSound` (`NothingMissed`, `BridgesResolve`, `LatestIsFreshest`, `ObservedByItsRun`); `RegistryIsRight` (`TypeOK`, `AdmittedCrossed`, `FamilyIsWhole`, `NothingElse`, `AdmittedIsServed`); `EligibleStays`; `JobEnds` |
| `capture` | two owners, two scans, two tokens, four instants, six credits, two months | `ScansAreTrue` (`TypeOK`, `NothingMissed`, `PublishedIsExact`, `BundleIsOneCapture`); `BooksArePaid`; `ScansAreGuarded` |
| `execution` | two processes, one plan, a budget shared with others, a late archive hour, one crash | `ArchiveIsTrue` (`TypeOK`, `PlanIsAPartition`, `BooksAreTrue`, `ReleaseIsWhole`, `OnePublisher`); `NeverOverspent`; `LockIsReleased` |
| `minute` | two workers, five tokens in four units, a doubtful and a coarse one, four kinds of fault | `OutcomesAreTrue` (`TypeOK`, `EachTokenOnce`, `SuccessIsComplete`, `RowsAreResults`, `ErrorsAreEarned`); `StaysInBounds` (`IsPaced`, `InflightIsBounded`, `CacheIsRemoved`); `RunEnds` |
| `release` | two scans, three seeds of which two look alike in the mart, two dbt builds, two builders of one version, an exporter, two faults and a third while the first scan stands unverified and no release is exported or edited | `ReleaseIsConsistent` (`ReleaseTypeOK`, `RowsAreOfTheScan`, `ReleaseHasOneSeed`, `ExportIsOneAudit`, `VerificationIsDisclosed`, `GatedRowsAreReleasable`); `ReleasesAreImmutable` |
| `pipeline` | two runs of one of four kinds on one warehouse, two keys, three hours | `TablesRecover` (`TypeOK`, `BuildsRecover`); `KalshiIsStored` (`CollectionIsLanded`, `CheckedHoursAreStored`); `LedgerIsHonest` (`SuccessIsEarned`, `VerdictIsReached`) |

`PROJECT.json` gives for every property of a run a mutant: a plausible slip in the
code (a dropped guard, a missing reset, a swapped order) for which TLC finds the
property violated on the same instance.  A property that survives all of them would
say nothing about the code.

Why the bounds are enough.

- *Hourly sync.*  Two runs are one that writes claims and one that plans from them.
  Two tokens share a group and a queue, or compete from two workers.  With a window
  of two and three or four instants, a plan has a window that fails and one after it,
  and a late row is behind the cursor of the first run.  A queue of one or two items
  makes every `put` block; `FlushRows = 2` makes the writer flush inside a group.
- *Publication.*  Three runs are a predecessor, a publication that reuses from it, and
  one that interferes or follows a failure; retention keeps two snapshots, so three
  make it delete one.  Two windows are the least for which a reused token's window can
  change and change back.
- *Recorder.*  `MaxEvents = 2` bounds refreshes, reconnections and well-formed messages
  together: a token can leave and come back, a message can be followed by a lost one, a
  reconnection or a refresh.  A shard-wide record fills three of four units, so that
  both limits of the queue make workers wait.
- *Polygon.*  Three attempts are one that fails, one that resumes what it left, and one
  beside it.  The provider's limit is two, so that ranges are split, and the manifests
  differ in one market, so that a reseed changes what a scan must hold.
- *Catalog.*  Two crawls are the least for which a complete one must survive another,
  and one change of a listing of four items can fall before, in, or after each pass.
- *Scope.*  Two roots and a re-execution give an old job that runs after a newer one.  With
  one change of the source two inventories differ at most once, so that the failure after
  the last try is not reached by a changing source; two changes exceed what TLC does in minutes.
- *Capture, execution.*  Two owners or processes are the least for which a lease, a lock
  or a budget is contended; the limit of an answer is below what a window holds, so that
  windows split; credits run out in the middle of a window.
- *Minute.*  Two workers and two units in flight, with a batch of two tokens: one unit can
  hang while the other ends, a batch is taken apart, a chunk is halved twice.
- *Release.*  Two scans and two seeds are what a release could mix; the third seed differs
  from the first only in columns no row of the mart carries, so that `ReleaseHasOneSeed`
  must come from the sidecar and its hash for these.  The third fault lets the seed be edited and
  put back around a dbt build that dies: then the sidecar is right and the mart beside it
  is not, which only the comparison of rows finds.
- *Pipeline.*  Two builds overlap, a third child adds no new pair; a window of one hour
  in three makes a row fall out of it.  With a window of one hour no backfill asks for
  less than the window; the theorem about `CheckedHoursAreStored` is for all windows and
  backfills.

Symmetry is declared only in runs without liveness, over sets the model never tells
apart.  Runs, attempts, scans, credits and instants are bounded, so most models stop:
only `publish`, where a window may always change, checks deadlock.  The largest runs
are `capture` (2.3 million distinct states), `pipeline` (2.0 million) and `release` (1.3 million); `crawl` and
`polygon` have about half a million each.

## 5. Fairness

- *Hourly sync.*  Weak fairness for each worker, for the pool's steps, for the writer and
  for the ends of a run: these are operating-system threads, and each of them blocks only
  on the queue, a future or a join.  Nothing is assumed of the clock, of new runs, or of
  faults: `Abort`, `Crash`, failing requests and `FinishWithoutWriter` may never happen.
  `RunEnds` thus says that no thread waits for one that has stopped, with a broken writer
  as with a healthy one.
- *Recorder.*  Weak fairness for the admission of a waiter (an event the consumer sets),
  for the main coroutine, for its deadline (`Stop`), and for workers that only have to
  close.  Workers need not connect or receive anything.
- *Catalog, scope.*  Weak fairness for the one job that holds the warehouse: it is a
  sequential process whose requests time out.  Nothing is assumed of Gamma or of faults.
- *Execution.*  Weak fairness for each process's own steps.  `LockIsReleased` says that the
  directory that stands for the lock does not outlive a process that ends by itself.
- *Minute.*  Weak fairness for the main thread and for the clock, none for the workers,
  which may hang: it is the guardrail's clock that ends the run.
- *Publication, capture, Polygon, release, pipeline.*  None; their properties are safety
  properties.

## 6. What the models brought to light

Nothing in the repository promises the contrary of most of these, so none is stated as
a run that fails; each is a behaviour of the model that its properties had to be stated
around, and a reader of the code may want to know of it.

*Hourly sync.*  If the first window of a token fails, its cursor stays NULL while rows of
later windows are stored; the next plan starts at the newest stored row and the hole is
not fetched again.  A permanent error without contiguous progress moves the cursor to the
newest row seen, past windows that failed (`leapt`).  The token-days to rebuild are in
memory only: after a crash between flush and refresh no later run rebuilds them unless it
gets new rows of these days.

*Recorder.*  A worker interrupted a second time in its `finally` block writes no closing
record.  After a failed append the drain commits later records of streams that have lost
some, which is what `WithinBudget` excepts.  A token that leaves and comes back while its
worker pauses gets a second worker, and so two streams.  A token bucket with a rate below
one would never yield a token; configured rates are at least one.

*Publication.*  A crash between the move of `CURRENT` and the commit leaves rows and audit
torn until the next complete fetch or until the script is run.  The script recognises the
audit to adopt by token, market, row count and window, not by hash, and so can adopt the
audit of a later failed run with equal counts, although its docstring says it is exact; it
has no soccer path and takes no lock.  The futures leg cannot publish a run that reuses a
token: `LoadReused` always refuses.  A match run with a sampled plan is refused by the
comparison of row counts.

*Polygon scan.*  When a seed is replaced before its scan is published and then put back, a
late failure sets the superseded scan's status to failed, and the next start resumes it
with successful chunks but an empty stage: it can never publish.  Hence the hypothesis
`"seed" \notin Overlap`; with `Overlap = {"seed"}` TLC shows it.  Coverage and the counts
of staged rows are checked before the publishing transaction begins.

*Catalog.*  A recorded issue ends its crawl for good.  The crawl a manifest names is the
latest complete one, even if the mart was built before it with the same counts.
"Present in the latest crawl" is relative to the latest completed crawl for one column and
to the latest observation for another.

*Scope.*  A soccer event loses `is_enclosing` when a bridge row of lower ordinal replaces
it.  A seed that an admitted event encloses stays ineligible: `_source_priority` puts the
seed's row before the catalog's, although the docstring at `market_scope_registry.py:340`
says "Admit all enclosing-event markets"; hence the exception of `FamilyIsWhole`.  A run
that dies after its observation and before every checkpoint of the scope is removed leaves
those of older roots; when such a root is then executed again it observes older states than
the latest observation.  This needs two failures; with `Leftovers = TRUE` and two faults TLC
shows it, and the theorems about freshness have the hypothesis `~Leftovers`.  A market that
two events enclose can move from one to the other, by the newest pair or by the events API,
and takes its eligibility with it: then the event it leaves need no longer be admitted, and
the one it comes to need not have crossed the floor, where
`docs/reference/data-contracts.md:321` has an event remain admitted.  The markets stay
admitted all the same; only the statements about events have the hypothesis `OneHome`, that no market but a
seed may be listed by two events.  The
enrichment ledger says "fully checked" of markets Gamma did not return, and the match
minute leg then skips them.  `skip_if_snapshot_refreshed` is not used.

*Capture.*  `match_trades.py:153-172` retries without reserving, where
`docs/guides/recreate-match-order-book-mart.md:11-12` and
`docs/reference/market-portrait.md:36` speak of every request; trade requests are
therefore not part of `BooksArePaid`.  If a provider corrects an item between a crash and
the replay of its window, raw rows and window hashes differ and the scan needs `force`
(`docs/reference/orchestration.md:469-472`).  Trades are published for the latest book
scan, so a forced scan needs new trades.

*Execution.*  A crash leaves the publication lock's directory, which then blocks every
later publication.  A crash between marking a window as split and storing its halves
would lose them (`stage_execution.py:782`, where `strategy-contracts.md:121-122` has
resumption complete); the two statements are a fault of their own, `torn`, which the run
leaves out.  Attempts of failed tries for a seed are missing from `api_attempt_count`, and
the key of the inputs does not contain `window_seconds`.

*Minute fetch.*  A 400 at minute fidelity is retried without fidelity, and the coarse answer
is recorded as a success at fidelity 1.  If the warehouse cannot be opened for the audit,
the cache directory stays.

*Release.*  A build killed between `data_quality` and the mart leaves the mart rows of an
older scan beside a quality row that says ready, and the export's validation compares scan
ids only (`tornMart`).  A failed verification replaces an earlier one that matched.

*dbt, Kalshi.*  The schedule on the hour in effect syncs every second hour
(`configuration.md:172` says hourly), because a token is due only when its interval has
passed.  Overlapping builds clear each other's marks in two orders, and no concurrency
limit in `dagster_instance.yaml` keeps them apart.  A `dbt_select` that is not recognised
builds the hourly model without a mark; the Kalshi incremental model has none.  Two
overlapping Kalshi markets steps drop each other's pending packages; the registry step
registers markets that have not landed.  A full refresh neither recovers nor clears marks.

*Soccer ledger.*  A failed check of the mart is overwritten by the start of `dbt_build` and
by the terminal step, although `docs/reference/orchestration.md:315-321` says that a failed
blocking check marks the run failed.  A step that starts after the terminal one sets the
row back to running for good.  A step that is locked out, killed, or whose check or
snapshot raises leaves no record (`disturbed`).

## 7. The proofs

| Module | Theorem | States |
|---|---|---|
| `OddsSyncProofs` | `TypeCorrect`, `LedgerNeverMovesBack`, `ClaimsBacked`, `CursorIsBackedByRows`, `LedgerTellsTheTruth`, `SuccessIsTrue` | `TypeOK`, `LedgerIsMonotone`, `ClaimsAreBacked`, `VouchedIsStored`, `LedgerIsTrue`, `SuccessMeansStored` |
| `SportsRecorderProofs` | `ResolvedIsFinal`, `EveryTokenIsFollowed`, `CommitsAreWhole` | `ResolvedStaysOut`, `TokensAreFollowed`, `CommittedIsWhole` |
| `FetchProofs` | `CatalogTakesNothingBack`, `CrawlsAreWhole`, `ReleasesAreComplete`; `FetchOutcomesAreTrue`, `FetchStaysInBounds` | `NothingIsTakenBack`, `CrawlIsWhole`, `ReleaseIsComplete`; `OutcomesAreTrue`, `StaysInBounds` |
| `OrderBookCaptureProofs` | `BooksAreAlwaysPaid`, `ScansKeepApart`, `ScansHoldTheSource` | `BooksArePaid`, `ScansAreGuarded`, `ScansAreTrue` |
| `MarketScopeProofs` | `ObservationsAreWhole`, `ObservationsNeverGoBack`, `RegistryHoldsFamilies`, `RegistryStaysRight`, `AdmittedMarketsStay`, `EligibleEventsStay` | parts of `ObservationsAreSound`; `ObservationsAreSound`; parts of `RegistryIsRight`; `RegistryIsRight`; half of `EligibleStays`; `EligibleStays` |
| `StageExecutionProofs` | `CreditsAreNeverOverspent`, `BooksAreRebuiltTrue`, `OneProcessPublishes`, `PlanIsOnePartition`, `ArchivesAreTrue` | `NeverOverspent`, `BooksAreTrue`, `OnePublisher`, `PlanIsAPartition`, `ArchiveIsTrue` |
| `PublicationProofs` | `PublicationIsAtomic`, `PublicationsAgree`, `SnapshotsAreNeverLost`, `PublicationKeepsRows`, `MatchRunsPublish`; `CanonicalIsNeverDemoted`, `OneScanIsCanonical`, `ResumedScansAreStaged`; `ReleasesAreOneStatement`, `ReleasesAreConsistent`, `ReleasesStay` | `AtomicPublication`, `PublicationAgrees`, `SnapshotsAreKept`, `PriorRowsKept`, `FetchedRunPublishes`; `NeverDemoted`, `OneCanonicalScan`, `ResumableIsStaged`; parts of `ReleaseIsConsistent`; `ReleaseIsConsistent`; `ReleasesAreImmutable` |
| `PipelinesProofs` | `TablesAlwaysRecover`, `KalshiKeepsItsWord`, `LedgersAreHonest` | `TablesRecover`, `KalshiIsStored`, `LedgerIsHonest` |

Each proof has the same shape: an inductive invariant, made of named parts; a lemma that
`Init` has it; for every part one lemma per action, or per group of actions that treat it
alike; a lemma for `[Next]_vars`; and the theorem by `PTL`.  TLC checked the inductive
invariants on the instance of their run before they were proved.

*Hourly sync.*  `VouchedIsStored` is not inductive: a ledger row on the queue says nothing
about the rows before it.  `ClaimsAreBacked` adds, from the fetch to the database,
(1) `Ownership`: a token belongs to one thread at a time; (2) `ProgressInOrder`: a worker's
contiguous progress ends where its group is, or a failed window holds it back;
(3) `FetchedIsUnderWay`: what has been fetched without a gap is stored, in the writer's
buffers, on the queue or in the worker's own buffer; (4) `RowsPrecedeClaims`: at every
station a ledger row is behind the rows it speaks for.  3 and 4 hold while the writer is
not broken: a broken one commits nothing more, so what it drops claims nothing.  The
cursor a permanent error leaves behind is excepted (section 6).

`LedgerIsTrue` adds `NoGapBehindCursor` and `FullyCheckedIsComplete`, which speak of all a
token has in the database and not only of what one worker fetched.  `NothingIsPassed`,
inductive together with `ClaimsAreBacked`, says that the rows of a token leave its worker oldest first and keep
that order in its buffer, on the queue and at the writer (`BuffersInOrder`, `RowsInOrder`),
that a ledger row is behind everything its cursor has passed (`ClaimsInOrder`), and that the
database itself has no hole below its newest row (`HistoryReaches`): a plan without a
cursor, and the one that reconciles, start from that row.  The hypothesis is that `Faults`
has neither `"transient"` nor `"permanent"`: a failed window is what opens the hole of
section 6, and requests, flushes and the process may still fail.

`SuccessMeansStored` needs that the sentinel is the last element of the queue
(`SentinelIsLast`) and that a row put on the queue is on it, in the writer's buffers, or
stored with its day marked until the refresh (`DeliveredIsKept`); a run that has ended well
has drained both.  The hypothesis is that `Faults` does not have `"slowfinal"`: when the
join gives up on the final flush, success is reported before the flush is over (section 3.1).

*Recorder.*  `ResolvedIsFinal`: every catalog that a refresh reads is filtered by the
resolved tokens of the moment it is applied.  For `TokensAreFollowed`, `InvT` adds to the
types what a worker may hold back from the queue at each await (`Shape`, `Due`), that workers are
launched in the order of their numbers (`Births`), and that a token is held by a worker
which is not about to give it up (`Followed`, `Held`): the record that unsubscribes it is
already waiting when the catalog may bring it back.  That a refresh has shards for all that is
new (`ShardingExists`) and enough workers unborn rests on the cardinality of `Tokens`.
For `CommittedIsWhole`, `Whole` follows the replays of what is appended, and then of each
queued record in turn (`KeptBy`): they are honest after every record and end where the
workers are (`Agrees`), so every cut that `Consume` may commit is honest.  The step that carries it is
`ReplayDue`: a record that comes after a missed message resets the book of each token that
missed one.  The sum of the queued bytes and the trace of the replays are recursive functions; that
they exist, are unique and extend to a longer queue is proved from the least natural
number at which they would not.

*Catalog.*  That a complete crawl has observed what was listed at its beginning needs to
know, in the middle of a pass, about items that no page shows yet.  `Walk` says that a
crawl's pages of a pass are an increasing walk from the first page without a break, that
the passes come in order, and (`NothingPassed`) that an item which was listed throughout
and which the walk has gone past is in the pages of this pass, in those of the pass
before it, or has been closed meanwhile: the two passes over open and closed items must
not let one that moves between them fall through.  `NothingMissed` follows when the last
pass has ended.  For releases, `MartIsObserved` says that the mart is part of what the
complete crawls observed; when the numbers of rows are then compared and found equal, the
two finite sets are equal.  That argument needs finiteness, which is why the assumption
on the constants asks for a finite set of events and markets.

*Capture.*  A first invariant gives the shapes, ties a running job to its lease and the
counter of a month to the requests it has paid (`BooksArePaid`, `ScansAreGuarded`).  A
second one says that the windows of a scan, complete or still to be fetched, account for
every item that was listed throughout (`Accounts`): a split replaces a window by two that
cover it, a complete one has every such item in the raw table.  The two lemmas that carry
it are that an answer shorter than the limit is whole, and that one which leaves an item
out is as long as the limit (`CutOffIsFull`), so that the code sees it and splits.
Marts and bundle then hold what their scan published.

*Scope.*  That nothing a source marks is missing from an observation rests on the pairs of
partitions: open events are walked before closed ones, so an event that closes while the
first are walked is among the second.  `CheckpointsAreWhole` says so of what is saved and
`WalkIsWhole` of what is in hand.  Freshness is not inductive either: a checkpoint of open
events may hold a state older than an observation, if the event closed since and a later
partition of the same root has it again.  `CheckpointsAreFresh` therefore asks it of a
partition *unless a later one has the event too*, and `CollectedIsFresh` follows the merge
in the order of the partitions.  For the registry, `FamilyIsKept` carries what the refresh
decided through the two prunings, and `LoadIsWhole` carries an eligible market with a
payload through the three statements that serve it.  An eligible row is never pruned, since
an observation saw its event enclose the market (`RowsAreRight`), later observations of the
event have the market still because none goes back (`EverEncloses`), and so the refresh has
it among the active.  With `OneHome` it keeps its event as well.

*Execution.*  Every process's own requests are part of the ledger's count, and reserving
tests and adds in one transaction; `BooksAreTrue` adds that a replayed book is the seed's
book with all changes since, whichever of the archive's objects came late.  `ArchiveIsTrue`
needs the checkpoints in the middle of an acquisition: the windows of the plan, complete,
split or still to be fetched, cover it with nothing between them; an answer that is not full
is whole; and an hour of the archive has been read or is declared missing.  The plan is a
partition because the windows of a token are built from its merged legs.  The hypothesis
excludes the fault `torn`, which the run leaves out for the reason given in section 6.

*Polygon.*  `NeverDemoted` and `OneCanonicalScan` need that an attempt that is not at its
publishing step holds nothing a failure could turn against a published scan.
`ResumableIsStaged` adds that a scan under way is open (`UnderWayIsOpen`), that there is
one of them for a manifest (`OneScan`), and that staged fills are those found by recorded
chunks (`StagedIsFound`).  It holds under the hypothesis `"seed" \notin Overlap`: with it a
seed is replaced only when its scan has been published (section 6).

*Publication.*  All five properties of the run `publish`, among them the refinement of
`MinuteOddsPublication`, follow from one invariant.  That CURRENT, its manifest and the
audit agree is not inductive, because between the move of CURRENT and the commit they do
not agree; `ServedAgrees` says instead that the snapshot a failure would go back to, or
CURRENT when there is no such run, agrees with the audit.  `SnapshotIsMerge` says what the
snapshot built under the lock holds, so that the commit finds rows and hashes as it needs
them; for the tokens it did not fetch, `ReusedIsPublished` says that what a run reuses is
still published when it commits: in the WC2026 legs because nobody else is at work
(`Alone`), in the soccer leg because the loaded rows are compared again under the lock.
`SnapshotsInOrder` places a snapshot behind the directory its run publishes over and
gives the clean-up its two protected ones.  The refinement maps the commit to `Publish`, the
death of a run to `Die` with its own rows if CURRENT had moved and none if not, the
script to `Repair`, and every other step to a stutter.  `MatchRunsPublish` has the
hypothesis that the transaction of the match leg itself does not fail: what it excludes
is that the row count or the merge refuses a complete fetch.

*Minute fetch.*  That a success has every price says nothing of a worker half way through.
`KeepsTrack` does: each price up to where the worker has come is among the token's rows or
in the range of a task that is still to be sent and asks for the token (`Due`); a token
that will be refused has a task left (`Awaits`), so that it cannot end as a success; and a
token that is no longer active is gone or lost.  Halving, isolating, dropping the
fidelity and dropping a token each put a list of tasks in place of one that asks for no
less of those that remain.  `UnitsApart` has every unit at one place at most, in the
results as a whole or not at all, and `NoUnitForgotten` a unit in flight for as long as there are
any to come, so that the stream ends when every token has its result.  For the rate,
`sent * rate + permits * Max(Rates) <= Max(Rates) * rate` is the invariant: a request moves
one from `permits` to `sent`, and the tuner scales both sides, rounding down.

*Release.*  A release cannot see whether the mart is of the scan of the quality row beside
it; `TablesStand` says it is, at every place of a dbt build and after any that did not die
in the last step.  `BuildersKeepApart` says who has the warehouse while a bundle is made of it, so that
neither tables nor verdict change under it.  For exports, `ReleasesStand` and `CopyStands`
hold to the one file nobody edits: the list of checksums, which is copied first and which
the other copies must agree with.  `ReleasesAreConsistent` has a hypothesis on data,
`ValidatorsFollowTheGate`: rows that passed the dbt gate pass the validators of release and
export, however prices round.  It speaks of sums over sequences, which are out of reach, so
`MCPolygonRelease` evaluates it (`ASSUME`) for the fills of the run and every list of one
or two small fills.

*Pipelines.*  One invariant, `Inv`, for the builds, the Kalshi pipeline and the soccer jobs.
That a half written table is marked is not inductive: `Family` ties every child to the place
of its parent, alive or dead, `OneBuild` says that builds are one at a time unless
`overlapped`, save that a new one may wait for the child of a dead run, and `Clean` says
which tables and marks a build has put in order before each of its places.  That the next build completes
needs what a model's filter does not look for again: `HourlySettled` and `CandlesSettled`
say that a row older than the horizon is in the table as it is in its source, which is true
because the lookback covers the latest arrival (`LatencyAssumption`), and `StatesSettled`
that a soccer model which is not half written has no half row, so that comparing revisions finds the
rest.  For Kalshi, `FetchReaches` carries the hours of the window from the reading of the
start, which may precede the market's opening time, to the row of the ledger; `OnePackage`
says whose package is pending.  For the jobs, `JobOK` says that a step at work or over stands on steps that
went well (`Met`), and `Chain` follows the graph: a monitored step begins only when nothing
behind the terminal step has failed and that step is not over, so that `start()`, which sets
the run back to running whatever it said, takes back no verdict.  `NothingLeft` walks the
same graph for the end: a job that can start nothing more has its terminal step over or a
failure behind it.

Assumptions.  The proofs use the assumptions named in the modules
(`SourceAssumption`, `FetchAssumption`, `ReleaseAssumption`, `LagAssumption`, `WindowAssumption`, `CaptureAssumption`,
`BoundsAssumption`, `CatalogAssumption`, `ListedAssumption`, `ListingAssumption`, `LegsAssumption`, `LatencyAssumption`, `TimeAssumption` and so on; `OverlapAssumption` of the publication,
one run of a WC2026 leg at a time, is what `docs/reference/warehouse.md:269-271` asks) and no others; TLC evaluates each on
the instance of a run.  No number of tokens, workers, runs, pages or instants enters.

Only model-checked, and why.

- Liveness (`RunEnds`, `SessionEnds`, `JobEnds`, `LockIsReleased`): it rests on `ENABLED`,
  which the installed prover does not treat.
- What recursion over data computes for every input: the fills of a chain and thus
  `CanonicalIsExact`, the leaves of a split range and thus `PublishedIsTiled`, prices and
  sums in `PolygonRelease`.  The library's induction theorems take operators as
  parameters, which no backend can instantiate; a recursive function over the natural
  numbers can be treated by its least counterexample, as in `SportsRecorderProofs`, but
  these recurse over ranges and sets.

## 8. Not modelled

- *Reference bundle*: a check of files against their manifest, without state.
- *Seed generator and other scripts, tests*: tooling; what they produce is a constant or
  an action of people (`CommitSeed`).
- *User activity*: the capture of order books and trades with other tables; it shares
  nothing with them but the counter.
- *Heartbeats, pruning and alerts* of the soccer ledger; outbound URL checks; stories and
  minute inputs of a stage: output without a decision the rest reads.
- *Transformations of rows*, and dbt views and tables that are rebuilt as a whole: data.
- *DuckDB's own file lock* between readers and writers, except where a dbt child outlives
  its parent (`Pipelines`).
