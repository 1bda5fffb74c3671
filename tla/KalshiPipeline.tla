--------------------------- MODULE KalshiPipeline ---------------------------
(***************************************************************************)
(* The Kalshi WC2026 pipeline, from the trade API to the mart.  A run is a  *)
(* range of four steps: markets (registry rows and a dlt package of what    *)
(* the series list), registry (the same collection again, registry rows     *)
(* only), candles (hourly candlesticks of the markets that are due, then    *)
(* their ledger rows) and dbt (see DbtBuild).  Runs may overlap; they       *)
(* share the warehouse, its lock and dlt's directory of pending packages.   *)
(***************************************************************************)
EXTENDS DbtBuild

CONSTANTS
  Markets,       \* market tickers, without those of excluded suffixes
  Opens,         \* market -> open_time
  Interval,      \* routine_interval_hours
  Backfills      \* what history_backfill_days may be, in hours; 0 is its default

ASSUME OpensAssumption == Opens \in [Markets -> Time] /\ Interval \in Nat
ASSUME BackfillsAssumption == Backfills \subseteq Nat

VARIABLES
  registry,    \* market_scope_registry
  landed,      \* raw markets, with their open_time
  pending,     \* the dlt package that is extracted and not loaded, or NoPackage
  refreshed,   \* registry_refreshed of the latest metrics of sync_kalshi_markets
  ledger,      \* candlestick_sync_ledger: market -> [next], and what it stands for:
               \* the hours up to the end of its latest check
  last,        \* run -> its last step
  collected,   \* run -> markets its collection returned
  fetch        \* run -> [from, hours, end, stamp] of its candlesticks

collection == <<registry, landed, pending, refreshed>>
runs       == <<last, collected, fetch>>
kalshi     == <<collection, ledger, runs>>

NoPackage == [markets |-> {}, is |-> FALSE]
NoFetch   == [from |-> << >>, hours |-> 0, end |-> 0, stamp |-> 0]

(* The steps a run may have: a job's, or what is left of them in a retry.   *)
Steps  == <<"markets", "registry", "candles", "dbt">>
Ranges == {"markets", "registry", "candles", "dbt"} \X {"dbt"}
            \cup {"markets", "registry"} \X {"registry"} \cup {<<"candles", "candles">>}

After(r, s) ==
  IF last[r] = s THEN "done" ELSE Steps[1 + CHOOSE i \in 1..3 : Steps[i] = s]

-----------------------------------------------------------------------------
(* What Kalshi lists: a market from its opening on.                        *)
Listed == {m \in Markets : Opens[m] <= now}

KalshiInit ==
  /\ registry = {} /\ landed = {} /\ pending = NoPackage
  /\ refreshed = FALSE /\ ledger = << >>
  /\ last = [r \in Runs |-> "dbt"] /\ collected = [r \in Runs |-> {}]
  /\ fetch = [r \in Runs |-> NoFetch]

(* A request does not outlast the lookback of the incremental models.       *)
Tick ==
  /\ scope # "soccer" /\ now < MaxTime
  /\ \A r \in Runs : pc[r] = "fetched" => now < fetch[r].stamp + MaxLatency
  /\ now' = now + 1
  /\ UNCHANGED <<scope, files, process, step, history, kalshi>>

(* Runs are numbered in the order they start.                              *)
Start(r) ==
  /\ pc[r] = "idle" /\ \A q \in Runs : q < r => pc[q] # "idle"
  /\ \E range \in (IF scope = "kalshi" THEN Ranges ELSE {<<"dbt", "dbt">>}) :
       /\ pc' = [pc EXCEPT ![r] = range[1]] /\ last' = [last EXCEPT ![r] = range[2]]
  /\ UNCHANGED <<scope, now, files, process, at, full, history, collection, ledger, collected, fetch>>

(* drop_pending_packages.                                                  *)
Pending == NoPackage

(* A package that an earlier run has extracted and not loaded is dropped.   *)
DropPending(r) ==
  /\ pc[r] = "markets"
  /\ pending' = Pending
  /\ overlapped' = (overlapped \/ \E q \in Runs : pc[q] \in {"collect", "extract", "load"})
  /\ Goto(r, "collect", 1)
  /\ UNCHANGED <<scope, now, files, process, broken, registry, landed, refreshed, ledger, runs>>

(* The rows a collection hands over: those of the events whose markets could *)
(* be fetched.                                                             *)
Collections == SUBSET Listed

(* upsert_registry_rows deletes nothing.                                   *)
Registered(found) == registry \cup found

(* refresh_registry_and_collect stores the registry rows at once.           *)
Collect(r, found) ==
  /\ lock = NoRun /\ found \in Collections
  /\ registry' = Registered(found)

CollectMarkets(r) ==
  /\ pc[r] = "collect"
  /\ \E found \in Collections :
       Collect(r, found) /\ collected' = [collected EXCEPT ![r] = found]
  /\ Goto(r, "extract", 1)
  /\ UNCHANGED <<scope, now, files, process, history, landed, pending, refreshed, ledger, last, fetch>>

(* dlt.run: pending packages are loaded first and the new data then is not  *)
(* looked at.                                                              *)
Extract(r) ==
  /\ pc[r] = "extract"
  /\ pending' = IF pending.is THEN pending ELSE [markets |-> collected[r], is |-> TRUE]
  /\ Goto(r, "load", 1)
  /\ UNCHANGED <<scope, now, files, process, history, registry, landed, refreshed, ledger, runs>>

Load(r) ==
  /\ pc[r] = "load" /\ lock = NoRun
  /\ landed' = landed \cup pending.markets /\ pending' = NoPackage
  /\ Goto(r, "metrics", 1)
  /\ UNCHANGED <<scope, now, files, process, history, registry, refreshed, ledger, runs>>

SaveMetrics(r) ==
  /\ pc[r] = "metrics" /\ lock = NoRun
  /\ refreshed' = TRUE /\ collected' = [collected EXCEPT ![r] = {}]
  /\ Goto(r, After(r, "markets"), 1)
  /\ UNCHANGED <<scope, now, files, process, history, registry, landed, pending, ledger, last, fetch>>

(* The latest metrics of a markets task name the scope as refreshed.       *)
SnapshotIsRefreshed == refreshed

(* The registry step collects again, as the shipped jobs configure it, or is *)
(* skipped after a markets step.  Nothing is landed.                        *)
RefreshRegistry(r) ==
  /\ pc[r] = "registry" /\ lock = NoRun
  /\ \/ \E found \in Collections : Collect(r, found)
     \/ SnapshotIsRefreshed /\ UNCHANGED registry
  /\ Goto(r, After(r, "registry"), 1)
  /\ UNCHANGED <<scope, now, files, process, history, landed, pending, refreshed, ledger, runs>>

(* Its failure is written to the metrics of the markets task.              *)
RegistryFails(r) ==
  /\ pc[r] = "registry"
  /\ refreshed' \in {FALSE, refreshed}
  /\ Goto(r, "failed", 1)
  /\ UNCHANGED <<scope, now, files, process, history, registry, landed, pending, ledger, runs>>

-----------------------------------------------------------------------------
(* get_registry_markets_for_sync: due by the ledger, or all if forced.       *)
DueMarkets == {m \in registry : m \in DOMAIN ledger => ledger[m].next <= now}

(* A backfill may ask for less than the window, never for more.             *)
Trailing(backfill) == IF 0 < backfill /\ backfill < Window THEN backfill ELSE Window

(* From the first trailing hour, or from the market's opening if it has      *)
(* landed.                                                                 *)
StartOf(m, hours) == IF m \in landed THEN Max({now - hours, Opens[m]}) ELSE now - hours

ReadDue(r) ==
  /\ pc[r] = "candles" /\ lock = NoRun
  /\ \E due \in {DueMarkets, registry}, backfill \in Backfills :
       LET hours == Trailing(backfill)
       IN  fetch' = [fetch EXCEPT ![r] =
             [from |-> [m \in due |-> StartOf(m, hours)], hours |-> hours, end |-> now, stamp |-> 0]]
  /\ Goto(r, "fetching", 1)
  /\ UNCHANGED <<scope, now, files, process, history, collection, ledger, last, collected>>

(* map_bounded drops the markets whose request failed.                      *)
Answered(r) == SUBSET DOMAIN fetch[r].from

FetchCandles(r) ==
  /\ pc[r] = "fetching"
  /\ \E got \in Answered(r) :
       fetch' = [fetch EXCEPT ![r].from = Restrict(fetch[r].from, got), ![r].stamp = now]
  /\ Goto(r, "fetched", 1)
  /\ UNCHANGED <<scope, now, files, process, history, collection, ledger, last, collected>>

(* Candles that end within what was asked for; an hour before the market     *)
(* opened has none.                                                         *)
Hours(m, from, end) == {h \in Time : from <= h + 1 /\ h + 1 <= end /\ Opens[m] <= h}

SaveCandles(r) ==
  /\ pc[r] = "fetched" /\ lock = NoRun
  /\ LET got == UNION {{m} \X Hours(m, fetch[r].from[m], fetch[r].end) : m \in DOMAIN fetch[r].from}
     IN  raw' = Merge([k \in got |-> fetch[r].stamp], raw)
  /\ Goto(r, "saved", 1)
  /\ UNCHANGED <<scope, now, tables, marks, process, history, kalshi>>

(* Mutant of Checked: every market that was due. *)
CheckedWhenDue(r) == {m \in registry : m \in DOMAIN ledger => ledger[m].next <= now}

(* The markets whose request succeeded, with or without candles.           *)
Checked(r) == DOMAIN fetch[r].from

WriteLedger(r) ==
  /\ pc[r] = "saved" /\ lock = NoRun
  /\ ledger' = Merge([m \in Checked(r) |->
       [next |-> now + Interval, hours |-> fetch[r].hours, end |-> fetch[r].end]], ledger)
  /\ fetch' = [fetch EXCEPT ![r] = NoFetch]
  /\ Goto(r, After(r, "candles"), 1)
  /\ UNCHANGED <<scope, now, files, process, history, collection, last, collected>>

KalshiStep(r) ==
  \/ DropPending(r) \/ CollectMarkets(r) \/ Extract(r) \/ Load(r) \/ SaveMetrics(r)
  \/ RefreshRegistry(r) \/ RegistryFails(r)
  \/ ReadDue(r) \/ FetchCandles(r) \/ SaveCandles(r) \/ WriteLedger(r)

(* A run that is over takes what it has in memory with it.                 *)
RunEnds(r) ==
  /\ LockedOut(r) \/ RunDies(r)
  /\ collected' = [collected EXCEPT ![r] = {}] /\ fetch' = [fetch EXCEPT ![r] = NoFetch]
  /\ UNCHANGED <<collection, ledger, last>>

RunStep(r) ==
  KalshiStep(r) \/ RunEnds(r) \/ ((BuildStep(r) \/ ChildStep(r)) /\ UNCHANGED kalshi)

KalshiNext ==
  /\ scope # "jobs"
  /\ \/ Tick
     \/ \E k \in Keys : (Land(k) \/ Revise(k)) /\ UNCHANGED kalshi
     \/ \E r \in Runs : Start(r) \/ RunStep(r)

-----------------------------------------------------------------------------
KalshiTypeOK ==
  /\ registry \subseteq Listed
  /\ landed \subseteq registry /\ pending.markets \subseteq registry
  /\ refreshed \in BOOLEAN
  /\ DOMAIN ledger \subseteq registry
  /\ \A m \in DOMAIN ledger : ledger[m].next \in Nat /\ ledger[m].end \in Time
  /\ \A r \in Runs : /\ pc[r] \in {"collect", "extract", "load", "metrics", "fetching", "fetched", "saved"}
                          \cup Range(Steps) \cup Ended \/ Building(r)
                     /\ collected[r] \subseteq registry
                     /\ DOMAIN fetch[r].from \subseteq registry

(* A markets step that comes to its end has landed what it has collected,   *)
(* whatever package a run that failed has left behind; two markets steps at *)
(* a time may drop each other's package.                                   *)
CollectionIsLanded ==
  ~overlapped => \A r \in Runs : pc[r] = "metrics" => collected[r] \subseteq landed

(* The ledger of a market vouches for its candles: all trailing hours that   *)
(* its latest check was to cover (the window, or less in a short backfill)  *)
(* are stored, whatever requests have failed, wherever a    *)
(* run has died, and although a market may be registered and checked before *)
(* its opening time has landed.                                             *)
CheckedHoursAreStored ==
  \A m \in DOMAIN ledger :
    \A h \in Hours(m, ledger[m].end - ledger[m].hours, ledger[m].end) : <<m, h>> \in DOMAIN raw

(* What a run says it has collected or checked is in the raw tables.        *)
KalshiIsStored == CollectionIsLanded /\ CheckedHoursAreStored
=============================================================================
