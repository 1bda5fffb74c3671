------------------------------ MODULE DbtBuild ------------------------------
(***************************************************************************)
(* dbt builds of the incremental models.  A build is a child process that  *)
(* holds the exclusive lock on the DuckDB file from its first to its last   *)
(* model and rewrites each model's dirty keys (delete+insert).  Its parent,*)
(* a Dagster step, marks the guarded models in scrape_metadata before it    *)
(* starts the child, clears the marks after a clean exit, and rebuilds what *)
(* it finds marked.  Parent and child die separately: an orphaned child    *)
(* keeps the lock.                                                         *)
(*                                                                         *)
(* A row is what the model compares: its ingestion time or its source      *)
(* revision, and whether all of the key's rows are there.                   *)
(***************************************************************************)
EXTENDS Integers, FiniteSets, Sequences, Functions, FiniteSetsExt

CONSTANTS
  Runs,          \* Dagster runs, and the bound on their number
  Keys,          \* token-hours of the WC2026 scope, markets of the soccer scope
  Scopes,        \* the scopes to look at
  MaxTime,       \* bound: the clock, in hours
  Lookback,      \* hours an incremental model looks back behind its newest row
  MaxLatency,    \* hours a row may take from its time stamp to the warehouse
  Window,        \* hourly_window_hours of the Kalshi policy
  Revisions      \* source revisions of a soccer market

Time == 0..MaxTime

ASSUME ScopeAssumption   == Scopes \subseteq {"wc2026", "soccer", "kalshi", "jobs"}
ASSUME LatencyAssumption == {MaxLatency, Lookback} \subseteq Nat /\ MaxLatency <= Lookback
ASSUME RunsAssumption    == Runs \subseteq Nat \ {0}
ASSUME TimeAssumption    == {MaxTime, Window} \subseteq Nat /\ Revisions \subseteq Nat

VARIABLES
  scope,       \* the scope whose runs these are; "jobs" are those of SoccerMonitoring
  now,         \* the clock
  raw,         \* the raw rows: key -> time stamp or revision
  tables,      \* model -> key -> row
  marks,       \* the models marked as in progress in scrape_metadata
  lock,        \* the run whose child holds the DuckDB file, or NoRun
  child,       \* run -> what its dbt child has left to do, or NoChild
  pc,          \* where each run is
  at,          \* run -> index of the model it checks, marks or clears
  full,        \* run -> full_refresh of its config
  overlapped,  \* history variable: two live runs have built at a time
  broken       \* history variable: models left half written by a child

files   == <<raw, tables, marks>>
process == <<lock, child>>
step    == <<pc, at, full>>
history == <<overlapped, broken>>

NoRun   == 0
NoChild == [todo |-> << >>, full |-> FALSE, for |-> "nothing"]
Row     == [stamp: Nat, whole: BOOLEAN]

-----------------------------------------------------------------------------
(* Models in dependency order, and those of them that are marked.          *)
Models  == CASE scope = "wc2026" -> <<"hourly">>
             [] scope \in {"soccer", "jobs"} -> <<"observed", "dense">>
             [] scope = "kalshi" -> <<"candles">>
Guarded == IF scope = "kalshi" THEN << >> ELSE Models

(* f, and g where f has no value.                                          *)
Merge(f, g) == [x \in DOMAIN f \cup DOMAIN g |-> IF x \in DOMAIN f THEN f[x] ELSE g[x]]

(* f with the value v at x.                                                *)
Put(f, x, v) == [y \in DOMAIN f \cup {x} |-> IF y = x THEN v ELSE f[y]]

Whole(f) == [k \in DOMAIN f |-> [stamp |-> f[k], whole |-> TRUE]]

(* What a model selects from.  The Kalshi model leaves out candles that are *)
(* older than the policy's window; its keys are pairs of market and hour.   *)
SourceOf(m, tabs) ==
  CASE m \in {"hourly", "observed"} -> Whole(raw)
    [] m = "candles" -> Whole(Restrict(raw, {k \in DOMAIN raw : k[2] >= now - Window}))
    [] m = "dense"   -> tabs["observed"]

Newest(table) == Max({0} \cup {table[k].stamp : k \in DOMAIN table})

(* Mutant of Horizon: rows that land late are not looked for. *)
HorizonOfNewest(table) == Newest(table)

Horizon(table) == Newest(table) - Lookback

(* The keys an incremental build rewrites: by ingestion time for the hourly *)
(* models, by source revision for the soccer models.                       *)
Dirty(m, tabs) ==
  LET source == SourceOf(m, tabs)
      table  == tabs[m]
  IN  IF m \in {"hourly", "candles"}
      THEN {k \in DOMAIN source : source[k].stamp >= Horizon(table)}
      ELSE {k \in DOMAIN source : k \notin DOMAIN table \/ table[k].stamp # source[k].stamp}

(* Keys the post hook leaves in the table.                                  *)
Kept(m, tabs) ==
  IF m = "hourly" THEN DOMAIN tabs[m] \cup DOMAIN SourceOf(m, tabs)
  ELSE IF m = "candles" THEN {k \in DOMAIN tabs[m] \cup DOMAIN raw : k[2] >= now - Window}
  ELSE DOMAIN SourceOf(m, tabs)

Incremental(m, tabs) ==
  LET built == Merge(Restrict(SourceOf(m, tabs), Dirty(m, tabs)), tabs[m])
  IN  Restrict(built, Kept(m, tabs) \cap DOMAIN built)

Built(m, tabs, isFull) == IF isFull THEN SourceOf(m, tabs) ELSE Incremental(m, tabs)

(* A row of a key some of whose rows are there.                             *)
Half(row, w) == [row EXCEPT !.whole = @ /\ w]

(* What is left of a model when its dirty keys are deleted and some of them *)
(* inserted again, whole or not.                                           *)
Left(m, S, w) ==
  Merge([k \in S |-> Half(SourceOf(m, tables)[k], w)],
        Restrict(tables[m], DOMAIN tables[m] \ Dirty(m, tables)))

(* What a child that dies may leave of an incremental model; only a market  *)
(* has more rows than one.                                                 *)
Parts == IF scope = "soccer" THEN {TRUE, FALSE} ELSE {TRUE}

Remains(m) == {Left(m, S, w) : S \in SUBSET Dirty(m, tables), w \in Parts}

-----------------------------------------------------------------------------
BuildInit ==
  /\ scope \in Scopes /\ now = 0 /\ raw = << >>
  /\ tables = [m \in {"hourly", "observed", "dense", "candles"} |-> << >>]
  /\ marks = {} /\ lock = NoRun /\ child = [r \in Runs |-> NoChild]
  /\ pc = [r \in Runs |-> "idle"] /\ at = [r \in Runs |-> 1]
  /\ full = [r \in Runs |-> FALSE] /\ overlapped = FALSE /\ broken = {}

Goto(r, place, index) ==
  /\ pc' = [pc EXCEPT ![r] = place] /\ at' = [at EXCEPT ![r] = index]
  /\ UNCHANGED full

Ended     == {"idle", "done", "failed"}
Live(r)   == pc[r] \notin Ended
Building(r) == pc[r] \in {"recover", "relaunch", "recovering", "unmark", "mark", "launch",
                          "building", "clear"}

(* Hourly syncs and the soccer publication, which are modelled elsewhere:   *)
(* a row lands some time after its stamp, the newest stamp of a token-hour  *)
(* counts; a market's state is revised or withdrawn.                       *)
Land(k) ==
  /\ scope = "wc2026" /\ lock = NoRun
  /\ \E s \in {t \in Time : now - MaxLatency <= t /\ t <= now} :
       /\ k \in DOMAIN raw => s > raw[k]
       /\ raw' = Put(raw, k, s)
  /\ UNCHANGED <<scope, now, tables, marks, process, step, history>>

Revise(k) ==
  /\ scope = "soccer" /\ lock = NoRun
  /\ \/ \E v \in Revisions : raw' = Put(raw, k, v)
     \/ k \in DOMAIN raw /\ raw' = Restrict(raw, DOMAIN raw \ {k})
  /\ UNCHANGED <<scope, now, tables, marks, process, step, history>>

(* The dbt step of a run: a full refresh neither recovers nor marks.        *)
BeginBuild(r) ==
  /\ pc[r] = "dbt"
  /\ \E isFull \in BOOLEAN :
       /\ full' = [full EXCEPT ![r] = isFull]
       /\ pc' = [pc EXCEPT ![r] = IF isFull THEN "launch" ELSE "recover"]
  /\ at' = [at EXCEPT ![r] = 1]
  /\ overlapped' = (overlapped \/ \E q \in Runs : Building(q))
  /\ UNCHANGED <<scope, now, files, process, broken>>

(* dbt_incremental_recovery_needed, model after model.                     *)
CheckMark(r) ==
  /\ pc[r] = "recover" /\ lock = NoRun
  /\ IF at[r] > Len(Guarded) THEN Goto(r, "mark", 1)
     ELSE IF Guarded[at[r]] \in marks THEN Goto(r, "relaunch", at[r])
     ELSE Goto(r, "recover", at[r] + 1)
  /\ UNCHANGED <<scope, now, files, process, history>>

(* The recovered model is cleared as soon as its full refresh is done.     *)
Unmark(r) ==
  /\ pc[r] = "unmark" /\ lock = NoRun
  /\ marks' = marks \ {Guarded[at[r]]} /\ Goto(r, "recover", at[r] + 1)
  /\ UNCHANGED <<scope, now, raw, tables, process, history>>

Mark(r) ==
  /\ pc[r] = "mark" /\ lock = NoRun
  /\ IF at[r] > Len(Guarded) THEN Goto(r, "launch", 1) /\ UNCHANGED marks
     ELSE marks' = marks \cup {Guarded[at[r]]} /\ Goto(r, "mark", at[r] + 1)
  /\ UNCHANGED <<scope, now, raw, tables, process, history>>

(* The child opens the file and holds it.                                  *)
Launch(r) ==
  /\ pc[r] \in {"relaunch", "launch"} /\ lock = NoRun /\ child[r] = NoChild
  /\ lock' = r
  /\ child' = [child EXCEPT ![r] =
       IF pc[r] = "relaunch" THEN [todo |-> <<Guarded[at[r]]>>, full |-> TRUE, for |-> "recovery"]
       ELSE [todo |-> Models, full |-> full[r], for |-> "build"]]
  /\ Goto(r, IF pc[r] = "relaunch" THEN "recovering" ELSE "building", at[r])
  /\ UNCHANGED <<scope, now, files, history>>

(* One model of the child is committed.                                    *)
BuildModel(r) ==
  /\ child[r].todo # << >>
  /\ LET m == Head(child[r].todo)
     IN  /\ tables' = [tables EXCEPT ![m] = Built(m, tables, child[r].full)]
         /\ broken' = IF child[r].full THEN broken \ {m} ELSE broken
  /\ child' = [child EXCEPT ![r].todo = Tail(@)]
  /\ UNCHANGED <<scope, now, raw, marks, lock, step, overlapped>>

(* What a parent does when its child has exited with this code.            *)
Goes(r, place) == IF Live(r) THEN [pc EXCEPT ![r] = place] ELSE pc

ChildExits(r) ==
  /\ child[r] # NoChild /\ child[r].todo = << >>
  /\ child' = [child EXCEPT ![r] = NoChild] /\ lock' = NoRun
  /\ pc' = Goes(r, IF child[r].for = "recovery" THEN "unmark"
                   ELSE IF full[r] THEN "done" ELSE "clear")
  /\ at' = IF Live(r) /\ child[r].for = "build" THEN [at EXCEPT ![r] = 1] ELSE at
  /\ UNCHANGED <<scope, now, files, full, history>>

FailedBuild(r) == "failed"

(* A model or a test fails, the last one's too, or the child is killed: by   *)
(* its parent's guardrail or cancellation, or together with an orphan's     *)
(* terminal.                                                               *)
ChildDies(r) ==
  /\ child[r] # NoChild
  /\ LET m == Head(child[r].todo)
     IN  \/ UNCHANGED <<tables, broken>>
         \/ /\ child[r].todo # << >> /\ ~child[r].full
            /\ \E table \in Remains(m) : tables' = [tables EXCEPT ![m] = table]
            /\ broken' = broken \cup {m}
  /\ child' = [child EXCEPT ![r] = NoChild] /\ lock' = NoRun
  /\ pc' = Goes(r, FailedBuild(r)) /\ at' = [at EXCEPT ![r] = 1]
  /\ UNCHANGED <<scope, now, raw, marks, full, overlapped>>

Clear(r) ==
  /\ pc[r] = "clear" /\ lock = NoRun
  /\ IF at[r] > Len(Guarded) THEN Goto(r, "done", 1) /\ UNCHANGED marks
     ELSE marks' = marks \ {Guarded[at[r]]} /\ Goto(r, "clear", at[r] + 1)
  /\ UNCHANGED <<scope, now, raw, tables, process, history>>

(* A step that needs the warehouse gives up after its last attempt; dbt has *)
(* a single one.                                                           *)
NeedsWarehouse(r) ==
  Live(r) /\ pc[r] \notin {"dbt", "recovering", "building"}

LockedOut(r) ==
  /\ NeedsWarehouse(r) /\ lock # NoRun
  /\ Goto(r, "failed", 1)
  /\ UNCHANGED <<scope, now, files, process, history>>

(* The run's process is killed, or its 60 seconds of waiting for a child    *)
(* that ignores both signals are over: the child goes on without it.        *)
RunDies(r) ==
  /\ Live(r) /\ Goto(r, "failed", 1)
  /\ UNCHANGED <<scope, now, files, process, history>>

BuildStep(r) ==
  \/ BeginBuild(r) \/ CheckMark(r) \/ Unmark(r) \/ Mark(r) \/ Launch(r) \/ Clear(r)

ChildStep(r) == BuildModel(r) \/ ChildExits(r) \/ ChildDies(r)

-----------------------------------------------------------------------------
(* The tables after one more build of all models.                          *)
NextTables(isFull) ==
  LET first  == [tables EXCEPT ![Models[1]] = Built(Models[1], tables, isFull)]
  IN  IF Len(Models) = 1 THEN first
      ELSE [first EXCEPT ![Models[2]] = Built(Models[2], first, isFull)]

BuildTypeOK ==
  /\ scope \in Scopes /\ now \in Time
  /\ \A m \in DOMAIN tables : \A k \in DOMAIN tables[m] : tables[m][k] \in Row
  /\ marks \subseteq Range(Guarded) /\ broken \subseteq Range(Models)
  /\ lock \in Runs \cup {NoRun}
  /\ \A r \in Runs : child[r] # NoChild <=> lock = r
  /\ \A r \in Runs : at[r] \in 1..(Len(Models) + 1) /\ full[r] \in BOOLEAN

(* An incremental build never settles for less than a full refresh would    *)
(* give: what an interrupted build has left behind is either found again by *)
(* the model's own filter or marked until it is rebuilt.  Builds that       *)
(* overlap clear each other's marks, and the Kalshi model has none.         *)
NextBuildCompletes ==
  ~overlapped /\ marks = {} /\ (scope = "kalshi" => broken = {})
    /\ (\A r \in Runs : child[r] = NoChild)
    => NextTables(FALSE) = NextTables(TRUE)

(* A child never leaves a table half written without the mark that has the  *)
(* next build start it afresh, orphans and killed parents included.         *)
DamageIsMarked == ~overlapped => broken \cap Range(Guarded) \subseteq marks

(* Whatever becomes of a build, the next one makes the tables whole.        *)
BuildsRecover == NextBuildCompletes /\ DamageIsMarked
=============================================================================
