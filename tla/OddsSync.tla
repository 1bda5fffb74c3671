------------------------------ MODULE OddsSync ------------------------------
(***************************************************************************)
(* The hourly Polymarket odds sync: a main thread plans the tokens that    *)
(* are due and hands them in groups to worker threads; a worker walks the  *)
(* fetch windows of its group and puts rows and then ledger rows on one    *)
(* bounded queue; a single writer thread buffers what it takes and commits *)
(* it to DuckDB.  The database survives a crash, everything else does not. *)
(*                                                                         *)
(* One unit of time is one scheduling period: the clock moves only between *)
(* runs, so that a run's now_ts is the clock.  Prices are left out; a row  *)
(* is a token and a timestamp.                                             *)
(***************************************************************************)
EXTENDS Integers, Sequences, FiniteSets

CONSTANTS
  Tokens,          \* CLOB token ids of the catalog
  Slots,           \* in-flight group futures (max_inflight of the pool)
  Source,          \* [Tokens -> SUBSET Nat]: the timestamps the API has rows for
  MaxTime,         \* bound: last instant of the clock
  MaxRuns,         \* bound: number of runs
  WindowSize,      \* window_seconds
  Overlap,         \* overlap_minutes
  Recent,          \* skip_recent_minutes
  MaxLag,          \* how late the API may start to serve a row
  Reconcile,       \* reconcile_ledger option
  GroupSize,       \* batch_group_size
  ChunkRows,       \* writer_chunk_rows
  FlushRows,       \* writer_flush_rows
  QueueCap,        \* maxsize of the write queue
  RoutineInterval, \* routine_interval_hours
  EmptyRetryBase,  \* empty_retry_base_hours
  EmptyRetryMax,   \* empty_retry_max_hours
  ErrorRetry,      \* error_retry_minutes
  DayLength,       \* instants per UTC day
  Faults           \* what may go wrong, a subset of FaultKinds

(* "transient" and "permanent" are outcomes of one token's fetch; "request" *)
(* is an exception that ends a worker's group; "flush" a failing database   *)
(* transaction; "noprogress" the guardrail's hard timeout; "slowfinal" a    *)
(* final flush that outlives the main thread's join; "crash" the death of   *)
(* the process.                                                             *)
FaultKinds ==
  {"transient", "permanent", "request", "flush", "noprogress", "slowfinal", "crash"}

Time   == 0..MaxTime
NoTime == -1                       \* SQL NULL in a timestamp column
Rows   == Tokens \X Time

ASSUME SourceAssumption  == Source \in [Tokens -> SUBSET Time]
ASSUME BoundsAssumption  == MaxTime \in Nat /\ MaxRuns \in Nat
ASSUME WindowAssumption  == WindowSize \in Nat \ {0}
ASSUME LagAssumption     == /\ Overlap \in Nat /\ MaxLag \in Nat
                            /\ MaxLag <= Overlap
ASSUME BatchAssumption   == /\ GroupSize \in Nat \ {0} /\ ChunkRows \in Nat \ {0}
                            /\ FlushRows \in Nat \ {0} /\ QueueCap \in Nat \ {0}
ASSUME PlanAssumption    == Recent \in Nat /\ Reconcile \in BOOLEAN
ASSUME RetryAssumption   == {RoutineInterval, EmptyRetryBase, EmptyRetryMax, ErrorRetry} \subseteq Nat
ASSUME DayAssumption     == DayLength \in Nat \ {0}
ASSUME FaultsAssumption  == Faults \subseteq FaultKinds

VARIABLES
  now, runs, closed,               \* the clock, runs started, closed tokens
  history, ledger, skips, daily,   \* the database
  vouched, leapt,                  \* history variables: see RunInterval
  phase, outcome, todo, report,    \* main thread
  task, prog,                      \* workers: one group per slot, one plan per token
  queue,                           \* write_queue
  wpc, wOdds, wStates, wSkips,     \* writer thread and its WriterBuffers
  dirty, writerFailed,
  delivered                        \* history variable: rows put on the queue by this run

world    == <<now, closed>>
database == <<history, ledger, skips, daily, vouched, leapt>>
main     == <<runs, phase, outcome, todo, report>>
workers  == <<task, prog>>
writer   == <<wpc, wOdds, wStates, wSkips, dirty, writerFailed>>
vars == <<world, database, main, workers, queue, writer, delivered>>

Max2(a, b) == IF a >= b THEN a ELSE b
Min2(a, b) == IF a <= b THEN a ELSE b
MaxOf(S)   == IF S = {} THEN NoTime ELSE CHOOSE x \in S : \A y \in S : y <= x
DayOf(ts)  == ts \div DayLength

-----------------------------------------------------------------------------
(* Planning.                                                               *)

(* The cursor a plan starts from: the ledger's, else the newest row stored; *)
(* with reconcile_ledger the newest row wins when it is ahead.              *)
LatestTimestamp(t) ==
  LET newest == MaxOf(history[t])
  IN  IF ledger[t].cursor = NoTime \/ (Reconcile /\ newest > ledger[t].cursor)
      THEN newest ELSE ledger[t].cursor

(* Mutant of StartOf: no overlap. *)
StartAtCursor(t) == Max2(0, LatestTimestamp(t))

StartOf(t) ==
  IF LatestTimestamp(t) = NoTime THEN 0 ELSE Max2(0, LatestTimestamp(t) - Overlap)

IsDue(t) ==
  /\ t \notin skips
  /\ ~(t \in closed /\ ledger[t].fully)
  /\ ledger[t].next <= now          \* NoTime, the NULL, included

(* build_single_token_plan of a routine run returns a plan for the token.  *)
IsPlanned(t) ==
  /\ IsDue(t)
  /\ LatestTimestamp(t) # NoTime => now - LatestTimestamp(t) >= Recent
  /\ StartOf(t) < now

(* A token's plan, and what a worker knows of it after no window at all.   *)
NewProgress(t) ==
  [start |-> StartOf(t), closed |-> t \in closed, streak |-> ledger[t].streak,
   rows |-> FALSE, transient |-> FALSE, permanent |-> FALSE, contigOk |-> TRUE,
   maxSeen |-> StartOf(t), maxContig |-> StartOf(t), contigUntil |-> StartOf(t)]

IdleProgress ==
  [start |-> 0, closed |-> FALSE, streak |-> 0,
   rows |-> FALSE, transient |-> FALSE, permanent |-> FALSE, contigOk |-> TRUE,
   maxSeen |-> 0, maxContig |-> 0, contigUntil |-> 0]

FreeTask == [pc |-> "free", members |-> {}, at |-> 0, buf |-> {}]

-----------------------------------------------------------------------------
(* The ledger row that closes a token's plan.                              *)

(* Mutant of CursorOf: failed windows do not hold it back. *)
CursorIgnoringGaps(p) == IF p.rows THEN p.maxSeen ELSE now

(* The cursor of _finalize_token_result.                                   *)
CursorOf(p) ==
  IF p.permanent \/ p.transient
  THEN IF p.maxContig > p.start THEN p.maxContig
       ELSE IF ~p.rows /\ p.contigUntil > p.start THEN p.contigUntil
       ELSE IF p.permanent /\ p.rows THEN p.maxSeen ELSE NoTime
  ELSE IF p.rows THEN p.maxSeen ELSE now

(* The cursor is the newest row seen although windows before it may be     *)
(* missing: the third branch above.                                        *)
LeapsToMaxSeen(p) == p.permanent /\ p.rows /\ p.maxContig <= p.start

EmptyRetryDelay(streak) ==
  LET delay == EmptyRetryBase * 2 ^ Max2(0, streak - 1)
  IN  IF EmptyRetryMax > 0 THEN Min2(delay, EmptyRetryMax) ELSE delay

FullyCheckedBy(p) == p.closed /\ ~p.permanent /\ ~p.transient

StreakAfter(p) ==
  IF p.permanent \/ p.transient \/ p.rows THEN 0 ELSE p.streak + 1

NextCheckAfter(p) ==
  CASE p.permanent       -> NoTime
    [] p.transient       -> now + ErrorRetry
    [] FullyCheckedBy(p) -> NoTime
    [] p.rows            -> now + RoutineInterval
    [] OTHER             -> now + EmptyRetryDelay(StreakAfter(p))

(* from and leap are not in the code's row: they say which instants the    *)
(* cursor speaks for.                                                      *)
StateRow(t) ==
  [token |-> t, cursor |-> CursorOf(prog[t]), next |-> NextCheckAfter(prog[t]),
   streak |-> StreakAfter(prog[t]), fully |-> FullyCheckedBy(prog[t]),
   from |-> prog[t].start, leap |-> LeapsToMaxSeen(prog[t])]

(* The row the main thread writes for every token of a group that failed.  *)
RetryRow(t) ==
  [token |-> t, cursor |-> NoTime, next |-> now + ErrorRetry, streak |-> 0,
   fully |-> FALSE, from |-> prog[t].start, leap |-> FALSE]

-----------------------------------------------------------------------------
(* The queue.                                                              *)

Item(op, rows, states, skipped) ==
  [op |-> op, rows |-> rows, states |-> states, skipped |-> skipped]

OddsItem(rows)     == Item("odds", rows, {}, {})
StateItem(states)  == Item("token_state", {}, states, {})
SkipItem(skipped)  == Item("skipped_tokens", {}, {}, skipped)
Sentinel           == Item("none", {}, {}, {})

(* Mutant of HasRoom: off by one. *)
HasRoomForOneMore == Len(queue) <= QueueCap

HasRoom == Len(queue) < QueueCap

Put(item) == HasRoom /\ queue' = Append(queue, item)

-----------------------------------------------------------------------------
(* The database.                                                           *)

TimesOf(t, rows) == {row[2] : row \in {r \in rows : r[1] = t}}

(* Mutant of Upsert: the new row replaces the old one. *)
Replace(old, row) ==
  [cursor |-> row.cursor, next |-> row.next, streak |-> row.streak, fully |-> row.fully]

(* sql_upsert_ledger_state: the cursor never moves back, fully_checked      *)
(* never resets, a NULL next_check_at keeps the old one.                    *)
Upsert(old, row) ==
  [cursor |-> Max2(old.cursor, row.cursor),
   next   |-> IF row.fully THEN NoTime ELSE IF row.next # NoTime THEN row.next ELSE old.next,
   streak |-> IF row.fully THEN 0 ELSE row.streak,
   fully  |-> old.fully \/ row.fully]

(* The instants a ledger row speaks for: upstream rows older than MaxLag    *)
(* were there to be fetched.                                                *)
RunInterval(row) == row.from..(row.cursor - MaxLag)

RowsOf(t, states) == {row \in states : row.token = t}

(* The writer's transaction: rows, ledger rows and skips, or none of them.  *)
(* A plan ends in one ledger row and a token is planned once in a run, so   *)
(* that the map of flush_writer_buffers has one row per token.              *)
Commit(rows, states, skipped) ==
  /\ history' = [t \in Tokens |-> history[t] \cup TimesOf(t, rows)]
  /\ ledger'  = [t \in Tokens |->
                   IF RowsOf(t, states) = {} THEN ledger[t]
                   ELSE Upsert(ledger[t], CHOOSE row \in RowsOf(t, states) : TRUE)]
  /\ skips'   = skips \cup skipped
  /\ vouched' = [t \in Tokens |-> vouched[t] \cup
                   UNION {RunInterval(row) : row \in {r \in RowsOf(t, states) : ~r.leap}}]
  /\ leapt'   = [t \in Tokens |-> leapt[t] \cup
                   UNION {RunInterval(row) : row \in {r \in RowsOf(t, states) : r.leap}}]

(* refresh_token_odds_daily: the token-days are rebuilt from the rows now   *)
(* stored.  daily[t] holds the timestamps the daily rows were built from.   *)
Refreshed(keys) ==
  [t \in Tokens |->
     LET days == {key[2] : key \in {k \in keys : k[1] = t}}
     IN  {ts \in daily[t] : DayOf(ts) \notin days}
           \cup {ts \in history[t] : DayOf(ts) \in days}]

-----------------------------------------------------------------------------
Init ==
  /\ now = 0 /\ runs = 0 /\ closed = {}
  /\ history = [t \in Tokens |-> {}] /\ daily = [t \in Tokens |-> {}]
  /\ ledger = [t \in Tokens |-> [cursor |-> NoTime, next |-> NoTime, streak |-> 0, fully |-> FALSE]]
  /\ skips = {}
  /\ vouched = [t \in Tokens |-> {}] /\ leapt = [t \in Tokens |-> {}]
  /\ phase = "idle" /\ outcome = "none" /\ todo = {} /\ report = {}
  /\ task = [s \in Slots |-> FreeTask] /\ prog = [t \in Tokens |-> IdleProgress]
  /\ queue = << >>
  /\ wpc = "loop" /\ wOdds = {} /\ wStates = {} /\ wSkips = {}
  /\ dirty = {} /\ writerFailed = FALSE
  /\ delivered = {}

(* The world: time passes, a market resolves once the API has all its rows. *)
Tick ==
  /\ phase = "idle" /\ now < MaxTime
  /\ now' = now + 1
  /\ UNCHANGED <<closed, database, main, workers, queue, writer, delivered>>

CloseMarket(t) ==
  /\ phase = "idle" /\ t \notin closed
  /\ \A ts \in Source[t] : ts + MaxLag <= now
  /\ closed' = closed \cup {t}
  /\ UNCHANGED <<now, database, main, workers, queue, writer, delivered>>

-----------------------------------------------------------------------------
(* The main thread.                                                        *)

(* The cursor that get_token_sync_snapshot writes back when it reconciles.  *)
Repaired(t) ==
  IF Reconcile /\ IsDue(t) /\ ledger[t].cursor # NoTime
  THEN [ledger[t] EXCEPT !.cursor = LatestTimestamp(t)] ELSE ledger[t]

(* sync_odds plans the due tokens.  A token's ledger row is not written     *)
(* before its own plan ends, so planning page by page while the writer      *)
(* works reads what planning at once does.                                  *)
StartRun ==
  /\ phase = "idle" /\ runs < MaxRuns
  /\ \E t \in Tokens : IsPlanned(t)
  /\ phase' = "running" /\ runs' = runs + 1 /\ outcome' = "none"
  /\ todo' = {t \in Tokens : IsPlanned(t)}
  /\ prog' = [t \in Tokens |-> IF IsPlanned(t) THEN NewProgress(t) ELSE prog[t]]
  /\ ledger' = [t \in Tokens |-> Repaired(t)]
  /\ delivered' = {}
  /\ UNCHANGED <<world, history, skips, daily, vouched, leapt, report, task, queue, writer>>

(* Without a first group there is neither pool nor writer.                  *)
NoopRun ==
  /\ phase = "idle" /\ runs < MaxRuns
  /\ \E t \in Tokens : IsDue(t)
  /\ \A t \in Tokens : ~IsPlanned(t)
  /\ runs' = runs + 1 /\ outcome' = "noop"
  /\ ledger' = [t \in Tokens |-> Repaired(t)]
  /\ UNCHANGED <<world, history, skips, daily, vouched, leapt, phase, todo, report,
                 workers, queue, writer, delivered>>

(* The next group goes to the executor.  How the groups are sorted does not *)
(* matter here: any set of the right size may be the next.                  *)
Submit(s) ==
  /\ phase = "running" /\ report = {} /\ task[s].pc = "free"
  /\ \E group \in SUBSET todo, first \in todo :
       /\ Cardinality(group) = Min2(GroupSize, Cardinality(todo))
       /\ first \in group /\ \A t \in group : prog[first].start <= prog[t].start
       /\ todo' = todo \ group
       /\ task' = [task EXCEPT ![s] = [pc |-> "fetch", members |-> group,
                                      at |-> prog[first].start, buf |-> {}]]
  /\ UNCHANGED <<world, database, runs, phase, outcome, report, prog, queue, writer, delivered>>

(* A future that returned its results.                                     *)
Collect(s) ==
  /\ phase = "running" /\ report = {} /\ task[s].pc = "done"
  /\ task' = [task EXCEPT ![s] = FreeTask]
  /\ prog' = [t \in Tokens |-> IF t \in task[s].members THEN IdleProgress ELSE prog[t]]
  /\ UNCHANGED <<world, database, main, queue, writer, delivered>>

(* A future that raised: the main thread itself puts a retry row for every  *)
(* token of the group, one put at a time.                                   *)
CollectFailed(s) ==
  /\ phase = "running" /\ report = {} /\ task[s].pc = "failed"
  /\ report' = task[s].members
  /\ task' = [task EXCEPT ![s] = FreeTask]
  /\ UNCHANGED <<world, database, runs, phase, outcome, todo, prog, queue, writer, delivered>>

ReportRetry(t) ==
  /\ phase = "running" /\ t \in report
  /\ Put(StateItem({RetryRow(t)}))
  /\ report' = report \ {t}
  /\ prog' = [prog EXCEPT ![t] = IdleProgress]
  /\ UNCHANGED <<world, database, runs, phase, outcome, todo, task, writer, delivered>>

(* The guardrail's hard timeout: no future has finished for too long.  The  *)
(* executor is abandoned and the sentinel is put only if there is room.     *)
Abort ==
  /\ "noprogress" \in Faults
  /\ phase = "running" /\ report = {}
  /\ \E s \in Slots : task[s].pc # "free"
  /\ \A s \in Slots : task[s].pc \notin {"done", "failed"}
  /\ phase' = "aborting"
  /\ queue' = IF HasRoom THEN Append(queue, Sentinel) ELSE queue
  /\ UNCHANGED <<world, database, runs, outcome, todo, report, workers, writer, delivered>>

(* drain_writer of a run that went through all its plans.                   *)
Drain ==
  /\ phase = "running" /\ todo = {} /\ report = {}
  /\ \A s \in Slots : task[s].pc = "free"
  /\ Put(Sentinel)
  /\ phase' = "draining"
  /\ UNCHANGED <<world, database, runs, outcome, todo, report, workers, writer, delivered>>

(* The process ends: threads, queue and buffers are gone.                   *)
EndProcess(result) ==
  /\ phase' = "idle" /\ outcome' = result
  /\ todo' = {} /\ report' = {}
  /\ task' = [s \in Slots |-> FreeTask] /\ prog' = [t \in Tokens |-> IdleProgress]
  /\ queue' = << >>
  /\ wpc' = "loop" /\ wOdds' = {} /\ wStates' = {} /\ wSkips' = {}
  /\ dirty' = {} /\ writerFailed' = FALSE
  /\ delivered' = IF result = "ok" THEN delivered ELSE {}
  /\ UNCHANGED <<world, database, runs>>

(* raise_writer_failures. *)
RunResult == IF writerFailed THEN "failed" ELSE "ok"

(* join returned because the writer thread has ended.                       *)
Finish ==
  /\ phase = "draining" /\ wpc = "exited"
  /\ EndProcess(RunResult)

(* join(timeout=60) returned although the writer thread is still at its     *)
(* final flush; nobody asks whether it is alive.                            *)
FinishWithoutWriter ==
  /\ "slowfinal" \in Faults
  /\ phase = "draining" /\ wpc \in {"final", "refresh"}
  /\ EndProcess(RunResult)

(* An aborted run waits for the writer for a while, then raises.            *)
FinishAborted ==
  /\ phase = "aborting"
  /\ EndProcess("aborted")

Crash ==
  /\ "crash" \in Faults /\ phase # "idle"
  /\ EndProcess("crashed")

-----------------------------------------------------------------------------
(* A worker, sync_token_group_plan.                                         *)

(* What the API answers for t in a window: every row it has had for MaxLag, *)
(* and perhaps a fresher one.                                               *)
Answers(t, from, to) ==
  {got \in SUBSET (Source[t] \cap from..Min2(to, now)) :
     \A ts \in Source[t] \cap from..to : ts + MaxLag <= now => ts \in got}

AfterWindow(p, to, result, got) ==
  CASE result = "permanent" -> [p EXCEPT !.permanent = TRUE]
    [] result = "transient" -> [p EXCEPT !.transient = TRUE, !.contigOk = FALSE]
    [] result = "ok" ->
         [p EXCEPT !.rows = @ \/ got # {},
                   !.contigUntil = IF p.contigOk THEN to ELSE @,
                   !.maxSeen = Max2(@, MaxOf(got)),
                   !.maxContig = IF p.contigOk THEN Max2(@, MaxOf(got)) ELSE @]

(* One window for the tokens of the group that are still active.  Rows     *)
(* older than a token's own start are dropped.  A run's plans all end now.  *)
FetchWindow(s) ==
  LET from   == task[s].at
      to     == Min2(now, from + WindowSize)
      window == {t \in task[s].members : ~prog[t].permanent /\ prog[t].start < to}
  IN
  /\ task[s].pc = "fetch" /\ from < now /\ Cardinality(task[s].buf) < ChunkRows
  /\ \E result \in [window -> {"ok"} \cup ({"transient", "permanent"} \cap Faults)],
        got \in [window -> SUBSET (from..to)] :
       /\ \A t \in window :
            IF result[t] = "ok" THEN got[t] \in Answers(t, Max2(from, prog[t].start), to)
                                ELSE got[t] = {}
       /\ prog' = [t \in Tokens |->
                     IF t \in window THEN AfterWindow(prog[t], to, result[t], got[t])
                     ELSE prog[t]]
       /\ task' = [task EXCEPT ![s].at = to,
                              ![s].buf = @ \cup {row \in window \X (from..to) : row[2] \in got[row[1]]}]
  /\ UNCHANGED <<world, database, main, queue, writer, delivered>>

(* The client raises what is neither transient nor permanent: the group     *)
(* ends there and its unsent rows are lost.                                 *)
RequestFails(s) ==
  /\ "request" \in Faults
  /\ task[s].pc = "fetch" /\ task[s].at < now /\ Cardinality(task[s].buf) < ChunkRows
  /\ task' = [task EXCEPT ![s].pc = "failed", ![s].buf = {}]
  /\ UNCHANGED <<world, database, main, prog, queue, writer, delivered>>

PutOdds(s) ==
  /\ task[s].pc = "fetch" /\ task[s].buf # {}
  /\ Cardinality(task[s].buf) >= ChunkRows \/ task[s].at = now
  /\ Put(OddsItem(task[s].buf))
  /\ task' = [task EXCEPT ![s].buf = {}]
  /\ delivered' = delivered \cup task[s].buf
  /\ UNCHANGED <<world, database, main, prog, writer>>

FetchedAll(s) == task[s].pc = "fetch" /\ task[s].at = now /\ task[s].buf = {}

PermanentOf(s) == {t \in task[s].members : prog[t].permanent}

PutSkips(s) ==
  /\ FetchedAll(s) /\ PermanentOf(s) # {}
  /\ Put(SkipItem(PermanentOf(s)))
  /\ task' = [task EXCEPT ![s].pc = "skipped"]
  /\ UNCHANGED <<world, database, main, prog, writer, delivered>>

PutStates(s) ==
  /\ (FetchedAll(s) /\ PermanentOf(s) = {}) \/ task[s].pc = "skipped"
  /\ Put(StateItem({StateRow(t) : t \in task[s].members}))
  /\ task' = [task EXCEPT ![s].pc = "done"]
  /\ UNCHANGED <<world, database, main, prog, writer, delivered>>

-----------------------------------------------------------------------------
(* The writer thread.                                                      *)

(* dynamic_writer_flush_rows: flush sooner when the queue fills up.         *)
FlushThreshold(queued) ==
  CASE 10 * queued >= 8 * QueueCap -> Max2(1, FlushRows \div 4)
    [] 10 * queued >= 5 * QueueCap -> Max2(1, FlushRows \div 2)
    [] 10 * queued <= QueueCap     -> 2 * FlushRows
    [] OTHER                       -> FlushRows

(* Mutant of DirtyAfter: the last flush's token-days only. *)
DirtyOfFlush(rows) == {<<row[1], DayOf(row[2])>> : row \in rows}

(* The token-days are marked before the transaction begins. *)
DirtyAfter(rows) == dirty \cup {<<row[1], DayOf(row[2])>> : row \in rows}

Discard == wOdds' = {} /\ wStates' = {} /\ wSkips' = {}

(* A transaction over the given buffers: it commits and they are cleared,   *)
(* or it is rolled back, the writer is broken from then on and they stay.   *)
FlushBuffers(rows, states, skipped) ==
  /\ dirty' = DirtyAfter(rows)
  /\ \/ /\ Commit(rows, states, skipped)
        /\ Discard
        /\ UNCHANGED writerFailed
     \/ /\ "flush" \in Faults
        /\ writerFailed' = TRUE
        /\ wOdds' = rows /\ wStates' = states /\ wSkips' = skipped
        /\ UNCHANGED <<history, ledger, skips, vouched, leapt>>

(* Mutant of CanTake: a broken writer stops taking items. *)
CanTakeUnbroken == wpc = "loop" /\ queue # << >> /\ ~writerFailed

CanTake == wpc = "loop" /\ queue # << >>

(* The writer takes an item.  Broken, it only empties the queue; otherwise  *)
(* it buffers the item and flushes if enough is buffered.  (The flush it    *)
(* tries when the queue stays empty finds the highest threshold and never   *)
(* has anything to do.)                                                     *)
WriterTake ==
  /\ CanTake /\ Head(queue) # Sentinel
  /\ queue' = Tail(queue)
  /\ LET item    == Head(queue)
         rows    == wOdds \cup item.rows
         states  == wStates \cup item.states
         skipped == wSkips \cup item.skipped
         pending == Cardinality(rows) + Cardinality(states) + Cardinality(skipped)
     IN  \/ /\ writerFailed
            /\ UNCHANGED <<database, writer>>
         \/ /\ ~writerFailed /\ pending < FlushThreshold(Len(queue) - 1)
            /\ wOdds' = rows /\ wStates' = states /\ wSkips' = skipped
            /\ UNCHANGED <<database, wpc, dirty, writerFailed>>
         \/ /\ ~writerFailed /\ pending >= FlushThreshold(Len(queue) - 1)
            /\ FlushBuffers(rows, states, skipped)
            /\ UNCHANGED <<wpc, daily>>
  /\ UNCHANGED <<world, main, workers, delivered>>

(* The sentinel ends the loop; task_done is called before the final flush,  *)
(* so queue.join() does not wait for it.                                    *)
WriterStop ==
  /\ wpc = "loop" /\ queue # << >> /\ Head(queue) = Sentinel
  /\ queue' = Tail(queue)
  /\ wpc' = IF writerFailed THEN "exited" ELSE "final"
  /\ UNCHANGED <<world, database, main, workers, wOdds, wStates, wSkips, dirty, writerFailed,
                 delivered>>

WriterFinalFlush ==
  /\ wpc = "final"
  /\ FlushBuffers(wOdds, wStates, wSkips)
  /\ wpc' = IF writerFailed' THEN "exited" ELSE "refresh"
  /\ UNCHANGED <<world, daily, main, workers, queue, delivered>>

(* refresh_dirty_daily_keys, a transaction of its own.                      *)
WriterRefresh ==
  /\ wpc = "refresh"
  /\ \/ /\ daily' = Refreshed(dirty) /\ dirty' = {} /\ UNCHANGED writerFailed
     \/ /\ "flush" \in Faults /\ dirty # {}
        /\ writerFailed' = TRUE /\ UNCHANGED <<daily, dirty>>
  /\ wpc' = "exited"
  /\ UNCHANGED <<world, history, ledger, skips, vouched, leapt, main, workers, queue,
                 wOdds, wStates, wSkips, delivered>>

-----------------------------------------------------------------------------
Worker(s) == FetchWindow(s) \/ RequestFails(s) \/ PutOdds(s) \/ PutSkips(s) \/ PutStates(s)
Writer    == WriterTake \/ WriterStop \/ WriterFinalFlush \/ WriterRefresh
Pool(s)   == Submit(s) \/ Collect(s) \/ CollectFailed(s)

Next ==
  \/ Tick \/ StartRun \/ NoopRun
  \/ \E t \in Tokens : CloseMarket(t) \/ ReportRetry(t)
  \/ \E s \in Slots : Pool(s) \/ Worker(s)
  \/ Writer
  \/ Drain \/ Finish \/ FinishWithoutWriter \/ Abort \/ FinishAborted \/ Crash

Spec == Init /\ [][Next]_vars

(* Every thread of a run is scheduled again and again; nothing forces a new *)
(* run, the clock or a fault.                                               *)
Fairness ==
  /\ \A s \in Slots : WF_vars(Worker(s)) /\ WF_vars(Pool(s))
  /\ \A t \in Tokens : WF_vars(ReportRetry(t))
  /\ WF_vars(Writer) /\ WF_vars(Drain) /\ WF_vars(Finish) /\ WF_vars(FinishAborted)

FairSpec == Spec /\ Fairness

-----------------------------------------------------------------------------
(* Properties.                                                             *)

Progress ==
  [start: Time, closed: BOOLEAN, streak: Nat, rows: BOOLEAN, transient: BOOLEAN,
   permanent: BOOLEAN, contigOk: BOOLEAN, maxSeen: Time, maxContig: Time, contigUntil: Time]

StateRows ==
  [token: Tokens, cursor: Time \cup {NoTime}, next: Int, streak: Nat, fully: BOOLEAN,
   from: Time, leap: BOOLEAN]

Items ==
  [op: {"odds", "token_state", "skipped_tokens", "none"}, rows: SUBSET Rows,
   states: SUBSET StateRows, skipped: SUBSET Tokens]

LedgerRows == [cursor: Time \cup {NoTime}, next: Int, streak: Nat, fully: BOOLEAN]

Tasks ==
  [pc: {"free", "fetch", "skipped", "done", "failed"}, members: SUBSET Tokens, at: Time,
   buf: SUBSET Rows]

WorldOK == now \in Time /\ closed \subseteq Tokens

DatabaseOK ==
  /\ history \in [Tokens -> SUBSET Time] /\ daily \in [Tokens -> SUBSET Time]
  /\ ledger \in [Tokens -> LedgerRows]
  /\ skips \subseteq Tokens
  /\ vouched \in [Tokens -> SUBSET Time] /\ leapt \in [Tokens -> SUBSET Time]

MainOK ==
  /\ runs \in 0..MaxRuns
  /\ phase \in {"idle", "running", "draining", "aborting"}
  /\ outcome \in {"none", "noop", "ok", "failed", "aborted", "crashed"}
  /\ todo \subseteq Tokens /\ report \subseteq Tokens

WorkersOK == task \in [Slots -> Tasks] /\ prog \in [Tokens -> Progress]

QueueOK == queue \in Seq(Items) /\ Len(queue) <= QueueCap

WriterOK ==
  /\ wpc \in {"loop", "final", "refresh", "exited"}
  /\ wOdds \subseteq Rows /\ wStates \subseteq StateRows /\ wSkips \subseteq Tokens
  /\ dirty \subseteq Tokens \X Nat /\ writerFailed \in BOOLEAN

(* Every variable has its type: rows and ledger rows are well formed at     *)
(* every station between the fetch and the database, and the queue keeps    *)
(* its bound.                                                               *)
TypeOK ==
  WorldOK /\ DatabaseOK /\ MainOK /\ WorkersOK /\ QueueOK /\ WriterOK /\ delivered \subseteq Rows

(* A ledger cursor is durable only together with the rows it speaks for:    *)
(* whatever the API served between a plan's start and the cursor its ledger *)
(* row wrote is in odds_history, across crashes, aborted runs and failed    *)
(* transactions.  Rows and ledger row travel separately on the queue.       *)
VouchedIsStored ==
  \A t \in Tokens : Source[t] \cap vouched[t] \subseteq history[t]

(* No row is missing behind the ledger's cursor: later runs start from the  *)
(* cursor and would never fetch it.                                         *)
NoGapBehindCursor ==
  \A t \in Tokens : Source[t] \cap 0..(ledger[t].cursor - MaxLag) \subseteq history[t]

(* A closed token that is marked fully checked, and so never planned again, *)
(* has its whole history stored.                                            *)
FullyCheckedIsComplete ==
  \A t \in Tokens : ledger[t].fully => Source[t] \subseteq history[t]

(* A run that reports success has stored every row its workers put on the   *)
(* queue.                                                                   *)
SuccessIsDurable ==
  phase = "idle" /\ outcome = "ok" => \A row \in delivered : row[2] \in history[row[1]]

(* ... and has rebuilt the daily rows of every token-day it wrote to.       *)
SuccessRefreshesDaily ==
  phase = "idle" /\ outcome = "ok" =>
    \A row \in delivered, ts \in Time :
      DayOf(ts) = DayOf(row[2]) => (ts \in daily[row[1]] <=> ts \in history[row[1]])

OnlyGrows ==
  \A t \in Tokens : /\ ledger[t].cursor <= ledger'[t].cursor
                    /\ ledger[t].fully => ledger'[t].fully
                    /\ history[t] \subseteq history'[t]
                    /\ t \in skips => t \in skips'

(* Rows are appended only, a cursor never moves back, fully_checked and a   *)
(* skip are never taken back, although plans restart behind the cursor and  *)
(* error paths write NULL cursors.                                          *)
LedgerIsMonotone == [][OnlyGrows]_database

(* A run ends, even if the writer's database is broken, a worker fails or   *)
(* the queue is full: no thread waits for a thread that has stopped.        *)
RunEnds == (phase # "idle") ~> (phase = "idle")

-----------------------------------------------------------------------------
(* Why VouchedIsStored holds: the parts of an inductive invariant.         *)

(* The timestamps of t among the rows of the first n items of the queue.    *)
QueuedIn(n, t) == UNION {TimesOf(t, queue[i].rows) : i \in 1..n}

(* What the next transaction makes durable, or already is.                  *)
Kept(t) == history[t] \cup TimesOf(t, wOdds)

(* A ledger row speaks only for upstream rows in S.                         *)
Backed(row, S) == ~row.leap => Source[row.token] \cap RunInterval(row) \subseteq S

Unfetched(p) ==
  /\ p.start < now /\ {p.maxSeen, p.maxContig, p.contigUntil} = {p.start}
  /\ ~p.permanent /\ ~p.transient /\ p.contigOk

(* A token's progress p when its group has reached the instant at.          *)
Contiguous(p, at) ==
  /\ p.start < now /\ p.maxSeen <= now /\ p.contigUntil <= now
  /\ p.start <= p.contigUntil /\ p.maxContig <= p.contigUntil
  /\ p.contigUntil <= at \/ p.contigUntil = p.start
  /\ ~p.permanent /\ p.contigOk => p.contigUntil >= at \/ p.start >= at
  /\ ~p.permanent /\ ~p.transient => p.contigOk

(* A token belongs to one thread at a time.                                 *)
Ownership ==
  /\ \A s \in Slots : task[s].members \cap (todo \cup report) = {}
  /\ \A s, r \in Slots : s # r => task[s].members \cap task[r].members = {}
  /\ todo \cap report = {}
  /\ phase = "idle" => todo = {} /\ report = {} /\ \A s \in Slots : task[s].members = {}

ProgressInOrder ==
  /\ \A t \in todo : Unfetched(prog[t])
  /\ \A s \in Slots : \A t \in task[s].members :
       /\ task[s].at <= now /\ Contiguous(prog[t], task[s].at)
       /\ task[s].pc = "skipped" => task[s].buf = {} /\ task[s].at = now

(* What a worker has fetched without a gap is on its way to the database.   *)
FetchedIsUnderWay ==
  ~writerFailed =>
    \A s \in Slots : \A t \in task[s].members :
      task[s].pc # "failed" /\ prog[t].contigUntil > prog[t].start =>
        \A ts \in Source[t] \cap prog[t].start..prog[t].contigUntil :
          ts + MaxLag <= now =>
            ts \in Kept(t) \cup QueuedIn(Len(queue), t) \cup TimesOf(t, task[s].buf)

(* A ledger row never overtakes the rows it speaks for.                     *)
RowsPrecedeClaims ==
  ~writerFailed =>
    /\ \A row \in wStates : Backed(row, Kept(row.token))
    /\ \A i \in 1..Len(queue) : \A row \in queue[i].states :
         Backed(row, Kept(row.token) \cup QueuedIn(i - 1, row.token))

(* Every claim of the ledger, written or still on its way, is backed by     *)
(* rows that reach the database no later than the claim does.               *)
ClaimsAreBacked ==
  /\ Ownership /\ ProgressInOrder /\ FetchedIsUnderWay /\ RowsPrecedeClaims
  /\ wpc = "final" => ~writerFailed
  /\ VouchedIsStored

(* What the ledger says, rows bear out: every claim is backed, nothing is   *)
(* missing behind a cursor, and a token that is never planned again has its *)
(* whole history.                                                           *)
LedgerIsTrue == ClaimsAreBacked /\ NoGapBehindCursor /\ FullyCheckedIsComplete

(* A run reports success only of what is stored, in the history and in the  *)
(* daily rows derived from it, whatever crashed or failed before.           *)
SuccessMeansStored == SuccessIsDurable /\ SuccessRefreshesDaily
=============================================================================
