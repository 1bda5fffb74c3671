--------------------------- MODULE OddsSyncProofs ---------------------------
(***************************************************************************)
(* Theorems about OddsSync, for every value of its constants.              *)
(*                                                                         *)
(* First: types, and that the ledger only grows.  Then what the ledger     *)
(* claims: the cursor of a row is durable only with the rows it speaks     *)
(* for; ClaimsAreBacked is inductive.  Where no fetch fails, no row is     *)
(* missing behind a cursor; NothingIsPassed is inductive.  Last: a run     *)
(* that reports success has stored its rows; SuccessInv is inductive.      *)
(***************************************************************************)
EXTENDS OddsSync, WellFoundedInduction, TLAPS

USE DEF Time, NoTime, Rows

-----------------------------------------------------------------------------
(* Arithmetic.                                                             *)

(* A set of naturals that is not empty has a least element.                *)
LEMMA LeastElement ==
  ASSUME NEW S \in SUBSET Nat, S # {}
  PROVE  \E x \in S : \A y \in S : x <= y
<1> DEFINE R == OpToRel(<, Nat)
<1>1. \A x, y \in Nat : y < x => <<y, x>> \in R
  BY DEF OpToRel
<1>2. IsWellFoundedOn(R, Nat)
  BY NatLessThanWellFounded
<1> HIDE DEF R
<1>3. PICK x \in S : \A y \in S : <<y, x>> \notin R
  BY <1>2, WFMin
<1>4. \A y \in S : x <= y
  <2> TAKE y \in S
  <2>1. x \in Nat /\ y \in Nat
    OBVIOUS
  <2>2. ~(y < x)
    BY <1>1, <1>3, <2>1
  <2> QED BY <2>1, <2>2
<1> QED BY <1>4

(* MaxOf yields the newest timestamp of a set, or NoTime.                  *)
LEMMA MaxOfProperties ==
  ASSUME NEW S \in SUBSET Time
  PROVE  /\ S = {} => MaxOf(S) = NoTime
         /\ S # {} => MaxOf(S) \in S
         /\ MaxOf(S) \in Time \cup {NoTime}
         /\ \A x \in S : x <= MaxOf(S)
<1>1. CASE S = {}
  BY <1>1 DEF MaxOf
<1>2. CASE S # {}
  <2> DEFINE D == {MaxTime - x : x \in S}
  <2>1. D \in SUBSET Nat /\ D # {}
    <3>1. \A x \in S : MaxTime - x \in Nat
      BY BoundsAssumption
    <3> QED BY <3>1, <1>2
  <2>2. PICK d \in D : \A e \in D : d <= e
    BY <2>1, LeastElement
  <2>3. PICK x \in S : d = MaxTime - x
    BY <2>2
  <2>4. \A y \in S : y <= x
    <3> TAKE y \in S
    <3>1. MaxTime - x <= MaxTime - y
      BY <2>2, <2>3
    <3> QED BY <3>1, BoundsAssumption
  <2>5. MaxOf(S) \in S /\ \A y \in S : y <= MaxOf(S)
    BY <1>2, <2>4 DEF MaxOf
  <2> QED BY <1>2, <2>5, BoundsAssumption
<1> QED BY <1>1, <1>2

LEMMA PowerOfTwo == \A n \in Nat : 2 ^ n \in Int
  BY Z3

-----------------------------------------------------------------------------
(* Types of what the actions compute.                                      *)

LEMMA StartOfType ==
  ASSUME TypeOK, NEW t \in Tokens
  PROVE  /\ LatestTimestamp(t) \in Time \cup {NoTime}
         /\ StartOf(t) \in Time
         /\ LatestTimestamp(t) # NoTime => StartOf(t) <= LatestTimestamp(t)
         /\ ledger[t].cursor <= LatestTimestamp(t)
<1>1. history[t] \in SUBSET Time /\ ledger[t].cursor \in Time \cup {NoTime}
  BY DEF TypeOK, DatabaseOK, LedgerRows
<1>2. MaxOf(history[t]) \in Time \cup {NoTime}
  BY <1>1, MaxOfProperties
<1>3. /\ LatestTimestamp(t) \in Time \cup {NoTime}
      /\ ledger[t].cursor <= LatestTimestamp(t)
  BY <1>1, <1>2, BoundsAssumption DEF LatestTimestamp
<1> QED
  BY <1>3, LagAssumption, BoundsAssumption DEF StartOf, Max2

LEMMA NewProgressType ==
  ASSUME TypeOK, NEW t \in Tokens
  PROVE  NewProgress(t) \in Progress
<1>1. ledger[t].streak \in Nat
  BY DEF TypeOK, DatabaseOK, LedgerRows
<1> QED
  BY <1>1, StartOfType DEF NewProgress, Progress

LEMMA IdleProgressType == IdleProgress \in Progress
  BY BoundsAssumption DEF IdleProgress, Progress

LEMMA DelayType ==
  ASSUME NEW streak \in Nat
  PROVE  EmptyRetryDelay(streak) \in Int
<1>1. Max2(0, streak - 1) \in Nat
  BY DEF Max2
<1>2. 2 ^ Max2(0, streak - 1) \in Int
  BY <1>1, PowerOfTwo
<1> DEFINE power == 2 ^ Max2(0, streak - 1)
<1> HIDE DEF power
<1>3. EmptyRetryBase * power \in Int
  BY <1>2, RetryAssumption DEF power
<1> DEFINE delay == EmptyRetryBase * power
<1> HIDE DEF delay
<1>4. (IF EmptyRetryMax > 0 THEN Min2(delay, EmptyRetryMax) ELSE delay) \in Int
  BY <1>3, RetryAssumption DEF Min2, delay
<1> QED BY <1>4 DEF EmptyRetryDelay, delay, power

LEMMA StateRowType ==
  ASSUME TypeOK, NEW t \in Tokens
  PROVE  StateRow(t) \in StateRows /\ RetryRow(t) \in StateRows
<1>1. prog[t] \in Progress /\ now \in Time
  BY DEF TypeOK, WorldOK, WorkersOK
<1>2. CursorOf(prog[t]) \in Time \cup {NoTime}
  BY <1>1 DEF CursorOf, Progress
<1>3. StreakAfter(prog[t]) \in Nat
  BY <1>1 DEF StreakAfter, Progress
<1>4. EmptyRetryDelay(StreakAfter(prog[t])) \in Int
  BY <1>3, DelayType
<1>5. NextCheckAfter(prog[t]) \in Int
  BY <1>1, <1>4, BoundsAssumption, RetryAssumption DEF NextCheckAfter
<1>6. FullyCheckedBy(prog[t]) \in BOOLEAN /\ LeapsToMaxSeen(prog[t]) \in BOOLEAN
  BY <1>1 DEF FullyCheckedBy, LeapsToMaxSeen, Progress
<1>7. StateRow(t) \in StateRows
  BY <1>1, <1>2, <1>3, <1>5, <1>6 DEF StateRow, StateRows, Progress
<1>8. RetryRow(t) \in StateRows
  BY <1>1, BoundsAssumption, RetryAssumption DEF RetryRow, StateRows, Progress
<1> QED BY <1>7, <1>8

LEMMA AfterWindowType ==
  ASSUME NEW p \in Progress, NEW to \in Time, NEW got \in SUBSET Time,
         NEW result \in {"ok", "transient", "permanent"}
  PROVE  AfterWindow(p, to, result, got) \in Progress
<1>1. MaxOf(got) \in Time \cup {NoTime}
  BY MaxOfProperties
<1>2. Max2(p.maxSeen, MaxOf(got)) \in Time /\ Max2(p.maxContig, MaxOf(got)) \in Time
  BY <1>1, BoundsAssumption DEF Max2, Progress
<1>3. CASE result = "ok"
  BY <1>2, <1>3 DEF AfterWindow, Progress
<1>4. CASE result # "ok"
  BY <1>4 DEF AfterWindow, Progress
<1> QED BY <1>3, <1>4

LEMMA UpsertType ==
  ASSUME NEW old \in LedgerRows, NEW row \in StateRows
  PROVE  /\ Upsert(old, row) \in LedgerRows
         /\ old.cursor <= Upsert(old, row).cursor
         /\ old.fully => Upsert(old, row).fully
  BY BoundsAssumption DEF Upsert, LedgerRows, StateRows, Max2

(* A ledger row speaks for instants of the clock.                          *)
LEMMA RunIntervalType ==
  ASSUME NEW row \in StateRows
  PROVE  RunInterval(row) \in SUBSET Time
<1>1. row.from \in Time /\ row.cursor \in Time \cup {NoTime}
  BY DEF StateRows
<1> QED BY <1>1, LagAssumption, BoundsAssumption DEF RunInterval

(* The tables only grow in a transaction of the writer.                    *)
LEMMA CommitType ==
  ASSUME TypeOK, NEW rows \in SUBSET Rows, NEW states \in SUBSET StateRows,
         NEW skipped \in SUBSET Tokens, Commit(rows, states, skipped)
  PROVE  /\ history' \in [Tokens -> SUBSET Time]
         /\ ledger' \in [Tokens -> LedgerRows]
         /\ skips' \subseteq Tokens
         /\ vouched' \in [Tokens -> SUBSET Time] /\ leapt' \in [Tokens -> SUBSET Time]
         /\ \A t \in Tokens : /\ ledger[t].cursor <= ledger'[t].cursor
                              /\ ledger[t].fully => ledger'[t].fully
                              /\ history[t] \subseteq history'[t]
                              /\ t \in skips => t \in skips'
<1>1. /\ ledger \in [Tokens -> LedgerRows]
      /\ history \in [Tokens -> SUBSET Time] /\ skips \subseteq Tokens
      /\ vouched \in [Tokens -> SUBSET Time] /\ leapt \in [Tokens -> SUBSET Time]
  BY DEF TypeOK, DatabaseOK
<1>2. \A t \in Tokens : TimesOf(t, rows) \in SUBSET Time
  BY DEF TimesOf
<1>3. /\ history' \in [Tokens -> SUBSET Time] /\ skips' \subseteq Tokens
      /\ \A t \in Tokens : history[t] \subseteq history'[t] /\ (t \in skips => t \in skips')
  BY <1>1, <1>2 DEF Commit
<1>4. ASSUME NEW t \in Tokens
      PROVE  /\ ledger'[t] \in LedgerRows
             /\ ledger[t].cursor <= ledger'[t].cursor
             /\ ledger[t].fully => ledger'[t].fully
  <2>1. CASE RowsOf(t, states) = {}
    BY <1>1, <2>1, BoundsAssumption DEF Commit, LedgerRows
  <2>2. CASE RowsOf(t, states) # {}
    <3> DEFINE row == CHOOSE r \in RowsOf(t, states) : TRUE
    <3>1. row \in StateRows
      BY <2>2 DEF RowsOf
    <3>2. ledger'[t] = Upsert(ledger[t], row)
      BY <1>1, <2>2 DEF Commit
    <3> HIDE DEF row
    <3> QED BY <1>1, <3>1, <3>2, UpsertType
  <2> QED BY <2>1, <2>2
<1>5. ledger' \in [Tokens -> LedgerRows]
  BY <1>4 DEF Commit
<1>6. \A t \in Tokens : RowsOf(t, states) \in SUBSET StateRows
  BY DEF RowsOf
<1>7. \A row \in StateRows : RunInterval(row) \in SUBSET Time
  BY RunIntervalType
<1>8. vouched' \in [Tokens -> SUBSET Time] /\ leapt' \in [Tokens -> SUBSET Time]
  BY <1>1, <1>6, <1>7 DEF Commit
<1> QED BY <1>3, <1>4, <1>5, <1>8

LEMMA FlushType ==
  ASSUME TypeOK, NEW rows \in SUBSET Rows, NEW states \in SUBSET StateRows,
         NEW skipped \in SUBSET Tokens, FlushBuffers(rows, states, skipped)
  PROVE  /\ history' \in [Tokens -> SUBSET Time]
         /\ ledger' \in [Tokens -> LedgerRows]
         /\ skips' \subseteq Tokens
         /\ vouched' \in [Tokens -> SUBSET Time] /\ leapt' \in [Tokens -> SUBSET Time]
         /\ wOdds' \subseteq Rows /\ wStates' \subseteq StateRows /\ wSkips' \subseteq Tokens
         /\ dirty' \subseteq Tokens \X Nat /\ writerFailed' \in BOOLEAN
         /\ \A t \in Tokens : /\ ledger[t].cursor <= ledger'[t].cursor
                              /\ ledger[t].fully => ledger'[t].fully
                              /\ history[t] \subseteq history'[t]
                              /\ t \in skips => t \in skips'
<1>1. dirty' \subseteq Tokens \X Nat
  <2>1. \A row \in Rows : <<row[1], DayOf(row[2])>> \in Tokens \X Nat
    BY DayAssumption, BoundsAssumption DEF DayOf
  <2> QED BY <2>1 DEF FlushBuffers, DirtyAfter, TypeOK, WriterOK
<1>2. CASE Commit(rows, states, skipped) /\ Discard /\ UNCHANGED writerFailed
  BY <1>1, <1>2, CommitType DEF Discard, TypeOK, WriterOK, DatabaseOK
<1>3. CASE /\ writerFailed' = TRUE
           /\ wOdds' = rows /\ wStates' = states /\ wSkips' = skipped
           /\ UNCHANGED <<history, ledger, skips, vouched, leapt>>
  <2>1. \A t \in Tokens : ledger[t].cursor \in Int
    BY BoundsAssumption DEF TypeOK, DatabaseOK, LedgerRows
  <2> QED BY <1>1, <1>3, <2>1 DEF TypeOK, DatabaseOK, WriterOK
<1> QED BY <1>2, <1>3 DEF FlushBuffers

-----------------------------------------------------------------------------
(* Type correctness, action by action.                                     *)

LEMMA InitType == Init => TypeOK
<1> SUFFICES ASSUME Init PROVE TypeOK
  OBVIOUS
<1>1. WorldOK /\ MainOK /\ DatabaseOK
  BY BoundsAssumption DEF Init, WorldOK, MainOK, DatabaseOK, LedgerRows
<1>2. FreeTask \in Tasks
  BY BoundsAssumption DEF FreeTask, Tasks
<1>3. WorkersOK
  BY <1>2, IdleProgressType DEF Init, WorkersOK
<1>4. QueueOK
  BY BatchAssumption DEF Init, QueueOK
<1>5. WriterOK /\ delivered \subseteq Rows
  BY DEF Init, WriterOK
<1> QED BY <1>1, <1>3, <1>4, <1>5 DEF TypeOK

(* What an action leaves alone keeps its type.                             *)
LEMMA FrameType ==
  /\ WorldOK /\ UNCHANGED world => WorldOK'
  /\ DatabaseOK /\ UNCHANGED database => DatabaseOK'
  /\ MainOK /\ UNCHANGED main => MainOK'
  /\ WorkersOK /\ UNCHANGED workers => WorkersOK'
  /\ WriterOK /\ UNCHANGED writer => WriterOK'
  /\ QueueOK /\ UNCHANGED queue => QueueOK'
  /\ (delivered \subseteq Rows) /\ UNCHANGED delivered => (delivered \subseteq Rows)'
<1>1. WorldOK /\ UNCHANGED world => WorldOK'
  BY DEF WorldOK, world
<1>2. DatabaseOK /\ UNCHANGED database => DatabaseOK'
  BY DEF DatabaseOK, database
<1>3. MainOK /\ UNCHANGED main => MainOK'
  BY DEF MainOK, main
<1>4. WorkersOK /\ UNCHANGED workers => WorkersOK'
  BY DEF WorkersOK, workers
<1>5. WriterOK /\ UNCHANGED writer => WriterOK'
  BY DEF WriterOK, writer
<1>6. QueueOK /\ UNCHANGED queue => QueueOK'
  BY DEF QueueOK
<1> QED BY <1>1, <1>2, <1>3, <1>4, <1>5, <1>6

LEMMA WorldType ==
  ASSUME TypeOK, Tick \/ \E t \in Tokens : CloseMarket(t)
  PROVE  TypeOK'
<1>1. CASE Tick
  <2>1. WorldOK'
    BY <1>1, BoundsAssumption DEF Tick, TypeOK, WorldOK
  <2> QED BY <1>1, <2>1, FrameType DEF Tick, TypeOK
<1>2. CASE \E t \in Tokens : CloseMarket(t)
  <2>1. WorldOK'
    BY <1>2 DEF CloseMarket, TypeOK, WorldOK
  <2> QED BY <1>2, <2>1, FrameType DEF CloseMarket, TypeOK
<1> QED BY <1>1, <1>2

LEMMA RepairedType ==
  ASSUME TypeOK, NEW t \in Tokens
  PROVE  /\ Repaired(t) \in LedgerRows
         /\ ledger[t].cursor <= Repaired(t).cursor
         /\ Repaired(t).fully = ledger[t].fully
<1>1. ledger[t] \in LedgerRows
  BY DEF TypeOK, DatabaseOK
<1>2. ledger[t].cursor \in Int
  BY <1>1, BoundsAssumption DEF LedgerRows
<1> QED BY <1>1, <1>2, StartOfType DEF Repaired, LedgerRows

LEMMA StartType ==
  ASSUME TypeOK, StartRun \/ NoopRun
  PROVE  TypeOK'
<1>1. CASE StartRun
  <2>1. DatabaseOK'
    BY <1>1, RepairedType DEF StartRun, TypeOK, DatabaseOK
  <2>2. MainOK'
    BY <1>1, BoundsAssumption DEF StartRun, TypeOK, MainOK
  <2>3. WorkersOK'
    BY <1>1, NewProgressType DEF StartRun, TypeOK, WorkersOK
  <2>4. (delivered \subseteq Rows)'
    BY <1>1 DEF StartRun
  <2> QED BY <1>1, <2>1, <2>2, <2>3, <2>4, FrameType DEF StartRun, TypeOK
<1>2. CASE NoopRun
  <2>1. DatabaseOK'
    BY <1>2, RepairedType DEF NoopRun, TypeOK, DatabaseOK
  <2>2. MainOK'
    BY <1>2, BoundsAssumption DEF NoopRun, TypeOK, MainOK
  <2> QED BY <1>2, <2>1, <2>2, FrameType DEF NoopRun, TypeOK
<1> QED BY <1>1, <1>2

LEMMA PutType ==
  ASSUME QueueOK, NEW item \in Items
  PROVE  (HasRoom => Append(queue, item) \in Seq(Items) /\ Len(Append(queue, item)) <= QueueCap)
         /\ (Put(item) => QueueOK')
<1>1. HasRoom => Append(queue, item) \in Seq(Items) /\ Len(Append(queue, item)) <= QueueCap
  BY BatchAssumption DEF QueueOK, HasRoom
<1> QED BY <1>1 DEF Put, QueueOK

LEMMA ItemTypes ==
  /\ \A rows \in SUBSET Rows : OddsItem(rows) \in Items
  /\ \A states \in SUBSET StateRows : StateItem(states) \in Items
  /\ \A skipped \in SUBSET Tokens : SkipItem(skipped) \in Items
  /\ Sentinel \in Items
  BY DEF OddsItem, StateItem, SkipItem, Sentinel, Item, Items

LEMMA SubmitType ==
  ASSUME TypeOK, NEW s \in Slots, Submit(s)
  PROVE  TypeOK'
<1>1. PICK group \in SUBSET todo, first \in todo :
         /\ todo' = todo \ group
         /\ task' = [task EXCEPT ![s] = [pc |-> "fetch", members |-> group,
                                        at |-> prog[first].start, buf |-> {}]]
  BY DEF Submit
<1>2. group \subseteq Tokens /\ prog[first].start \in Time
  BY DEF TypeOK, MainOK, WorkersOK, Progress
<1>3. MainOK'
  BY <1>1 DEF Submit, TypeOK, MainOK
<1>4. [pc |-> "fetch", members |-> group, at |-> prog[first].start, buf |-> {}] \in Tasks
  BY <1>2 DEF Tasks
<1>5. WorkersOK'
  BY <1>1, <1>4 DEF Submit, TypeOK, WorkersOK
<1> QED BY <1>3, <1>5, FrameType DEF Submit, TypeOK

LEMMA FreeTaskType == FreeTask \in Tasks
  BY BoundsAssumption DEF FreeTask, Tasks

LEMMA CollectType ==
  ASSUME TypeOK, NEW s \in Slots, Collect(s) \/ CollectFailed(s)
  PROVE  TypeOK'
<1>1. task' \in [Slots -> Tasks]
  BY FreeTaskType DEF Collect, CollectFailed, TypeOK, WorkersOK
<1>2. CASE Collect(s)
  <2>1. prog' \in [Tokens -> Progress]
    BY <1>2, IdleProgressType DEF Collect, TypeOK, WorkersOK
  <2> QED BY <1>1, <1>2, <2>1, FrameType DEF Collect, TypeOK, WorkersOK
<1>3. CASE CollectFailed(s)
  <2>1. task[s].members \subseteq Tokens
    BY DEF TypeOK, WorkersOK, Tasks
  <2>2. MainOK'
    BY <1>3, <2>1 DEF CollectFailed, TypeOK, MainOK
  <2> QED BY <1>1, <1>3, <2>2, FrameType DEF CollectFailed, TypeOK, WorkersOK
<1> QED BY <1>2, <1>3

LEMMA ReportRetryType ==
  ASSUME TypeOK, NEW t \in Tokens, ReportRetry(t)
  PROVE  TypeOK'
<1>1. StateItem({RetryRow(t)}) \in Items
  BY StateRowType, ItemTypes
<1>2. QueueOK'
  BY <1>1, PutType DEF ReportRetry, TypeOK
<1>3. MainOK'
  BY DEF ReportRetry, TypeOK, MainOK
<1>4. WorkersOK'
  BY IdleProgressType DEF ReportRetry, TypeOK, WorkersOK
<1> QED BY <1>2, <1>3, <1>4, FrameType DEF ReportRetry, TypeOK

LEMMA StopType ==
  ASSUME TypeOK, Abort \/ Drain
  PROVE  TypeOK'
<1>1. QueueOK'
  BY ItemTypes, PutType DEF Abort, Drain, TypeOK, QueueOK
<1>2. MainOK'
  BY DEF Abort, Drain, TypeOK, MainOK
<1> QED BY <1>1, <1>2, FrameType DEF Abort, Drain, TypeOK

LEMMA EndProcessType ==
  ASSUME TypeOK, NEW result \in {"ok", "failed", "aborted", "crashed"}, EndProcess(result)
  PROVE  TypeOK'
<1>1. MainOK'
  BY DEF EndProcess, TypeOK, MainOK
<1>2. WorkersOK'
  BY FreeTaskType, IdleProgressType DEF EndProcess, WorkersOK
<1>3. QueueOK'
  BY BatchAssumption DEF EndProcess, QueueOK
<1>4. WriterOK'
  BY DEF EndProcess, WriterOK
<1>5. (delivered \subseteq Rows)'
  BY DEF EndProcess, TypeOK
<1> QED BY <1>1, <1>2, <1>3, <1>4, <1>5, FrameType DEF EndProcess, TypeOK

LEMMA EndType ==
  ASSUME TypeOK, Finish \/ FinishWithoutWriter \/ FinishAborted \/ Crash
  PROVE  TypeOK'
  BY EndProcessType DEF Finish, FinishWithoutWriter, FinishAborted, Crash, RunResult

LEMMA FetchWindowType ==
  ASSUME TypeOK, NEW s \in Slots, FetchWindow(s)
  PROVE  TypeOK'
<1> DEFINE from   == task[s].at
           to     == Min2(now, from + WindowSize)
           window == {t \in task[s].members : ~prog[t].permanent /\ prog[t].start < to}
<1>1. task[s] \in Tasks /\ now \in Time
  BY DEF TypeOK, WorldOK, WorkersOK
<1>2. from \in Time /\ to \in Time /\ window \in SUBSET Tokens
  BY <1>1, WindowAssumption, BoundsAssumption DEF Tasks, Min2
<1>3. from..to \subseteq Time
  BY <1>2, BoundsAssumption
<1>4. PICK result \in [window -> {"ok"} \cup ({"transient", "permanent"} \cap Faults)],
           got \in [window -> SUBSET (from..to)] :
        /\ prog' = [t \in Tokens |->
                      IF t \in window THEN AfterWindow(prog[t], to, result[t], got[t])
                      ELSE prog[t]]
        /\ task' = [task EXCEPT ![s].at = to,
                       ![s].buf = @ \cup {row \in window \X (from..to) : row[2] \in got[row[1]]}]
  BY ZenonT(60) DEF FetchWindow
<1> HIDE DEF from, to, window
<1>5. ASSUME NEW t \in window
      PROVE  AfterWindow(prog[t], to, result[t], got[t]) \in Progress
  <2>1. prog[t] \in Progress
    BY <1>2 DEF TypeOK, WorkersOK
  <2>2. got[t] \in SUBSET Time
    BY <1>3
  <2>3. result[t] \in {"ok", "transient", "permanent"}
    OBVIOUS
  <2> QED BY <1>2, <2>1, <2>2, <2>3, AfterWindowType
<1>6. prog' \in [Tokens -> Progress]
  BY <1>4, <1>5 DEF TypeOK, WorkersOK
<1>7. {row \in window \X (from..to) : row[2] \in got[row[1]]} \subseteq Rows
  BY <1>2, <1>3
<1>8. task' \in [Slots -> Tasks]
  BY <1>1, <1>2, <1>4, <1>7 DEF TypeOK, WorkersOK, Tasks
<1> QED BY <1>6, <1>8, FrameType DEF FetchWindow, TypeOK, WorkersOK

LEMMA WorkerType ==
  ASSUME TypeOK, NEW s \in Slots, Worker(s)
  PROVE  TypeOK'
<1>1. task[s] \in Tasks
  BY DEF TypeOK, WorkersOK
<1>2. CASE FetchWindow(s)
  BY <1>2, FetchWindowType
<1>3. CASE RequestFails(s)
  <2>1. WorkersOK'
    BY <1>1, <1>3 DEF RequestFails, TypeOK, WorkersOK, Tasks
  <2> QED BY <1>3, <2>1, FrameType DEF RequestFails, TypeOK
<1>4. CASE PutOdds(s)
  <2>1. task[s].buf \in SUBSET Rows
    BY <1>1 DEF Tasks
  <2>2. QueueOK'
    BY <1>4, <2>1, ItemTypes, PutType DEF PutOdds, TypeOK
  <2>3. WorkersOK'
    BY <1>1, <1>4 DEF PutOdds, TypeOK, WorkersOK, Tasks
  <2>4. (delivered \subseteq Rows)'
    BY <1>4, <2>1 DEF PutOdds, TypeOK
  <2> QED BY <1>4, <2>2, <2>3, <2>4, FrameType DEF PutOdds, TypeOK
<1>5. CASE PutSkips(s)
  <2>1. PermanentOf(s) \in SUBSET Tokens
    BY <1>1 DEF PermanentOf, Tasks
  <2>2. QueueOK'
    BY <1>5, <2>1, ItemTypes, PutType DEF PutSkips, TypeOK
  <2>3. WorkersOK'
    BY <1>1, <1>5 DEF PutSkips, TypeOK, WorkersOK, Tasks
  <2> QED BY <1>5, <2>2, <2>3, FrameType DEF PutSkips, TypeOK
<1>6. CASE PutStates(s)
  <2>1. {StateRow(t) : t \in task[s].members} \in SUBSET StateRows
    BY <1>1, StateRowType DEF Tasks
  <2>2. QueueOK'
    BY <1>6, <2>1, ItemTypes, PutType DEF PutStates, TypeOK
  <2>3. WorkersOK'
    BY <1>1, <1>6 DEF PutStates, TypeOK, WorkersOK, Tasks
  <2> QED BY <1>6, <2>2, <2>3, FrameType DEF PutStates, TypeOK
<1> QED BY <1>2, <1>3, <1>4, <1>5, <1>6 DEF Worker

LEMMA TakeType ==
  ASSUME QueueOK, queue # << >>
  PROVE  /\ Head(queue) \in Items
         /\ Tail(queue) \in Seq(Items) /\ Len(Tail(queue)) <= QueueCap
  BY BatchAssumption DEF QueueOK

LEMMA RefreshedType ==
  ASSUME TypeOK, NEW keys
  PROVE  Refreshed(keys) \in [Tokens -> SUBSET Time]
  BY DEF Refreshed, TypeOK, DatabaseOK

LEMMA WriterTakeType ==
  ASSUME TypeOK, WriterTake
  PROVE  TypeOK'
<1> DEFINE item    == Head(queue)
           rows    == wOdds \cup item.rows
           states  == wStates \cup item.states
           skipped == wSkips \cup item.skipped
           pending == Cardinality(rows) + Cardinality(states) + Cardinality(skipped)
<1>1. queue # << >> /\ QueueOK
  BY DEF WriterTake, CanTake, TypeOK
<1>2. QueueOK'
  BY <1>1, TakeType DEF WriterTake, QueueOK
<1>3. item \in Items
  BY <1>1, TakeType
<1>4. rows \in SUBSET Rows /\ states \in SUBSET StateRows /\ skipped \in SUBSET Tokens
  BY <1>3 DEF Items, TypeOK, WriterOK
<1>5. \/ UNCHANGED <<database, writer>>
      \/ /\ wOdds' = rows /\ wStates' = states /\ wSkips' = skipped
         /\ UNCHANGED <<database, wpc, dirty, writerFailed>>
      \/ /\ FlushBuffers(rows, states, skipped)
         /\ UNCHANGED <<wpc, daily>>
  BY DEF WriterTake
<1> HIDE DEF item, rows, states, skipped, pending
<1>6. DatabaseOK' /\ WriterOK'
  <2>1. CASE UNCHANGED <<database, writer>>
    BY <2>1, FrameType DEF TypeOK
  <2>2. CASE /\ wOdds' = rows /\ wStates' = states /\ wSkips' = skipped
             /\ UNCHANGED <<database, wpc, dirty, writerFailed>>
    BY <1>4, <2>2, FrameType DEF TypeOK, WriterOK
  <2>3. CASE FlushBuffers(rows, states, skipped) /\ UNCHANGED <<wpc, daily>>
    BY <1>4, <2>3, FlushType DEF TypeOK, WriterOK, DatabaseOK
  <2> QED BY <1>5, <2>1, <2>2, <2>3
<1> QED BY <1>2, <1>6, FrameType DEF WriterTake, TypeOK

LEMMA WriterType ==
  ASSUME TypeOK, Writer
  PROVE  TypeOK'
<1>1. CASE WriterTake
  BY <1>1, WriterTakeType
<1>2. CASE WriterStop
  <2>1. QueueOK'
    BY <1>2, TakeType DEF WriterStop, TypeOK, QueueOK
  <2>2. WriterOK'
    BY <1>2 DEF WriterStop, TypeOK, WriterOK
  <2> QED BY <1>2, <2>1, <2>2, FrameType DEF WriterStop, TypeOK
<1>3. CASE WriterFinalFlush
  <2>1. wOdds \in SUBSET Rows /\ wStates \in SUBSET StateRows /\ wSkips \in SUBSET Tokens
    BY DEF TypeOK, WriterOK
  <2>2. DatabaseOK' /\ WriterOK'
    BY <1>3, <2>1, FlushType DEF WriterFinalFlush, TypeOK, WriterOK, DatabaseOK
  <2> QED BY <1>3, <2>2, FrameType DEF WriterFinalFlush, TypeOK
<1>4. CASE WriterRefresh
  <2>1. DatabaseOK'
    BY <1>4, RefreshedType DEF WriterRefresh, TypeOK, DatabaseOK
  <2>2. WriterOK'
    BY <1>4 DEF WriterRefresh, TypeOK, WriterOK
  <2> QED BY <1>4, <2>1, <2>2, FrameType DEF WriterRefresh, TypeOK
<1> QED BY <1>1, <1>2, <1>3, <1>4 DEF Writer

LEMMA StepType ==
  ASSUME TypeOK, [Next]_vars
  PROVE  TypeOK'
<1>1. CASE UNCHANGED vars
  BY <1>1, FrameType DEF vars, TypeOK
<1>2. CASE Tick \/ \E t \in Tokens : CloseMarket(t)
  BY <1>2, WorldType
<1>3. CASE StartRun \/ NoopRun
  BY <1>3, StartType
<1>4. CASE \E t \in Tokens : ReportRetry(t)
  BY <1>4, ReportRetryType
<1>5. CASE \E s \in Slots : Pool(s)
  BY <1>5, SubmitType, CollectType DEF Pool
<1>6. CASE \E s \in Slots : Worker(s)
  BY <1>6, WorkerType
<1>7. CASE Writer
  BY <1>7, WriterType
<1>8. CASE Abort \/ Drain
  BY <1>8, StopType
<1>9. CASE Finish \/ FinishWithoutWriter \/ FinishAborted \/ Crash
  BY <1>9, EndType
<1> QED BY <1>1, <1>2, <1>3, <1>4, <1>5, <1>6, <1>7, <1>8, <1>9 DEF Next

(* At every point of every execution rows, ledger rows and progress are     *)
(* well formed and the bounded queue of the pool is never overfull.         *)
THEOREM TypeCorrect == Spec => []TypeOK
<1>1. Init => TypeOK
  BY InitType
<1>2. TypeOK /\ [Next]_vars => TypeOK'
  BY StepType
<1> QED BY <1>1, <1>2, PTL DEF Spec

-----------------------------------------------------------------------------
(* The ledger is monotone.                                                 *)

LEMMA FrameGrows ==
  ASSUME TypeOK, UNCHANGED <<history, ledger, skips>>
  PROVE  OnlyGrows
<1>1. \A t \in Tokens : ledger[t].cursor \in Int
  BY BoundsAssumption DEF TypeOK, DatabaseOK, LedgerRows
<1> QED BY <1>1 DEF OnlyGrows

LEMMA StartGrows ==
  ASSUME TypeOK, StartRun \/ NoopRun
  PROVE  OnlyGrows
  BY RepairedType DEF StartRun, NoopRun, OnlyGrows

LEMMA WriterGrows ==
  ASSUME TypeOK, Writer
  PROVE  OnlyGrows
<1>1. CASE WriterTake
  <2> DEFINE item    == Head(queue)
             rows    == wOdds \cup item.rows
             states  == wStates \cup item.states
             skipped == wSkips \cup item.skipped
  <2>1. item \in Items
    BY <1>1, TakeType DEF WriterTake, CanTake, TypeOK
  <2>2. rows \in SUBSET Rows /\ states \in SUBSET StateRows /\ skipped \in SUBSET Tokens
    BY <2>1 DEF Items, TypeOK, WriterOK
  <2>3. UNCHANGED database \/ FlushBuffers(rows, states, skipped)
    BY <1>1 DEF WriterTake
  <2> HIDE DEF item, rows, states, skipped
  <2> QED BY <2>2, <2>3, FlushType, FrameGrows DEF OnlyGrows, database
<1>2. CASE WriterStop
  BY <1>2, FrameGrows DEF WriterStop, database
<1>3. CASE WriterFinalFlush
  <2>1. wOdds \in SUBSET Rows /\ wStates \in SUBSET StateRows /\ wSkips \in SUBSET Tokens
    BY DEF TypeOK, WriterOK
  <2> QED BY <1>3, <2>1, FlushType DEF WriterFinalFlush, OnlyGrows
<1>4. CASE WriterRefresh
  BY <1>4, FrameGrows DEF WriterRefresh
<1> QED BY <1>1, <1>2, <1>3, <1>4 DEF Writer

LEMMA StepGrows ==
  ASSUME TypeOK, [Next]_vars
  PROVE  [OnlyGrows]_database
<1>1. CASE StartRun \/ NoopRun
  BY <1>1, StartGrows
<1>2. CASE Writer
  BY <1>2, WriterGrows
<1>3. CASE \/ Tick \/ \E t \in Tokens : CloseMarket(t) \/ ReportRetry(t)
           \/ \E s \in Slots : Pool(s) \/ Worker(s)
           \/ Drain \/ Finish \/ FinishWithoutWriter \/ Abort \/ FinishAborted \/ Crash
           \/ UNCHANGED vars
  <2>1. UNCHANGED database
    BY <1>3 DEF Tick, CloseMarket, ReportRetry, Pool, Submit, Collect, CollectFailed, Worker,
       FetchWindow, RequestFails, PutOdds, PutSkips, PutStates, Drain, Finish,
       FinishWithoutWriter, Abort, FinishAborted, Crash, EndProcess, vars
  <2> QED BY <2>1
<1> QED BY <1>1, <1>2, <1>3 DEF Next

(* Whatever fails, and in whatever order plans, workers and the writer run, *)
(* a ledger cursor never moves back, fully_checked and skips are never      *)
(* taken back and no odds row disappears.                                   *)
THEOREM LedgerNeverMovesBack == Spec => LedgerIsMonotone
<1>1. TypeOK /\ [Next]_vars => [OnlyGrows]_database
  BY StepGrows
<1> QED BY <1>1, TypeCorrect, PTL DEF Spec, LedgerIsMonotone

-----------------------------------------------------------------------------
(* Rows, the queue and what a transaction makes durable.                   *)

LEMMA TimesOfMember ==
  ASSUME NEW t, NEW rows, NEW ts
  PROVE  ts \in TimesOf(t, rows) <=> \E row \in rows : row[1] = t /\ row[2] = ts
  BY DEF TimesOf

LEMMA TimesOfUnion ==
  ASSUME NEW t, NEW A, NEW B
  PROVE  TimesOf(t, A \cup B) = TimesOf(t, A) \cup TimesOf(t, B) /\ TimesOf(t, {}) = {}
  BY DEF TimesOf

LEMMA QueuedInMember ==
  ASSUME NEW t, NEW n, NEW ts
  PROVE  ts \in QueuedIn(n, t) <=> \E i \in 1..n : ts \in TimesOf(t, queue[i].rows)
  BY DEF QueuedIn

(* An item put on the queue is behind everything that is on it.            *)
LEMMA PutQueued ==
  ASSUME QueueOK, NEW item \in Items, Put(item), NEW t \in Tokens
  PROVE  /\ Len(queue') = Len(queue) + 1
         /\ \A i \in 1..Len(queue) : queue'[i] = queue[i]
         /\ queue'[Len(queue) + 1] = item
         /\ \A n \in 0..Len(queue) : QueuedIn(n, t)' = QueuedIn(n, t)
         /\ QueuedIn(Len(queue), t)' = QueuedIn(Len(queue), t) \cup TimesOf(t, item.rows)
<1>1. /\ Len(queue') = Len(queue) + 1
      /\ \A i \in 1..Len(queue) : queue'[i] = queue[i]
      /\ queue'[Len(queue) + 1] = item
      /\ Len(queue) \in Nat
  BY DEF QueueOK, Put
<1>2. \A n \in 0..Len(queue) : QueuedIn(n, t)' = QueuedIn(n, t)
  BY <1>1 DEF QueuedIn
<1> QED BY <1>1, <1>2 DEF QueuedIn

(* Taking the head brings everything behind it one place forward.          *)
LEMMA TakeQueued ==
  ASSUME QueueOK, queue # << >>, queue' = Tail(queue), NEW t \in Tokens
  PROVE  /\ Len(queue') = Len(queue) - 1 /\ Len(queue') \in Nat
         /\ \A i \in 1..Len(queue') : queue'[i] = queue[i + 1]
         /\ \A n \in 0..Len(queue') :
              QueuedIn(n + 1, t) = TimesOf(t, Head(queue).rows) \cup QueuedIn(n, t)'
<1>1. /\ Len(queue') = Len(queue) - 1 /\ Len(queue') \in Nat
      /\ \A i \in 1..Len(queue') : queue'[i] = queue[i + 1]
      /\ Head(queue) = queue[1]
  BY DEF QueueOK
<1>2. ASSUME NEW n \in 0..Len(queue'), NEW ts
      PROVE  ts \in QueuedIn(n + 1, t) <=>
               ts \in TimesOf(t, Head(queue).rows) \/ ts \in QueuedIn(n, t)'
  <2>1. ts \in QueuedIn(n + 1, t) <=> \E i \in 1..(n + 1) : ts \in TimesOf(t, queue[i].rows)
    BY DEF QueuedIn
  <2>2. ts \in QueuedIn(n, t)' <=> \E i \in 1..n : ts \in TimesOf(t, queue'[i].rows)
    BY DEF QueuedIn
  <2>3. ASSUME NEW i \in 1..n PROVE queue'[i] = queue[i + 1]
    BY <1>1
  <2>4. (\E i \in 1..(n + 1) : ts \in TimesOf(t, queue[i].rows)) <=>
          \/ ts \in TimesOf(t, queue[1].rows)
          \/ \E i \in 1..n : ts \in TimesOf(t, queue[i + 1].rows)
    <3>0. n \in Nat
      BY <1>1
    <3>1. ASSUME NEW i \in 1..(n + 1), i # 1 PROVE (i - 1) \in 1..n /\ (i - 1) + 1 = i
      BY <3>0, <3>1
    <3>2. ASSUME NEW i \in 1..n PROVE (i + 1) \in 1..(n + 1)
      BY <3>0
    <3>3. 1 \in 1..(n + 1)
      BY <3>0
    <3> QED BY <3>1, <3>2, <3>3
  <2> QED BY <1>1, <2>1, <2>2, <2>3, <2>4
<1> QED BY <1>1, <1>2

-----------------------------------------------------------------------------
(* Preservation of what is under way.                                      *)

(* Steps that leave the workers alone and lose no row on its way.          *)
LEMMA UnderWayKept ==
  ASSUME FetchedIsUnderWay, UNCHANGED <<task, prog, now>>, ~writerFailed' => ~writerFailed,
         TypeOK,
         ~writerFailed' => \A t \in Tokens :
            Kept(t) \cup QueuedIn(Len(queue), t) \subseteq (Kept(t) \cup QueuedIn(Len(queue), t))'
  PROVE  FetchedIsUnderWay'
<1> SUFFICES ASSUME ~writerFailed', NEW s \in Slots, NEW t \in task[s].members,
                    task[s].pc # "failed", prog[t].contigUntil > prog[t].start,
                    NEW ts \in Source[t] \cap prog[t].start..prog[t].contigUntil,
                    ts + MaxLag <= now
             PROVE  ts \in (Kept(t) \cup QueuedIn(Len(queue), t))' \cup TimesOf(t, task[s].buf)
  BY DEF FetchedIsUnderWay
<1>1. t \in Tokens
  BY DEF TypeOK, WorkersOK, Tasks
<1>2. ts \in Kept(t) \cup QueuedIn(Len(queue), t) \cup TimesOf(t, task[s].buf)
  BY DEF FetchedIsUnderWay
<1> QED BY <1>1, <1>2

(* Steps that put nothing on the queue but ledger rows backed by what is   *)
(* before them.                                                            *)
LEMMA ClaimsPut ==
  ASSUME RowsPrecedeClaims, QueueOK, NEW item \in Items, Put(item),
         UNCHANGED <<history, wOdds, wStates, writerFailed>>,
         ~writerFailed => \A row \in item.states :
            Backed(row, Kept(row.token) \cup QueuedIn(Len(queue), row.token))
  PROVE  RowsPrecedeClaims'
<1> SUFFICES ASSUME ~writerFailed, ~writerFailed' PROVE RowsPrecedeClaims'
  BY DEF RowsPrecedeClaims
<1>1. \A t : Kept(t)' = Kept(t)
  BY DEF Kept
<1>2. \A row \in wStates' : Backed(row, Kept(row.token)')
  BY <1>1 DEF RowsPrecedeClaims
<1>3. ASSUME NEW i \in 1..Len(queue'), NEW row \in queue'[i].states
      PROVE  Backed(row, Kept(row.token)' \cup QueuedIn(i - 1, row.token)')
  <2>1. Len(queue) \in Nat /\ \A j \in 1..Len(queue) : queue[j] \in Items
    BY DEF QueueOK
  <2>2. queue'[i] \in Items
    BY <2>1 DEF Put
  <2>3. row.token \in Tokens
    BY <2>2 DEF Items, StateRows
  <2>4. QueuedIn(i - 1, row.token)' = QueuedIn(i - 1, row.token)
    BY <2>1, <2>3, PutQueued
  <2>5. CASE i \in 1..Len(queue)
    BY <1>1, <2>3, <2>4, <2>5, PutQueued DEF RowsPrecedeClaims
  <2>6. CASE i = Len(queue) + 1
    <3>1. row \in item.states
      BY <2>3, <2>6, PutQueued
    <3> QED BY <1>1, <2>1, <2>4, <2>6, <3>1
  <2> QED BY <2>1, <2>3, <2>5, <2>6, PutQueued
<1> QED BY <1>2, <1>3 DEF RowsPrecedeClaims, Backed

-----------------------------------------------------------------------------
(* The worker's arithmetic.                                                *)

(* A window keeps the progress of its tokens in order ...                  *)
LEMMA WindowContiguous ==
  ASSUME now \in Time, NEW p \in Progress, NEW at \in Time, NEW to \in Time,
         at < to, to <= now, p.start < to, ~p.permanent, Contiguous(p, at),
         NEW result \in {"ok", "transient", "permanent"},
         NEW got \in SUBSET (Max2(at, p.start)..to)
  PROVE  Contiguous(AfterWindow(p, to, result, got), to)
<1>1. /\ p.start \in Int /\ p.maxSeen \in Int /\ p.maxContig \in Int /\ p.contigUntil \in Int
      /\ now \in Int /\ at \in Int /\ to \in Int
      /\ p.contigOk \in BOOLEAN /\ p.transient \in BOOLEAN /\ p.permanent \in BOOLEAN
  BY BoundsAssumption DEF Progress
<1>2. got \in SUBSET Time
  BY <1>1, BoundsAssumption DEF Max2, Progress
<1>3. MaxOf(got) \in Int /\ MaxOf(got) <= to
  BY <1>1, <1>2, MaxOfProperties, BoundsAssumption
<1>4. CASE result = "ok"
  <2> DEFINE q == AfterWindow(p, to, result, got)
  <2>1. /\ q.start = p.start /\ q.permanent = p.permanent /\ q.transient = p.transient
        /\ q.contigOk = p.contigOk
        /\ q.contigUntil = IF p.contigOk THEN to ELSE p.contigUntil
        /\ q.maxSeen = Max2(p.maxSeen, MaxOf(got))
        /\ q.maxContig = IF p.contigOk THEN Max2(p.maxContig, MaxOf(got)) ELSE p.maxContig
    BY <1>4 DEF AfterWindow, Progress
  <2> HIDE DEF q
  <2>2. Contiguous(q, to)
    BY <1>1, <1>3, <2>1 DEF Contiguous, Max2
  <2> QED BY <2>2 DEF q
<1>5. CASE result # "ok"
  <2> DEFINE q == AfterWindow(p, to, result, got)
  <2>1. /\ q.start = p.start
        /\ q.permanent = (p.permanent \/ result = "permanent")
        /\ q.transient = (p.transient \/ result = "transient")
        /\ q.contigOk = (p.contigOk /\ result # "transient")
        /\ q.contigUntil = p.contigUntil /\ q.maxSeen = p.maxSeen /\ q.maxContig = p.maxContig
    BY <1>1, <1>5 DEF AfterWindow, Progress
  <2> HIDE DEF q
  <2>2. Contiguous(q, to)
    BY <1>1, <1>5, <2>1 DEF Contiguous
  <2> QED BY <2>2 DEF q
<1> QED BY <1>4, <1>5

(* ... and of those it leaves out.                                         *)
LEMMA SkippedContiguous ==
  ASSUME now \in Time, NEW p \in Progress, NEW at \in Time, NEW to \in Time,
         at < to, to <= now, p.permanent \/ ~(p.start < to), Contiguous(p, at)
  PROVE  Contiguous(p, to)
<1>1. /\ p.start \in Int /\ p.maxSeen \in Int /\ p.maxContig \in Int /\ p.contigUntil \in Int
      /\ now \in Int /\ at \in Int /\ to \in Int
  BY BoundsAssumption DEF Progress
<1> QED BY <1>1 DEF Contiguous

(* What the ledger row of a finished plan speaks for was fetched without a  *)
(* gap, unless it leaps.                                                   *)
LEMMA CursorIsContiguous ==
  ASSUME now \in Time, NEW p \in Progress, Contiguous(p, now), ~LeapsToMaxSeen(p),
         NEW ts \in p.start..(CursorOf(p) - MaxLag)
  PROVE  /\ p.contigUntil > p.start
         /\ ts \in p.start..p.contigUntil
         /\ ts + MaxLag <= now
<1>1. /\ p.start \in Nat /\ p.maxSeen \in Int /\ p.maxContig \in Int /\ p.contigUntil \in Int
      /\ now \in Int /\ MaxLag \in Nat
      /\ p.contigOk \in BOOLEAN /\ p.transient \in BOOLEAN /\ p.permanent \in BOOLEAN
      /\ p.rows \in BOOLEAN
  BY BoundsAssumption, LagAssumption DEF Progress
<1>2. CASE p.permanent \/ p.transient
  BY <1>1, <1>2 DEF Contiguous, CursorOf, LeapsToMaxSeen
<1>3. CASE ~p.permanent /\ ~p.transient
  BY <1>1, <1>3 DEF Contiguous, CursorOf
<1> QED BY <1>2, <1>3

-----------------------------------------------------------------------------
(* Ledger rows.                                                            *)

LEMMA StateRowBacked ==
  ASSUME TypeOK, ProgressInOrder, FetchedIsUnderWay, ~writerFailed,
         NEW s \in Slots, NEW t \in task[s].members,
         task[s].pc # "failed", task[s].at = now, task[s].buf = {}
  PROVE  Backed(StateRow(t), Kept(t) \cup QueuedIn(Len(queue), t))
<1>1. t \in Tokens
  BY DEF TypeOK, WorkersOK, Tasks
<1>2. prog[t] \in Progress /\ now \in Time
  BY <1>1 DEF TypeOK, WorldOK, WorkersOK
<1>3. Contiguous(prog[t], now)
  BY DEF ProgressInOrder
<1>4. StateRow(t).token = t /\ StateRow(t).leap = LeapsToMaxSeen(prog[t])
      /\ RunInterval(StateRow(t)) = prog[t].start..(CursorOf(prog[t]) - MaxLag)
  BY DEF StateRow, RunInterval
<1>5. ASSUME ~LeapsToMaxSeen(prog[t]), NEW ts \in Source[t] \cap RunInterval(StateRow(t))
      PROVE  ts \in Kept(t) \cup QueuedIn(Len(queue), t)
  <2>1. /\ prog[t].contigUntil > prog[t].start
        /\ ts \in prog[t].start..prog[t].contigUntil
        /\ ts + MaxLag <= now
    BY <1>2, <1>3, <1>4, <1>5, CursorIsContiguous
  <2>2. ts \in Kept(t) \cup QueuedIn(Len(queue), t) \cup TimesOf(t, task[s].buf)
    BY <2>1 DEF FetchedIsUnderWay
  <2> QED BY <2>2, TimesOfUnion
<1> QED BY <1>4, <1>5 DEF Backed

(* A retry row has no cursor and speaks for nothing.                       *)
LEMMA RetryRowBacked ==
  ASSUME TypeOK, NEW t \in Tokens, NEW S
  PROVE  Backed(RetryRow(t), S)
<1>1. prog[t].start \in Nat
  BY BoundsAssumption DEF TypeOK, WorkersOK, Progress
<1>2. RunInterval(RetryRow(t)) = prog[t].start..(NoTime - MaxLag)
  BY DEF RunInterval, RetryRow
<1>3. RunInterval(RetryRow(t)) = {}
  BY <1>1, <1>2, LagAssumption
<1> QED BY <1>3 DEF Backed

-----------------------------------------------------------------------------
(* The writer.                                                             *)

LEMMA BackedMore ==
  ASSUME NEW row, NEW S, NEW T, S \subseteq T, Backed(row, S)
  PROVE  Backed(row, T)
  BY DEF Backed

(* A transaction in which every ledger row is backed.                      *)
LEMMA CommitVouched ==
  ASSUME TypeOK, VouchedIsStored, NEW rows \in SUBSET Rows, NEW states \in SUBSET StateRows,
         NEW skipped, Commit(rows, states, skipped),
         \A row \in states : Backed(row, history[row.token] \cup TimesOf(row.token, rows))
  PROVE  VouchedIsStored'
<1> SUFFICES ASSUME NEW t \in Tokens, NEW ts \in Source[t], ts \in vouched'[t]
             PROVE  ts \in history'[t]
  BY DEF VouchedIsStored
<1>1. history'[t] = history[t] \cup TimesOf(t, rows)
  BY DEF Commit
<1>2. \/ ts \in vouched[t]
      \/ \E row \in RowsOf(t, states) : ~row.leap /\ ts \in RunInterval(row)
  BY DEF Commit
<1>3. CASE ts \in vouched[t]
  BY <1>1, <1>3 DEF VouchedIsStored
<1>4. CASE \E row \in RowsOf(t, states) : ~row.leap /\ ts \in RunInterval(row)
  BY <1>1, <1>4 DEF RowsOf, Backed
<1> QED BY <1>2, <1>3, <1>4

LEMMA FlushClaims ==
  ASSUME TypeOK, VouchedIsStored, NEW rows \in SUBSET Rows, NEW states \in SUBSET StateRows,
         NEW skipped \in SUBSET Tokens, FlushBuffers(rows, states, skipped),
         \A row \in states : Backed(row, history[row.token] \cup TimesOf(row.token, rows))
  PROVE  /\ VouchedIsStored'
         /\ ~writerFailed' => /\ ~writerFailed /\ wStates' = {}
                              /\ \A t \in Tokens : Kept(t)' = history[t] \cup TimesOf(t, rows)
<1>1. CASE Commit(rows, states, skipped) /\ Discard /\ UNCHANGED writerFailed
  <2>1. \A t \in Tokens : Kept(t)' = history[t] \cup TimesOf(t, rows)
    BY <1>1, TimesOfUnion DEF Kept, Commit, Discard
  <2> QED BY <1>1, <2>1, CommitVouched DEF Discard
<1>2. CASE writerFailed' = TRUE /\ UNCHANGED <<history, vouched>>
  BY <1>2 DEF VouchedIsStored
<1> QED BY <1>1, <1>2 DEF FlushBuffers

LEMMA BackedSame ==
  ASSUME NEW row, NEW S, NEW T, S = T, Backed(row, S)
  PROVE  Backed(row, T)
  OBVIOUS

(* The writer takes an item: its rows move from the queue to what is kept.  *)
LEMMA WriterTakeClaims ==
  ASSUME TypeOK, ClaimsAreBacked, WriterTake
  PROVE  ClaimsAreBacked'
<1> DEFINE item    == Head(queue)
           rows    == wOdds \cup item.rows
           states  == wStates \cup item.states
           skipped == wSkips \cup item.skipped
<1>1. queue # << >> /\ QueueOK /\ queue' = Tail(queue)
  BY DEF WriterTake, CanTake, TypeOK
<1>2. item \in Items
  BY <1>1, TakeType
<1>3. rows \in SUBSET Rows /\ states \in SUBSET StateRows /\ skipped \in SUBSET Tokens
  BY <1>2 DEF Items, TypeOK, WriterOK
<1>4. item = queue[1] /\ 1 \in 1..Len(queue) /\ Len(queue) \in Nat
  BY <1>1 DEF QueueOK
<1>5. \A t : Kept(t) \cup TimesOf(t, item.rows) = history[t] \cup TimesOf(t, rows)
  BY TimesOfUnion DEF Kept
<1>6. \A row \in states : row.token \in Tokens
  BY <1>3 DEF StateRows
<1>7. ASSUME ~writerFailed, NEW row \in states
      PROVE  Backed(row, history[row.token] \cup TimesOf(row.token, rows))
  <2>1. CASE row \in wStates
    <3>1. Backed(row, Kept(row.token))
      BY <1>7, <2>1 DEF ClaimsAreBacked, RowsPrecedeClaims
    <3>2. Kept(row.token) \subseteq history[row.token] \cup TimesOf(row.token, rows)
      BY <1>5
    <3> HIDE DEF rows
    <3> QED BY <3>1, <3>2, BackedMore
  <2>2. CASE row \in item.states
    <3>1. Backed(row, Kept(row.token) \cup QueuedIn(1 - 1, row.token))
      BY <1>4, <1>7, <2>2 DEF ClaimsAreBacked, RowsPrecedeClaims
    <3>2. QueuedIn(1 - 1, row.token) = {}
      BY DEF QueuedIn
    <3> QED BY <1>5, <3>1, <3>2, BackedMore
  <2> QED BY <2>1, <2>2
<1>8. \/ /\ writerFailed /\ UNCHANGED <<database, writer>>
      \/ /\ ~writerFailed /\ wOdds' = rows /\ wStates' = states
         /\ UNCHANGED <<database, wpc, dirty, writerFailed>>
      \/ /\ ~writerFailed /\ FlushBuffers(rows, states, skipped) /\ UNCHANGED wpc
  BY DEF WriterTake
<1>9. UNCHANGED <<world, main, workers>>
  BY DEF WriterTake
<1> HIDE DEF item, rows, states, skipped
(* In each case nothing is lost and no ledger row is without its rows.      *)
<1>10. /\ VouchedIsStored'
       /\ wpc' = wpc
       /\ writerFailed => writerFailed'
       /\ ~writerFailed' =>
            /\ ~writerFailed
            /\ \A t \in Tokens : Kept(t)' = Kept(t) \cup TimesOf(t, item.rows)
            /\ \A row \in wStates' : Backed(row, Kept(row.token)')
  <2>1. CASE writerFailed /\ UNCHANGED <<database, writer>>
    BY <2>1 DEF ClaimsAreBacked, VouchedIsStored, database, writer
  <2>2. CASE /\ ~writerFailed /\ wOdds' = rows /\ wStates' = states
             /\ UNCHANGED <<database, wpc, dirty, writerFailed>>
    <3>1. \A t \in Tokens : Kept(t)' = history[t] \cup TimesOf(t, rows)
      BY <2>2 DEF Kept, database
    <3>2. \A row \in wStates' : Backed(row, Kept(row.token)')
      BY <1>6, <1>7, <2>2, <3>1
    <3> QED BY <1>5, <2>2, <3>1, <3>2 DEF ClaimsAreBacked, VouchedIsStored, database
  <2>3. CASE ~writerFailed /\ FlushBuffers(rows, states, skipped) /\ UNCHANGED wpc
    <3>1. /\ VouchedIsStored'
          /\ ~writerFailed' => /\ wStates' = {}
                               /\ \A t \in Tokens : Kept(t)' = history[t] \cup TimesOf(t, rows)
      BY <1>3, <1>7, <2>3, FlushClaims DEF ClaimsAreBacked
    <3> QED BY <1>5, <2>3, <3>1
  <2> QED BY <1>8, <2>1, <2>2, <2>3
<1>11. FetchedIsUnderWay'
  <2>1. ASSUME ~writerFailed', NEW t \in Tokens
        PROVE  Kept(t) \cup QueuedIn(Len(queue), t) \subseteq (Kept(t) \cup QueuedIn(Len(queue), t))'
    <3>1. (Len(queue') + 1) = Len(queue) /\ Len(queue') \in 0..Len(queue')
      BY <1>1, <1>4, TakeQueued
    <3>2. QueuedIn(Len(queue), t) = TimesOf(t, item.rows) \cup QueuedIn(Len(queue), t)'
      BY <1>1, <3>1, TakeQueued DEF item
    <3> QED BY <1>10, <2>1, <3>2
  <2> QED BY <1>9, <1>10, <2>1, UnderWayKept DEF ClaimsAreBacked, workers, world
<1>12. RowsPrecedeClaims'
  <2> SUFFICES ASSUME ~writerFailed', NEW i \in 1..Len(queue'), NEW row \in queue'[i].states
               PROVE  Backed(row, Kept(row.token)' \cup QueuedIn(i - 1, row.token)')
    BY <1>10 DEF RowsPrecedeClaims, Backed
  <2>1. Len(queue') = Len(queue) - 1 /\ i \in Nat /\ i - 1 \in 0..Len(queue') /\ (i - 1) + 1 = i
        /\ i + 1 \in 1..Len(queue) /\ (i + 1) - 1 = i
    BY <1>1, <1>4
  <2>2. queue'[i] = queue[i + 1]
    BY <1>1, <2>1 DEF QueueOK
  <2>3. queue[i + 1] \in Items
    BY <1>1, <2>1 DEF QueueOK
  <2>4. row.token \in Tokens
    BY <2>2, <2>3 DEF Items, StateRows
  <2>5. Backed(row, Kept(row.token) \cup QueuedIn((i + 1) - 1, row.token))
    BY <1>10, <2>1, <2>2 DEF ClaimsAreBacked, RowsPrecedeClaims
  <2>6. Backed(row, Kept(row.token) \cup QueuedIn(i, row.token))
    BY <2>1, <2>5
  <2>7. QueuedIn(i, row.token) = TimesOf(row.token, item.rows) \cup QueuedIn(i - 1, row.token)'
    <3>1. QueuedIn((i - 1) + 1, row.token)
            = TimesOf(row.token, item.rows) \cup QueuedIn(i - 1, row.token)'
      BY <1>1, <2>1, <2>4, TakeQueued DEF item
    <3> QED BY <2>1, <3>1
  <2>8. Kept(row.token)' = Kept(row.token) \cup TimesOf(row.token, item.rows)
    BY <1>10, <2>4
  <2> QED BY <2>6, <2>7, <2>8, BackedMore
<1>13. Ownership' /\ ProgressInOrder'
  BY <1>9 DEF ClaimsAreBacked, Ownership, ProgressInOrder, Contiguous, Unfetched, world, main,
     workers
<1>14. (wpc = "final" => ~writerFailed)'
  BY <1>10 DEF WriterTake, CanTake
<1> QED BY <1>10, <1>11, <1>12, <1>13, <1>14 DEF ClaimsAreBacked

LEMMA WriterClaims ==
  ASSUME TypeOK, ClaimsAreBacked, Writer
  PROVE  ClaimsAreBacked'
<1>1. CASE WriterTake
  BY <1>1, WriterTakeClaims
<1>2. Ownership' /\ ProgressInOrder' /\ UNCHANGED <<task, prog, now>>
  BY DEF Writer, WriterTake, WriterStop, WriterFinalFlush, WriterRefresh, ClaimsAreBacked,
     Ownership, ProgressInOrder, Contiguous, Unfetched, world, main, workers
<1>3. CASE WriterStop
  <2>1. queue # << >> /\ QueueOK /\ queue' = Tail(queue) /\ Head(queue) = Sentinel
        /\ UNCHANGED <<history, vouched, wOdds, wStates, writerFailed>>
    BY <1>3 DEF WriterStop, TypeOK, database
  <2>2. \A t : TimesOf(t, Head(queue).rows) = {}
    BY <2>1, TimesOfUnion DEF Sentinel, Item
  <2>3. \A t : Kept(t)' = Kept(t)
    BY <2>1 DEF Kept
  <2>4. Len(queue') = Len(queue) - 1 /\ Len(queue') \in Nat
    BY <2>1 DEF QueueOK
  <2>5. ASSUME NEW t \in Tokens, NEW n \in 0..Len(queue')
        PROVE  QueuedIn(n, t)' = QueuedIn(n + 1, t)
    BY <2>1, <2>2, TakeQueued
  <2>6. FetchedIsUnderWay'
    <3>1. ASSUME NEW t \in Tokens
          PROVE  Kept(t) \cup QueuedIn(Len(queue), t) \subseteq (Kept(t) \cup QueuedIn(Len(queue), t))'
      <4>1. Len(queue') \in 0..Len(queue') /\ Len(queue') + 1 = Len(queue)
        BY <2>1, <2>4 DEF QueueOK
      <4>2. QueuedIn(Len(queue), t)' = QueuedIn(Len(queue), t)
        BY <2>5, <4>1
      <4> QED BY <2>3, <4>2
    <3> QED BY <1>2, <2>1, <3>1, UnderWayKept DEF ClaimsAreBacked
  <2>7. RowsPrecedeClaims'
    <3> SUFFICES ASSUME ~writerFailed', NEW i \in 1..Len(queue'), NEW row \in queue'[i].states
                 PROVE  Backed(row, Kept(row.token)' \cup QueuedIn(i - 1, row.token)')
      BY <2>1, <2>3 DEF RowsPrecedeClaims, Backed, ClaimsAreBacked
    <3>1. i - 1 \in 0..Len(queue') /\ (i - 1) + 1 = i /\ i + 1 \in 1..Len(queue) /\ (i + 1) - 1 = i
      BY <2>4
    <3>2. queue'[i] = queue[i + 1] /\ queue[i + 1] \in Items
      BY <2>1, <3>1 DEF QueueOK
    <3>3. row.token \in Tokens
      BY <3>2 DEF Items, StateRows
    <3>4. Backed(row, Kept(row.token) \cup QueuedIn((i + 1) - 1, row.token))
      BY <2>1, <3>1, <3>2 DEF ClaimsAreBacked, RowsPrecedeClaims
    <3>5. QueuedIn(i - 1, row.token)' = QueuedIn((i - 1) + 1, row.token)
      BY <2>5, <3>1, <3>3
    <3>6. QueuedIn(i - 1, row.token)' = QueuedIn((i + 1) - 1, row.token)
      BY <3>1, <3>5
    <3> QED BY <2>3, <3>4, <3>6
  <2>8. VouchedIsStored' /\ (wpc = "final" => ~writerFailed)'
    BY <1>3, <2>1 DEF WriterStop, ClaimsAreBacked, VouchedIsStored
  <2> QED BY <1>2, <2>6, <2>7, <2>8 DEF ClaimsAreBacked
<1>4. CASE WriterFinalFlush
  <2>1. /\ ~writerFailed /\ FlushBuffers(wOdds, wStates, wSkips) /\ UNCHANGED queue
        /\ wpc' # "final"
    BY <1>4 DEF WriterFinalFlush, ClaimsAreBacked
  <2>2. wOdds \in SUBSET Rows /\ wStates \in SUBSET StateRows /\ wSkips \in SUBSET Tokens
    BY DEF TypeOK, WriterOK
  <2>3. \A row \in wStates : Backed(row, history[row.token] \cup TimesOf(row.token, wOdds))
    BY <2>1 DEF ClaimsAreBacked, RowsPrecedeClaims, Kept
  <2>4. /\ VouchedIsStored'
        /\ ~writerFailed' => wStates' = {} /\ \A t \in Tokens : Kept(t)' = Kept(t)
    BY <2>1, <2>2, <2>3, FlushClaims DEF ClaimsAreBacked, Kept
  <2>5. \A n, t : QueuedIn(n, t)' = QueuedIn(n, t)
    BY <2>1 DEF QueuedIn
  <2>6. FetchedIsUnderWay'
    BY <1>2, <2>1, <2>4, <2>5, UnderWayKept DEF ClaimsAreBacked
  <2>7. RowsPrecedeClaims'
    <3> SUFFICES ASSUME ~writerFailed', NEW i \in 1..Len(queue), NEW row \in queue[i].states
                 PROVE  Backed(row, Kept(row.token)' \cup QueuedIn(i - 1, row.token)')
      BY <2>1, <2>4 DEF RowsPrecedeClaims, Backed
    <3>1. queue[i] \in Items
      BY DEF TypeOK, QueueOK
    <3>2. row.token \in Tokens
      BY <3>1 DEF Items, StateRows
    <3> QED BY <2>1, <2>4, <2>5, <3>2 DEF ClaimsAreBacked, RowsPrecedeClaims
  <2> QED BY <1>2, <2>1, <2>4, <2>6, <2>7 DEF ClaimsAreBacked
<1>5. CASE WriterRefresh
  <2>1. /\ UNCHANGED <<history, vouched, wOdds, wStates, queue>>
        /\ writerFailed => writerFailed'
        /\ wpc' # "final"
    BY <1>5 DEF WriterRefresh
  <2>2. \A n, t : Kept(t)' = Kept(t) /\ QueuedIn(n, t)' = QueuedIn(n, t)
    BY <2>1 DEF Kept, QueuedIn
  <2>3. FetchedIsUnderWay'
    BY <1>2, <2>1, <2>2, UnderWayKept DEF ClaimsAreBacked
  <2>4. RowsPrecedeClaims' /\ VouchedIsStored'
    BY <2>1, <2>2 DEF ClaimsAreBacked, RowsPrecedeClaims, VouchedIsStored, Backed, RunInterval
  <2> QED BY <1>2, <2>1, <2>3, <2>4 DEF ClaimsAreBacked
<1> QED BY <1>1, <1>3, <1>4, <1>5 DEF Writer

-----------------------------------------------------------------------------
(* The main thread and the world.                                          *)

LEMMA InitClaims == Init => ClaimsAreBacked
<1> SUFFICES ASSUME Init PROVE ClaimsAreBacked
  OBVIOUS
<1>1. \A s \in Slots : task[s].members = {}
  BY DEF Init, FreeTask
<1>2. Ownership /\ ProgressInOrder /\ FetchedIsUnderWay
  BY <1>1 DEF Init, Ownership, ProgressInOrder, FetchedIsUnderWay
<1>3. RowsPrecedeClaims /\ VouchedIsStored
  BY DEF Init, RowsPrecedeClaims, VouchedIsStored
<1> QED BY <1>2, <1>3 DEF Init, ClaimsAreBacked

(* Steps that touch neither rows nor claims.                               *)
LEMMA FrameClaims ==
  ASSUME ClaimsAreBacked, UNCHANGED <<history, vouched, queue, writer>>
  PROVE  /\ RowsPrecedeClaims' /\ VouchedIsStored' /\ (wpc = "final" => ~writerFailed)'
         /\ writerFailed' = writerFailed
         /\ \A n, t : Kept(t)' = Kept(t) /\ QueuedIn(n, t)' = QueuedIn(n, t)
<1>1. \A n, t : Kept(t)' = Kept(t) /\ QueuedIn(n, t)' = QueuedIn(n, t)
  BY DEF Kept, QueuedIn, writer
<1> QED BY <1>1 DEF ClaimsAreBacked, RowsPrecedeClaims, VouchedIsStored, Backed, RunInterval, writer

(* Between runs no worker has a token.                                     *)
LEMMA IdleClaims ==
  ASSUME TypeOK, ClaimsAreBacked, Tick \/ (\E t \in Tokens : CloseMarket(t)) \/ StartRun \/ NoopRun
  PROVE  ClaimsAreBacked'
<1>1. phase = "idle" /\ UNCHANGED <<history, vouched, queue, writer, task, report>>
  BY DEF Tick, CloseMarket, StartRun, NoopRun, database, main, workers
<1>2. todo = {} /\ report = {} /\ \A s \in Slots : task[s].members = {}
  BY <1>1 DEF ClaimsAreBacked, Ownership
<1>3. /\ phase' = "idle" => todo' = {}
      /\ \A t \in todo' : Unfetched(prog[t])'
  <2>1. CASE StartRun
    <3>1. ASSUME NEW t \in Tokens, IsPlanned(t)
          PROVE  Unfetched(NewProgress(t))
      BY <3>1 DEF IsPlanned, Unfetched, NewProgress
    <3> QED BY <2>1, <3>1 DEF StartRun, Unfetched, world
  <2>2. CASE Tick \/ (\E t \in Tokens : CloseMarket(t)) \/ NoopRun
    BY <1>2, <2>2 DEF Tick, CloseMarket, NoopRun, main
  <2> QED BY <2>1, <2>2
<1>4. Ownership' /\ ProgressInOrder' /\ FetchedIsUnderWay'
  BY <1>1, <1>2, <1>3 DEF Ownership, ProgressInOrder, FetchedIsUnderWay
<1> QED BY <1>1, <1>4, FrameClaims DEF ClaimsAreBacked

(* A process that ends leaves nothing but the database.                    *)
LEMMA EndClaims ==
  ASSUME ClaimsAreBacked, NEW result, EndProcess(result)
  PROVE  ClaimsAreBacked'
<1>1. \A s \in Slots : task'[s].members = {}
  BY DEF EndProcess, FreeTask
<1>2. Ownership' /\ ProgressInOrder' /\ FetchedIsUnderWay'
  BY <1>1 DEF EndProcess, Ownership, ProgressInOrder, FetchedIsUnderWay
<1>3. RowsPrecedeClaims'
  BY DEF EndProcess, RowsPrecedeClaims
<1>4. VouchedIsStored' /\ (wpc = "final" => ~writerFailed)'
  BY DEF EndProcess, ClaimsAreBacked, VouchedIsStored, database
<1> QED BY <1>2, <1>3, <1>4 DEF ClaimsAreBacked

LEMMA SubmitClaims ==
  ASSUME TypeOK, ClaimsAreBacked, NEW s \in Slots, Submit(s)
  PROVE  ClaimsAreBacked'
<1>1. PICK group \in SUBSET todo, first \in todo :
        /\ first \in group /\ \A t \in group : prog[first].start <= prog[t].start
        /\ todo' = todo \ group
        /\ task' = [task EXCEPT ![s] = [pc |-> "fetch", members |-> group,
                                       at |-> prog[first].start, buf |-> {}]]
  BY DEF Submit
<1>2. UNCHANGED <<history, vouched, queue, writer, prog, now, report, phase>>
      /\ phase = "running" /\ report = {}
  BY DEF Submit, database, world
<1>3. task'[s] = [pc |-> "fetch", members |-> group, at |-> prog[first].start, buf |-> {}]
      /\ \A r \in Slots \ {s} : task'[r] = task[r]
  BY <1>1 DEF TypeOK, WorkersOK
<1>4. Ownership'
  <2>1. \A r \in Slots : r # s => task'[r].members \cap todo = {}
    BY <1>3 DEF ClaimsAreBacked, Ownership
  <2> QED BY <1>1, <1>2, <1>3, <2>1 DEF ClaimsAreBacked, Ownership
<1>5. ASSUME NEW t \in group
      PROVE  /\ prog[first].start <= now /\ Contiguous(prog[t], prog[first].start)
             /\ prog[t].contigUntil = prog[t].start
  <2>1. t \in Tokens /\ first \in Tokens
    BY DEF TypeOK, MainOK
  <2>2. /\ prog[t].start \in Int /\ prog[first].start \in Int /\ now \in Int
    BY <2>1, BoundsAssumption DEF TypeOK, WorldOK, WorkersOK, Progress
  <2>3. Unfetched(prog[t]) /\ Unfetched(prog[first]) /\ prog[first].start <= prog[t].start
    BY <1>1 DEF ClaimsAreBacked, ProgressInOrder
  <2>4. prog[t].maxSeen = prog[t].start /\ prog[t].maxContig = prog[t].start
        /\ prog[t].contigUntil = prog[t].start
    BY <2>3 DEF Unfetched
  <2> QED BY <2>2, <2>3, <2>4 DEF Unfetched, Contiguous
<1>6. ProgressInOrder'
  <2>1. \A t \in todo' : Unfetched(prog[t])'
    BY <1>1, <1>2 DEF ClaimsAreBacked, ProgressInOrder, Unfetched
  <2>2. ASSUME NEW r \in Slots, NEW t \in task'[r].members
        PROVE  /\ task'[r].at <= now /\ Contiguous(prog[t], task'[r].at)
               /\ task'[r].pc = "skipped" => task'[r].buf = {} /\ task'[r].at = now
    BY <1>3, <1>5 DEF ClaimsAreBacked, ProgressInOrder
  <2> QED BY <1>2, <2>1, <2>2 DEF ProgressInOrder, Contiguous
<1>7. FetchedIsUnderWay'
  <2> SUFFICES ASSUME ~writerFailed, NEW r \in Slots, NEW t \in task'[r].members,
                      task'[r].pc # "failed", prog[t].contigUntil > prog[t].start,
                      NEW ts \in Source[t] \cap prog[t].start..prog[t].contigUntil,
                      ts + MaxLag <= now
               PROVE  ts \in Kept(t) \cup QueuedIn(Len(queue), t) \cup TimesOf(t, task'[r].buf)
    BY <1>2, FrameClaims DEF FetchedIsUnderWay
  <2>1. CASE r = s
    <3>1. t \in Tokens
      BY <1>3, <2>1 DEF TypeOK, MainOK
    <3>2. prog[t].start \in Int
      BY <3>1, BoundsAssumption DEF TypeOK, WorkersOK, Progress
    <3> QED BY <1>3, <1>5, <2>1, <3>2
  <2>2. CASE r # s
    BY <1>3, <2>2 DEF ClaimsAreBacked, FetchedIsUnderWay
  <2> QED BY <2>1, <2>2
<1> QED BY <1>2, <1>4, <1>6, <1>7, FrameClaims DEF ClaimsAreBacked

(* A slot that is freed; the other slots keep theirs.                      *)
LEMMA CollectClaims ==
  ASSUME TypeOK, ClaimsAreBacked, NEW s \in Slots, Collect(s) \/ CollectFailed(s)
  PROVE  ClaimsAreBacked'
<1>1. /\ UNCHANGED <<history, vouched, queue, writer, now, phase, todo>>
      /\ report = {} /\ (report' = {} \/ report' = task[s].members) /\ phase = "running"
      /\ \A t \in Tokens \ task[s].members : prog'[t] = prog[t]
  BY DEF Collect, CollectFailed, database, world, main
<1>2. task'[s].members = {} /\ \A r \in Slots \ {s} : task'[r] = task[r]
  BY DEF Collect, CollectFailed, TypeOK, WorkersOK, FreeTask
<1>3. Ownership'
  <2>1. ASSUME NEW r \in Slots PROVE task'[r].members \cap (todo \cup report') = {}
    <3>1. CASE r = s
      BY <1>2, <3>1
    <3>2. CASE r # s
      BY <1>1, <1>2, <3>2 DEF ClaimsAreBacked, Ownership
    <3> QED BY <3>1, <3>2
  <2>2. ASSUME NEW q \in Slots, NEW r \in Slots, q # r
        PROVE  task'[q].members \cap task'[r].members = {}
    BY <1>2, <2>2 DEF ClaimsAreBacked, Ownership
  <2>3. todo \cap report' = {}
    BY <1>1 DEF ClaimsAreBacked, Ownership
  <2> QED BY <1>1, <2>1, <2>2, <2>3 DEF Ownership
<1>4. ASSUME NEW r \in Slots, NEW t \in task'[r].members
      PROVE  task'[r] = task[r] /\ t \in task[r].members /\ prog'[t] = prog[t]
  <2>1. r # s /\ task'[r] = task[r]
    BY <1>2
  <2>2. t \in Tokens \ task[s].members
    BY <2>1 DEF ClaimsAreBacked, Ownership, TypeOK, WorkersOK, Tasks
  <2> QED BY <1>1, <2>1, <2>2
<1>5. ASSUME NEW t \in todo
      PROVE  prog'[t] = prog[t]
  BY <1>1 DEF ClaimsAreBacked, Ownership, TypeOK, MainOK
<1>6. ProgressInOrder'
  BY <1>1, <1>4, <1>5 DEF ClaimsAreBacked, ProgressInOrder, Contiguous, Unfetched
<1>7. FetchedIsUnderWay'
  BY <1>1, <1>4, FrameClaims DEF ClaimsAreBacked, FetchedIsUnderWay
<1> QED BY <1>1, <1>3, <1>6, <1>7, FrameClaims DEF ClaimsAreBacked

(* A put by a thread that changes no worker.                              *)
LEMMA PutUnderWay ==
  ASSUME TypeOK, FetchedIsUnderWay, NEW item \in Items, Put(item),
         UNCHANGED <<history, wOdds, writerFailed, prog, now, task>>
  PROVE  FetchedIsUnderWay'
<1>1. ASSUME NEW t \in Tokens
      PROVE  Kept(t) \cup QueuedIn(Len(queue), t) \subseteq (Kept(t) \cup QueuedIn(Len(queue), t))'
  <2>1. Kept(t)' = Kept(t)
    BY DEF Kept
  <2>2. QueuedIn(Len(queue), t)' = QueuedIn(Len(queue), t) \cup TimesOf(t, item.rows)
    <3>1. QueueOK
      BY DEF TypeOK
    <3> QED BY <3>1, PutQueued
  <2> QED BY <2>1, <2>2
<1> QED BY <1>1, UnderWayKept

LEMMA ReportRetryClaims ==
  ASSUME TypeOK, ClaimsAreBacked, NEW t \in Tokens, ReportRetry(t)
  PROVE  ClaimsAreBacked'
<1> DEFINE item == StateItem({RetryRow(t)})
<1>1. item \in Items /\ item.states = {RetryRow(t)}
  BY StateRowType, ItemTypes DEF StateItem, Item
<1>2. /\ UNCHANGED <<history, vouched, wOdds, wStates, wpc, writerFailed, task, now, phase, todo>>
      /\ Put(item) /\ t \in report /\ report' = report \ {t} /\ phase = "running"
      /\ \A u \in Tokens \ {t} : prog'[u] = prog[u]
  BY DEF ReportRetry, database, world, writer, TypeOK, WorkersOK
<1> HIDE DEF item
<1>3. RowsPrecedeClaims'
  BY <1>1, <1>2, ClaimsPut, RetryRowBacked DEF ClaimsAreBacked, TypeOK
<1>4. Ownership'
  BY <1>2 DEF ClaimsAreBacked, Ownership
<1>5. \A u \in todo : prog'[u] = prog[u]
  BY <1>2 DEF ClaimsAreBacked, Ownership, TypeOK, MainOK
<1>6. \A s \in Slots : \A u \in task[s].members : u \in Tokens /\ prog'[u] = prog[u]
  BY <1>2 DEF ClaimsAreBacked, Ownership, TypeOK, WorkersOK, Tasks
<1>7. ProgressInOrder'
  BY <1>2, <1>5, <1>6 DEF ClaimsAreBacked, ProgressInOrder, Contiguous, Unfetched
<1>8. FetchedIsUnderWay'
  <2>1. \A u \in Tokens : Kept(u)' = Kept(u)
    BY <1>2 DEF Kept
  <2>2. \A u \in Tokens :
          QueuedIn(Len(queue), u)' = QueuedIn(Len(queue), u) \cup TimesOf(u, item.rows)
    <3>1. QueueOK
      BY DEF TypeOK
    <3> QED BY <1>1, <1>2, <3>1, PutQueued
  <2> QED BY <1>2, <1>6, <2>1, <2>2 DEF ClaimsAreBacked, FetchedIsUnderWay
<1>9. VouchedIsStored' /\ (wpc = "final" => ~writerFailed)'
  BY <1>2 DEF ClaimsAreBacked, VouchedIsStored
<1> QED BY <1>3, <1>4, <1>7, <1>8, <1>9 DEF ClaimsAreBacked

LEMMA StopClaims ==
  ASSUME TypeOK, ClaimsAreBacked, Abort \/ Drain
  PROVE  ClaimsAreBacked'
<1>1. /\ UNCHANGED <<history, vouched, writer, task, prog, now, todo, report>>
      /\ phase' # "idle"
      /\ UNCHANGED queue \/ Put(Sentinel)
  BY DEF Abort, Drain, Put, database, world, workers
<1>2. Ownership' /\ ProgressInOrder'
  BY <1>1 DEF ClaimsAreBacked, Ownership, ProgressInOrder, Contiguous, Unfetched
<1>3. CASE UNCHANGED queue
  <2>1. FetchedIsUnderWay'
    BY <1>1, <1>3, UnderWayKept, FrameClaims DEF ClaimsAreBacked
  <2> QED BY <1>1, <1>2, <1>3, <2>1, FrameClaims DEF ClaimsAreBacked
<1>4. CASE Put(Sentinel)
  <2>1. Sentinel \in Items /\ Sentinel.states = {}
    BY ItemTypes DEF Sentinel, Item
  <2>2. UNCHANGED <<history, vouched, wOdds, wStates, wpc, writerFailed, prog, now, task>>
    BY <1>1 DEF writer
  <2>3. RowsPrecedeClaims'
    BY <1>4, <2>1, <2>2, ClaimsPut DEF ClaimsAreBacked, TypeOK
  <2>4. FetchedIsUnderWay'
    BY <1>4, <2>1, <2>2, PutUnderWay DEF ClaimsAreBacked
  <2>5. VouchedIsStored' /\ (wpc = "final" => ~writerFailed)'
    BY <2>2 DEF ClaimsAreBacked, VouchedIsStored
  <2> QED BY <1>2, <2>3, <2>4, <2>5 DEF ClaimsAreBacked
<1> QED BY <1>1, <1>3, <1>4

-----------------------------------------------------------------------------
(* The workers.                                                            *)

LEMMA FetchWindowClaims ==
  ASSUME TypeOK, ClaimsAreBacked, NEW s \in Slots, FetchWindow(s)
  PROVE  ClaimsAreBacked'
<1> DEFINE from   == task[s].at
           to     == Min2(now, from + WindowSize)
           window == {t \in task[s].members : ~prog[t].permanent /\ prog[t].start < to}
<1>1. task[s] \in Tasks /\ now \in Time /\ from < now /\ task[s].pc = "fetch"
  BY DEF TypeOK, WorldOK, WorkersOK, FetchWindow
<1>2. from \in Time /\ to \in Time /\ from < to /\ to <= now /\ window \in SUBSET Tokens
  BY <1>1, WindowAssumption, BoundsAssumption DEF Tasks, Min2
<1>3. PICK result \in [window -> {"ok"} \cup ({"transient", "permanent"} \cap Faults)],
           got \in [window -> SUBSET (from..to)] :
        /\ \A t \in window :
             IF result[t] = "ok" THEN got[t] \in Answers(t, Max2(from, prog[t].start), to)
                                 ELSE got[t] = {}
        /\ prog' = [t \in Tokens |->
                      IF t \in window THEN AfterWindow(prog[t], to, result[t], got[t])
                      ELSE prog[t]]
        /\ task' = [task EXCEPT ![s].at = to,
                       ![s].buf = @ \cup {row \in window \X (from..to) : row[2] \in got[row[1]]}]
  BY DEF FetchWindow
<1>4. UNCHANGED <<history, vouched, queue, writer, now, phase, todo, report>>
  BY DEF FetchWindow, database, world, main
<1> DEFINE new == {row \in window \X (from..to) : row[2] \in got[row[1]]}
<1>5. /\ task'[s].pc = "fetch" /\ task'[s].members = task[s].members /\ task'[s].at = to
      /\ task'[s].buf = task[s].buf \cup new
      /\ \A r \in Slots \ {s} : task'[r] = task[r]
      /\ \A r \in Slots : task'[r].members = task[r].members
  BY <1>1, <1>3 DEF TypeOK, WorkersOK, Tasks
<1>6. ASSUME NEW t \in window
      PROVE  /\ got[t] \in SUBSET (Max2(from, prog[t].start)..to)
             /\ result[t] \in {"ok", "transient", "permanent"}
             /\ result[t] = "ok" => \A ts \in Source[t] \cap Max2(from, prog[t].start)..to :
                                      ts + MaxLag <= now => ts \in TimesOf(t, new)
  <2>1. prog[t].start \in Int
    BY <1>2, BoundsAssumption DEF TypeOK, WorkersOK, Progress
  <2>2. result[t] \in {"ok", "transient", "permanent"}
    OBVIOUS
  <2>3. CASE result[t] = "ok"
    <3>1. got[t] \in Answers(t, Max2(from, prog[t].start), to)
      BY <1>3, <2>3
    <3>2. got[t] \in SUBSET (Max2(from, prog[t].start)..to)
      BY <1>1, <1>2, <2>1, <3>1, BoundsAssumption DEF Answers, Min2, Max2
    <3>3. ASSUME NEW ts \in Source[t] \cap Max2(from, prog[t].start)..to, ts + MaxLag <= now
          PROVE  ts \in TimesOf(t, new)
      <4>1. ts \in got[t]
        BY <3>1, <3>3 DEF Answers
      <4>2. <<t, ts>> \in new
        BY <4>1
      <4> QED BY <4>2, TimesOfMember
    <3> QED BY <2>2, <3>2, <3>3
  <2>4. CASE result[t] # "ok"
    BY <1>3, <2>2, <2>4
  <2> QED BY <2>3, <2>4
<1> HIDE DEF from, to, new
<1>7. Ownership'
  BY <1>4, <1>5 DEF ClaimsAreBacked, Ownership
<1>8. ASSUME NEW t \in Tokens, t \notin task[s].members
      PROVE  prog'[t] = prog[t]
  BY <1>3, <1>8
<1>9. ASSUME NEW t \in task[s].members
      PROVE  /\ t \in Tokens /\ prog[t] \in Progress /\ Contiguous(prog[t], from)
             /\ prog'[t] = IF t \in window THEN AfterWindow(prog[t], to, result[t], got[t])
                           ELSE prog[t]
             /\ t \notin window => prog[t].permanent \/ ~(prog[t].start < to)
  <2>1. t \in Tokens
    BY <1>1 DEF Tasks
  <2>2. prog[t] \in Progress
    BY <2>1 DEF TypeOK, WorkersOK
  <2> QED BY <1>3, <2>1, <2>2 DEF ClaimsAreBacked, ProgressInOrder, from
<1>10. ASSUME NEW t \in task[s].members
       PROVE  Contiguous(prog'[t], to)
  <2>1. CASE t \in window
    <3>1. ~prog[t].permanent /\ prog[t].start < to
      BY <2>1
    <3> HIDE DEF window
    <3> QED BY <1>1, <1>2, <1>6, <1>9, <2>1, <3>1, WindowContiguous
  <2>2. CASE t \notin window
    <3> HIDE DEF window
    <3> QED BY <1>1, <1>2, <1>9, <2>2, SkippedContiguous
  <2> QED BY <2>1, <2>2
<1>11. ProgressInOrder'
  <2>1. \A t \in todo : prog'[t] = prog[t]
    BY <1>8 DEF ClaimsAreBacked, Ownership, TypeOK, MainOK
  <2>2. ASSUME NEW r \in Slots, NEW t \in task[r].members
        PROVE  /\ task'[r].at <= now /\ Contiguous(prog'[t], task'[r].at)
               /\ task'[r].pc = "skipped" => task'[r].buf = {} /\ task'[r].at = now
    <3>1. CASE r = s
      BY <1>2, <1>5, <1>10, <3>1
    <3>2. CASE r # s
      <4>1. t \in Tokens /\ t \notin task[s].members
        BY <3>2 DEF ClaimsAreBacked, Ownership, TypeOK, WorkersOK, Tasks
      <4> QED BY <1>5, <1>8, <3>2, <4>1 DEF ClaimsAreBacked, ProgressInOrder
    <3> QED BY <3>1, <3>2
  <2> QED BY <1>4, <1>5, <2>1, <2>2 DEF ClaimsAreBacked, ProgressInOrder, Contiguous, Unfetched
<1>12. FetchedIsUnderWay'
  <2> SUFFICES ASSUME ~writerFailed, NEW r \in Slots, NEW t \in task[r].members,
                      task'[r].pc # "failed", prog'[t].contigUntil > prog'[t].start,
                      NEW ts \in Source[t] \cap prog'[t].start..prog'[t].contigUntil,
                      ts + MaxLag <= now
               PROVE  ts \in Kept(t) \cup QueuedIn(Len(queue), t) \cup TimesOf(t, task'[r].buf)
    BY <1>4, <1>5, FrameClaims DEF ClaimsAreBacked, FetchedIsUnderWay
  <2>1. CASE r # s
    <3>1. t \in Tokens /\ t \notin task[s].members
      BY <2>1 DEF ClaimsAreBacked, Ownership, TypeOK, WorkersOK, Tasks
    <3> QED BY <1>5, <1>8, <2>1, <3>1 DEF ClaimsAreBacked, FetchedIsUnderWay
  <2>2. CASE r = s
    <3> DEFINE p == prog[t]
    <3>1. p \in Progress /\ Contiguous(p, from)
      BY <1>9, <2>2
    <3>2. TimesOf(t, task'[s].buf) = TimesOf(t, task[s].buf) \cup TimesOf(t, new)
      BY <1>5, TimesOfUnion
    <3>3. ASSUME ts \in p.start..p.contigUntil, p.contigUntil > p.start
          PROVE  ts \in Kept(t) \cup QueuedIn(Len(queue), t) \cup TimesOf(t, task[s].buf)
      BY <1>1, <2>2, <3>3 DEF ClaimsAreBacked, FetchedIsUnderWay
    <3>4. CASE /\ t \in window /\ result[t] = "ok" /\ p.contigOk
      <4>1. prog'[t].start = p.start /\ prog'[t].contigUntil = to /\ ~p.permanent
        BY <1>9, <2>2, <3>1, <3>4 DEF AfterWindow, Progress
      <4>2. ts \in p.start..to
        BY <4>1
      <4>3. /\ p.start \in Int /\ p.contigUntil \in Int /\ from \in Int /\ to \in Int /\ ts \in Int
        BY <1>2, <3>1, <4>2, BoundsAssumption DEF Progress
      <4> HIDE DEF p, window
      <4>4. ts \in Max2(from, p.start)..to \/ (ts \in p.start..p.contigUntil /\ p.contigUntil > p.start)
        BY <3>1, <3>4, <4>1, <4>2, <4>3 DEF Contiguous, Max2
      <4> USE DEF p
      <4> QED BY <1>6, <2>2, <3>2, <3>3, <3>4, <4>4
    <3>5. CASE ~(t \in window /\ result[t] = "ok" /\ p.contigOk)
      <4>1. prog'[t].start = p.start /\ prog'[t].contigUntil = p.contigUntil
        <5>1. CASE t \in window
          <6>1. prog'[t] = AfterWindow(p, to, result[t], got[t]) /\ p \in Progress
            BY <1>9, <2>2, <5>1
          <6>2. result[t] \in {"transient", "permanent"} \/ (result[t] = "ok" /\ ~p.contigOk)
            BY <1>6, <3>5, <5>1
          <6> HIDE DEF p, window
          <6> QED BY <6>1, <6>2 DEF AfterWindow, Progress
        <5>2. CASE t \notin window
          BY <1>9, <2>2, <5>2
        <5> QED BY <5>1, <5>2
      <4> QED BY <2>2, <3>2, <3>3, <4>1
    <3> QED BY <3>4, <3>5
  <2> QED BY <2>1, <2>2
<1> QED BY <1>4, <1>7, <1>11, <1>12, FrameClaims DEF ClaimsAreBacked

(* What the other actions of a worker share: the slot's progress stays.    *)
LEMMA SlotFrame ==
  ASSUME ClaimsAreBacked, NEW s \in Slots, task[s].at = task'[s].at,
         task'[s].members = task[s].members,
         task'[s].pc = "skipped" => task'[s].buf = {} /\ task'[s].at = now,
         \A r \in Slots \ {s} : task'[r] = task[r],
         UNCHANGED <<prog, now, phase, todo, report>>
  PROVE  Ownership' /\ ProgressInOrder'
<1>1. \A r \in Slots : task'[r].members = task[r].members
  OBVIOUS
<1>2. Ownership'
  BY <1>1 DEF ClaimsAreBacked, Ownership
<1>3. ProgressInOrder'
  BY DEF ClaimsAreBacked, ProgressInOrder, Contiguous, Unfetched
<1> QED BY <1>2, <1>3

LEMMA PutOddsClaims ==
  ASSUME TypeOK, ClaimsAreBacked, NEW s \in Slots, PutOdds(s)
  PROVE  ClaimsAreBacked'
<1> DEFINE item == OddsItem(task[s].buf)
<1>1. task[s] \in Tasks /\ task[s].pc = "fetch"
  BY DEF TypeOK, WorkersOK, PutOdds
<1>2. item \in Items /\ item.states = {} /\ item.rows = task[s].buf
  BY <1>1, ItemTypes DEF Tasks, OddsItem, Item
<1>3. /\ UNCHANGED <<history, vouched, wOdds, wStates, wpc, writerFailed, prog, now, phase, todo,
                     report>>
      /\ Put(item)
  BY DEF PutOdds, database, world, main, writer
<1>4. task'[s] = [task[s] EXCEPT !.buf = {}] /\ \A r \in Slots \ {s} : task'[r] = task[r]
  BY DEF PutOdds, TypeOK, WorkersOK
<1> HIDE DEF item
<1>5. /\ task'[s].pc = "fetch" /\ task'[s].at = task[s].at /\ task'[s].buf = {}
      /\ task'[s].members = task[s].members
  BY <1>1, <1>4 DEF Tasks
<1>6. Ownership' /\ ProgressInOrder'
  BY <1>3, <1>4, <1>5, SlotFrame
<1>7. RowsPrecedeClaims'
  BY <1>2, <1>3, ClaimsPut DEF ClaimsAreBacked, TypeOK
<1>8. FetchedIsUnderWay'
  <2> SUFFICES ASSUME ~writerFailed, NEW r \in Slots, NEW t \in task[r].members,
                      task'[r].pc # "failed", prog[t].contigUntil > prog[t].start,
                      NEW ts \in Source[t] \cap prog[t].start..prog[t].contigUntil,
                      ts + MaxLag <= now
               PROVE  ts \in (Kept(t) \cup QueuedIn(Len(queue), t))' \cup TimesOf(t, task'[r].buf)
    BY <1>3, <1>4, <1>5 DEF FetchedIsUnderWay
  <2>1. t \in Tokens
    BY DEF TypeOK, WorkersOK, Tasks
  <2>2. Kept(t)' = Kept(t)
    BY <1>3 DEF Kept
  <2>3. QueuedIn(Len(queue), t)' = QueuedIn(Len(queue), t) \cup TimesOf(t, task[s].buf)
    BY <1>2, <1>3, <2>1, PutQueued DEF TypeOK
  <2>4. ts \in Kept(t) \cup QueuedIn(Len(queue), t) \cup TimesOf(t, task[r].buf)
    BY <1>1, <1>4 DEF ClaimsAreBacked, FetchedIsUnderWay
  <2>5. CASE r = s
    BY <2>2, <2>3, <2>4, <2>5
  <2>6. CASE r # s
    BY <1>4, <2>2, <2>3, <2>4, <2>6
  <2> QED BY <2>5, <2>6
<1>9. VouchedIsStored' /\ (wpc = "final" => ~writerFailed)'
  BY <1>3 DEF ClaimsAreBacked, VouchedIsStored
<1> QED BY <1>6, <1>7, <1>8, <1>9 DEF ClaimsAreBacked

(* A put that is the last but one, or the last, of a worker.               *)
LEMMA FinishedUnderWay ==
  ASSUME TypeOK, FetchedIsUnderWay, NEW s \in Slots, task[s].pc # "failed",
         NEW item \in Items, Put(item),
         task'[s].members = task[s].members, task'[s].buf = task[s].buf,
         \A r \in Slots \ {s} : task'[r] = task[r],
         UNCHANGED <<history, wOdds, writerFailed, prog, now>>
  PROVE  FetchedIsUnderWay'
<1> SUFFICES ASSUME ~writerFailed, NEW r \in Slots, NEW t \in task[r].members,
                    task'[r].pc # "failed", prog[t].contigUntil > prog[t].start,
                    NEW ts \in Source[t] \cap prog[t].start..prog[t].contigUntil,
                    ts + MaxLag <= now
             PROVE  ts \in (Kept(t) \cup QueuedIn(Len(queue), t))' \cup TimesOf(t, task'[r].buf)
  BY DEF FetchedIsUnderWay
<1>1. t \in Tokens
  BY DEF TypeOK, WorkersOK, Tasks
<1>2. Kept(t)' = Kept(t)
  BY DEF Kept
<1>3. QueuedIn(Len(queue), t)' = QueuedIn(Len(queue), t) \cup TimesOf(t, item.rows)
  BY <1>1, PutQueued DEF TypeOK
<1>4. task[r].pc # "failed" /\ task'[r].buf = task[r].buf
  OBVIOUS
<1>5. ts \in Kept(t) \cup QueuedIn(Len(queue), t) \cup TimesOf(t, task[r].buf)
  BY <1>4 DEF FetchedIsUnderWay
<1> QED BY <1>2, <1>3, <1>4, <1>5

LEMMA PutSkipsClaims ==
  ASSUME TypeOK, ClaimsAreBacked, NEW s \in Slots, PutSkips(s)
  PROVE  ClaimsAreBacked'
<1> DEFINE item == SkipItem(PermanentOf(s))
<1>1. task[s] \in Tasks /\ task[s].pc = "fetch" /\ task[s].at = now /\ task[s].buf = {}
  BY DEF TypeOK, WorkersOK, PutSkips, FetchedAll
<1>2. PermanentOf(s) \in SUBSET Tokens
  BY <1>1 DEF PermanentOf, Tasks
<1>3. item \in Items /\ item.states = {}
  BY <1>2, ItemTypes DEF SkipItem, Item
<1>4. /\ UNCHANGED <<history, vouched, wOdds, wStates, wpc, writerFailed, prog, now, phase, todo,
                     report>>
      /\ Put(item)
  BY DEF PutSkips, database, world, main, writer
<1>5. task'[s] = [task[s] EXCEPT !.pc = "skipped"] /\ \A r \in Slots \ {s} : task'[r] = task[r]
  BY DEF PutSkips, TypeOK, WorkersOK
<1> HIDE DEF item
<1>6. /\ task'[s].at = task[s].at /\ task'[s].buf = {} /\ task'[s].members = task[s].members
  BY <1>1, <1>5 DEF Tasks
<1>7. Ownership' /\ ProgressInOrder'
  BY <1>1, <1>4, <1>5, <1>6, SlotFrame
<1>8. RowsPrecedeClaims'
  BY <1>3, <1>4, ClaimsPut DEF ClaimsAreBacked, TypeOK
<1>9. FetchedIsUnderWay'
  BY <1>1, <1>3, <1>4, <1>5, <1>6, FinishedUnderWay DEF ClaimsAreBacked
<1>10. VouchedIsStored' /\ (wpc = "final" => ~writerFailed)'
  BY <1>4 DEF ClaimsAreBacked, VouchedIsStored
<1> QED BY <1>7, <1>8, <1>9, <1>10 DEF ClaimsAreBacked

(* The ledger rows of a group: the rows they speak for are on the queue     *)
(* before them.                                                            *)
LEMMA PutStatesClaims ==
  ASSUME TypeOK, ClaimsAreBacked, NEW s \in Slots, PutStates(s)
  PROVE  ClaimsAreBacked'
<1> DEFINE states == {StateRow(t) : t \in task[s].members}
           item   == StateItem(states)
<1>1. task[s] \in Tasks
  BY DEF TypeOK, WorkersOK
<1>2. task[s].pc \in {"fetch", "skipped"} /\ \A t \in task[s].members : task[s].at = now /\ task[s].buf = {}
  BY DEF PutStates, FetchedAll, ClaimsAreBacked, ProgressInOrder
<1>3. states \in SUBSET StateRows
  BY <1>1, StateRowType DEF Tasks
<1>4. item \in Items /\ item.states = states
  BY <1>3, ItemTypes DEF StateItem, Item
<1>5. /\ UNCHANGED <<history, vouched, wOdds, wStates, wpc, writerFailed, prog, now, phase, todo,
                     report>>
      /\ Put(item)
  BY DEF PutStates, database, world, main, writer
<1>6. task'[s] = [task[s] EXCEPT !.pc = "done"] /\ \A r \in Slots \ {s} : task'[r] = task[r]
  BY DEF PutStates, TypeOK, WorkersOK
<1> HIDE DEF item
<1>7. /\ task'[s].at = task[s].at /\ task'[s].buf = task[s].buf
      /\ task'[s].members = task[s].members /\ task'[s].pc = "done"
  BY <1>1, <1>6 DEF Tasks
<1>8. Ownership' /\ ProgressInOrder'
  BY <1>5, <1>6, <1>7, SlotFrame
<1>9. ASSUME ~writerFailed, NEW row \in item.states
      PROVE  Backed(row, Kept(row.token) \cup QueuedIn(Len(queue), row.token))
  <2>1. PICK t \in task[s].members : row = StateRow(t)
    BY <1>4
  <2>2. Backed(StateRow(t), Kept(t) \cup QueuedIn(Len(queue), t))
    BY <1>2, <1>9, StateRowBacked DEF ClaimsAreBacked
  <2>3. StateRow(t).token = t
    BY DEF StateRow
  <2> QED BY <2>1, <2>2, <2>3
<1>10. RowsPrecedeClaims'
  BY <1>4, <1>5, <1>9, ClaimsPut DEF ClaimsAreBacked, TypeOK
<1>11. FetchedIsUnderWay'
  BY <1>2, <1>4, <1>5, <1>6, <1>7, FinishedUnderWay DEF ClaimsAreBacked
<1>12. VouchedIsStored' /\ (wpc = "final" => ~writerFailed)'
  BY <1>5 DEF ClaimsAreBacked, VouchedIsStored
<1> QED BY <1>8, <1>10, <1>11, <1>12 DEF ClaimsAreBacked

LEMMA RequestFailsClaims ==
  ASSUME TypeOK, ClaimsAreBacked, NEW s \in Slots, RequestFails(s)
  PROVE  ClaimsAreBacked'
<1>1. UNCHANGED <<history, vouched, queue, writer, prog, now, phase, todo, report>>
  BY DEF RequestFails, database, world, main
<1>2. /\ task'[s].pc = "failed" /\ task'[s].at = task[s].at /\ task'[s].members = task[s].members
      /\ \A r \in Slots \ {s} : task'[r] = task[r]
  BY DEF RequestFails, TypeOK, WorkersOK, Tasks
<1>3. Ownership' /\ ProgressInOrder'
  BY <1>1, <1>2, SlotFrame
<1>4. FetchedIsUnderWay'
  BY <1>1, <1>2, FrameClaims DEF ClaimsAreBacked, FetchedIsUnderWay
<1> QED BY <1>1, <1>3, <1>4, FrameClaims DEF ClaimsAreBacked

-----------------------------------------------------------------------------
LEMMA StepClaims ==
  ASSUME TypeOK, ClaimsAreBacked, [Next]_vars
  PROVE  ClaimsAreBacked'
<1>1. CASE UNCHANGED vars
  <2>1. UNCHANGED <<history, vouched, queue, writer, task, prog, now, phase, todo, report>>
    BY <1>1 DEF vars, database, world, main, workers
  <2>2. Ownership' /\ ProgressInOrder'
    BY <2>1 DEF ClaimsAreBacked, Ownership, ProgressInOrder, Contiguous, Unfetched
  <2>3. FetchedIsUnderWay'
    BY <2>1, UnderWayKept, FrameClaims DEF ClaimsAreBacked
  <2> QED BY <2>1, <2>2, <2>3, FrameClaims DEF ClaimsAreBacked
<1>2. CASE Tick \/ (\E t \in Tokens : CloseMarket(t)) \/ StartRun \/ NoopRun
  BY <1>2, IdleClaims
<1>3. CASE \E t \in Tokens : ReportRetry(t)
  BY <1>3, ReportRetryClaims
<1>4. CASE \E s \in Slots : Pool(s)
  BY <1>4, SubmitClaims, CollectClaims DEF Pool
<1>5. CASE \E s \in Slots : Worker(s)
  BY <1>5, FetchWindowClaims, RequestFailsClaims, PutOddsClaims, PutSkipsClaims, PutStatesClaims
     DEF Worker
<1>6. CASE Writer
  BY <1>6, WriterClaims
<1>7. CASE Abort \/ Drain
  BY <1>7, StopClaims
<1>8. CASE Finish \/ FinishWithoutWriter \/ FinishAborted \/ Crash
  BY <1>8, EndClaims DEF Finish, FinishWithoutWriter, FinishAborted, Crash
<1> QED BY <1>1, <1>2, <1>3, <1>4, <1>5, <1>6, <1>7, <1>8 DEF Next

(* Rows overtake no claim: every ledger row on the queue or in the writer's *)
(* buffers is behind the rows it speaks for.                               *)
THEOREM ClaimsBacked == Spec => []ClaimsAreBacked
<1>1. Init => ClaimsAreBacked
  BY InitClaims
<1>2. TypeOK /\ ClaimsAreBacked /\ [Next]_vars => ClaimsAreBacked'
  BY StepClaims
<1> QED BY <1>1, <1>2, TypeCorrect, PTL DEF Spec

(* Whatever number of tokens, workers, windows and runs, and whichever of   *)
(* the modelled failures happen: what the API had served between a plan's   *)
(* start and the cursor its ledger row wrote is in odds_history.            *)
THEOREM CursorIsBackedByRows == Spec => []VouchedIsStored
<1>1. ClaimsAreBacked => VouchedIsStored
  BY DEF ClaimsAreBacked
<1> QED BY <1>1, ClaimsBacked, PTL

-----------------------------------------------------------------------------
(* No gap behind a cursor, when no fetch fails: what a cursor has passed   *)
(* reaches the database no later than the cursor.                          *)

(* Everything upstream that is MaxLag older than x is in S.                *)
Reaches(t, x, S) == Source[t] \cap 0..(x - MaxLag) \subseteq S

(* What a ledger row says of its token's history holds of S.               *)
Whole(row, S) ==
  Reaches(row.token, row.cursor, S) /\ (row.fully => Source[row.token] \subseteq S)

(* A market is closed once the API has all its rows.                       *)
ClosedIsServed == \A t \in closed : \A ts \in Source[t] : ts + MaxLag <= now

(* Nothing is missing before the start of a plan, and no fetch has failed. *)
PlansFollow ==
  \A t \in Tokens :
    /\ ~prog[t].permanent /\ ~prog[t].transient
    /\ prog[t].closed => t \in closed
    /\ Source[t] \cap 0..(prog[t].start - 1) \subseteq history[t]

(* Nothing is missing behind a stored row: a ledger without a cursor, or    *)
(* one that reconciles, starts a plan from the newest.                      *)
HistoryReaches == \A t \in Tokens : \A x \in history[t] : Reaches(t, x, history[t])

(* A worker sends the rows of a token oldest first ...                      *)
BuffersInOrder ==
  ~writerFailed =>
    \A s \in Slots : \A row \in task[s].buf :
      Reaches(row[1], row[2],
              Kept(row[1]) \cup QueuedIn(Len(queue), row[1]) \cup TimesOf(row[1], task[s].buf))

(* ... they stay in that order ...                                          *)
RowsInOrder ==
  ~writerFailed =>
    /\ \A row \in wOdds : Reaches(row[1], row[2], Kept(row[1]))
    /\ \A i \in 1..Len(queue) : \A row \in queue[i].rows :
         Reaches(row[1], row[2], Kept(row[1]) \cup QueuedIn(i, row[1]))

(* ... and a ledger row is behind all that its cursor has passed.           *)
ClaimsInOrder ==
  ~writerFailed =>
    /\ \A row \in wStates : Whole(row, Kept(row.token))
    /\ \A i \in 1..Len(queue) : \A row \in queue[i].states :
         Whole(row, Kept(row.token) \cup QueuedIn(i - 1, row.token))

DatabaseReaches == HistoryReaches /\ NoGapBehindCursor /\ FullyCheckedIsComplete

NothingIsPassed ==
  /\ ClosedIsServed /\ PlansFollow
  /\ BuffersInOrder /\ RowsInOrder /\ ClaimsInOrder
  /\ DatabaseReaches

LEMMA ReachesMore ==
  ASSUME NEW t, NEW x, NEW S, NEW T, S \subseteq T, Reaches(t, x, S)
  PROVE  Reaches(t, x, T)
  BY DEF Reaches

LEMMA WholeMore ==
  ASSUME NEW row, NEW S, NEW T, S \subseteq T, Whole(row, S)
  PROVE  Whole(row, T)
  BY DEF Whole, Reaches

-----------------------------------------------------------------------------
(* What is on its way stays in order.                                      *)

(* Steps that leave the queue alone and may empty the writer's buffers.    *)
LEMMA OrderSame ==
  ASSUME TypeOK, RowsInOrder, ClaimsInOrder, UNCHANGED queue,
         ~writerFailed' =>
           /\ ~writerFailed /\ wOdds' \subseteq wOdds /\ wStates' \subseteq wStates
           /\ \A t \in Tokens : Kept(t)' = Kept(t)
  PROVE  RowsInOrder' /\ ClaimsInOrder'
<1> SUFFICES ASSUME ~writerFailed', ~writerFailed PROVE RowsInOrder' /\ ClaimsInOrder'
  BY DEF RowsInOrder, ClaimsInOrder
<1>1. \A n, t : QueuedIn(n, t)' = QueuedIn(n, t)
  BY DEF QueuedIn
<1>2. /\ \A row \in wOdds : row[1] \in Tokens
      /\ \A row \in wStates : row.token \in Tokens
  BY DEF TypeOK, WriterOK, StateRows
<1>3. ASSUME NEW i \in 1..Len(queue)
      PROVE  /\ \A row \in queue[i].rows : row[1] \in Tokens
             /\ \A row \in queue[i].states : row.token \in Tokens
  <2>1. queue[i] \in Items
    BY DEF TypeOK, QueueOK
  <2> QED BY <2>1 DEF Items, StateRows
<1>4. RowsInOrder'
  BY <1>1, <1>2, <1>3 DEF RowsInOrder, Reaches
<1>5. ClaimsInOrder'
  BY <1>1, <1>2, <1>3 DEF ClaimsInOrder, Whole, Reaches
<1> QED BY <1>4, <1>5

(* The writer takes the head of the queue.                                 *)
LEMMA OrderTake ==
  ASSUME TypeOK, RowsInOrder, ClaimsInOrder, queue # << >>, queue' = Tail(queue),
         ~writerFailed' =>
           /\ ~writerFailed
           /\ wOdds' \subseteq wOdds \cup Head(queue).rows
           /\ wStates' \subseteq wStates \cup Head(queue).states
           /\ \A t \in Tokens : Kept(t)' = Kept(t) \cup TimesOf(t, Head(queue).rows)
  PROVE  RowsInOrder' /\ ClaimsInOrder'
<1> SUFFICES ASSUME ~writerFailed', ~writerFailed PROVE RowsInOrder' /\ ClaimsInOrder'
  BY DEF RowsInOrder, ClaimsInOrder
<1>1. /\ Len(queue') = Len(queue) - 1 /\ Len(queue') \in Nat
      /\ Head(queue) = queue[1] /\ 1 \in 1..Len(queue) /\ Len(queue) \in Nat
  BY DEF TypeOK, QueueOK
<1>2. \A i \in 1..Len(queue) : queue[i] \in Items
  BY DEF TypeOK, QueueOK
<1>3. ASSUME NEW t \in Tokens
      PROVE  /\ Kept(t) \cup QueuedIn(1, t) \subseteq Kept(t)'
             /\ Kept(t) \cup QueuedIn(1 - 1, t) \subseteq Kept(t)'
             /\ Kept(t) \subseteq Kept(t)'
             /\ \A n \in 0..Len(queue') :
                  Kept(t) \cup QueuedIn(n + 1, t) \subseteq Kept(t)' \cup QueuedIn(n, t)'
  <2>1. \A n \in 0..Len(queue') :
          QueuedIn(n + 1, t) = TimesOf(t, Head(queue).rows) \cup QueuedIn(n, t)'
    BY TakeQueued DEF TypeOK
  <2>2. QueuedIn(1, t) = TimesOf(t, Head(queue).rows) /\ QueuedIn(1 - 1, t) = {}
    BY <1>1 DEF QueuedIn
  <2> QED BY <2>1, <2>2
<1>4. ASSUME NEW i \in 1..Len(queue')
      PROVE  /\ i + 1 \in 1..Len(queue) /\ queue'[i] = queue[i + 1]
             /\ i \in 0..Len(queue') /\ i - 1 \in 0..Len(queue')
             /\ (i - 1) + 1 = i /\ (i + 1) - 1 = i
  BY <1>1 DEF TypeOK, QueueOK
<1>5. ASSUME NEW row \in wOdds'
      PROVE  Reaches(row[1], row[2], Kept(row[1])')
  <2>1. CASE row \in wOdds
    <3>1. row[1] \in Tokens
      BY <2>1 DEF TypeOK, WriterOK
    <3>2. Reaches(row[1], row[2], Kept(row[1]))
      BY <2>1 DEF RowsInOrder
    <3> QED BY <1>3, <3>1, <3>2, ReachesMore
  <2>2. CASE row \in Head(queue).rows
    <3>1. row[1] \in Tokens
      BY <1>1, <1>2, <2>2 DEF Items
    <3>2. Reaches(row[1], row[2], Kept(row[1]) \cup QueuedIn(1, row[1]))
      BY <1>1, <2>2 DEF RowsInOrder
    <3> QED BY <1>3, <3>1, <3>2, ReachesMore
  <2> QED BY <2>1, <2>2
<1>6. ASSUME NEW i \in 1..Len(queue'), NEW row \in queue'[i].rows
      PROVE  Reaches(row[1], row[2], Kept(row[1])' \cup QueuedIn(i, row[1])')
  <2>1. row \in queue[i + 1].rows /\ row[1] \in Tokens
    BY <1>2, <1>4 DEF Items
  <2>2. Reaches(row[1], row[2], Kept(row[1]) \cup QueuedIn(i + 1, row[1]))
    BY <1>4, <2>1 DEF RowsInOrder
  <2> QED BY <1>3, <1>4, <2>1, <2>2, ReachesMore
<1>7. ASSUME NEW row \in wStates'
      PROVE  Whole(row, Kept(row.token)')
  <2>1. CASE row \in wStates
    <3>1. row.token \in Tokens
      BY <2>1 DEF TypeOK, WriterOK, StateRows
    <3>2. Whole(row, Kept(row.token))
      BY <2>1 DEF ClaimsInOrder
    <3> QED BY <1>3, <3>1, <3>2, WholeMore
  <2>2. CASE row \in Head(queue).states
    <3>1. row.token \in Tokens
      BY <1>1, <1>2, <2>2 DEF Items, StateRows
    <3>2. Whole(row, Kept(row.token) \cup QueuedIn(1 - 1, row.token))
      BY <1>1, <2>2 DEF ClaimsInOrder
    <3> QED BY <1>3, <3>1, <3>2, WholeMore
  <2> QED BY <2>1, <2>2
<1>8. ASSUME NEW i \in 1..Len(queue'), NEW row \in queue'[i].states
      PROVE  Whole(row, Kept(row.token)' \cup QueuedIn(i - 1, row.token)')
  <2>1. row \in queue[i + 1].states /\ row.token \in Tokens
    BY <1>2, <1>4 DEF Items, StateRows
  <2>2. Whole(row, Kept(row.token) \cup QueuedIn((i + 1) - 1, row.token))
    BY <1>4, <2>1 DEF ClaimsInOrder
  <2>3. Whole(row, Kept(row.token) \cup QueuedIn((i - 1) + 1, row.token))
    BY <1>4, <2>2
  <2>4. Kept(row.token) \cup QueuedIn((i - 1) + 1, row.token)
          \subseteq Kept(row.token)' \cup QueuedIn(i - 1, row.token)'
    BY <1>3, <1>4, <2>1
  <2> QED BY <2>3, <2>4, WholeMore
<1>9. RowsInOrder'
  BY <1>5, <1>6 DEF RowsInOrder, Reaches
<1>10. ClaimsInOrder'
  BY <1>7, <1>8 DEF ClaimsInOrder, Whole, Reaches
<1> QED BY <1>9, <1>10

(* An item goes on the queue.                                              *)
LEMMA OrderPut ==
  ASSUME TypeOK, RowsInOrder, ClaimsInOrder, NEW item \in Items, Put(item),
         UNCHANGED <<history, wOdds, wStates, writerFailed>>,
         ~writerFailed =>
           /\ \A row \in item.rows :
                Reaches(row[1], row[2],
                        Kept(row[1]) \cup QueuedIn(Len(queue), row[1]) \cup TimesOf(row[1], item.rows))
           /\ \A row \in item.states :
                Whole(row, Kept(row.token) \cup QueuedIn(Len(queue), row.token))
  PROVE  RowsInOrder' /\ ClaimsInOrder'
<1> SUFFICES ASSUME ~writerFailed', ~writerFailed PROVE RowsInOrder' /\ ClaimsInOrder'
  BY DEF RowsInOrder, ClaimsInOrder
<1>1. \A t : Kept(t)' = Kept(t)
  BY DEF Kept
<1>2. Len(queue) \in Nat /\ \A i \in 1..Len(queue) : queue[i] \in Items
  BY DEF TypeOK, QueueOK
<1>3. /\ Len(queue') = Len(queue) + 1
      /\ \A i \in 1..Len(queue) : queue'[i] = queue[i]
      /\ queue'[Len(queue) + 1] = item
  BY <1>2 DEF Put, TypeOK, QueueOK
<1>4. \A t \in Tokens :
        /\ \A n \in 0..Len(queue) : QueuedIn(n, t)' = QueuedIn(n, t)
        /\ \A n : n = Len(queue) + 1 =>
             QueuedIn(n, t)' = QueuedIn(Len(queue), t) \cup TimesOf(t, item.rows)
  <2> TAKE t \in Tokens
  <2>1. /\ \A n \in 0..Len(queue) : QueuedIn(n, t)' = QueuedIn(n, t)
        /\ QueuedIn(Len(queue), t)' = QueuedIn(Len(queue), t) \cup TimesOf(t, item.rows)
    <3>1. QueueOK
      BY DEF TypeOK
    <3> QED BY <3>1, PutQueued
  <2> QED BY <1>2, <1>3, <2>1
<1>5. ASSUME NEW i \in 1..Len(queue')
      PROVE  /\ \A row \in queue'[i].rows :
                  Reaches(row[1], row[2], Kept(row[1])' \cup QueuedIn(i, row[1])')
             /\ \A row \in queue'[i].states :
                  Whole(row, Kept(row.token)' \cup QueuedIn(i - 1, row.token)')
  <2>1. CASE i \in 1..Len(queue)
    <3>1. queue'[i] = queue[i] /\ queue[i] \in Items /\ i \in 0..Len(queue) /\ i - 1 \in 0..Len(queue)
      BY <1>2, <1>3, <2>1
    <3>2. /\ \A row \in queue[i].rows : row[1] \in Tokens
          /\ \A row \in queue[i].states : row.token \in Tokens
      BY <3>1 DEF Items, StateRows
    <3> QED BY <1>1, <1>4, <2>1, <3>1, <3>2 DEF RowsInOrder, ClaimsInOrder
  <2>2. CASE i = Len(queue) + 1
    <3>1. queue'[i] = item /\ i - 1 = Len(queue)
      BY <1>2, <1>3, <2>2
    <3>2. /\ \A row \in item.rows : row[1] \in Tokens
          /\ \A row \in item.states : row.token \in Tokens
      BY DEF Items, StateRows
    <3>3. ASSUME NEW row \in item.rows
          PROVE  Reaches(row[1], row[2], Kept(row[1])' \cup QueuedIn(i, row[1])')
      <4>1. Kept(row[1])' \cup QueuedIn(i, row[1])'
              = Kept(row[1]) \cup QueuedIn(Len(queue), row[1]) \cup TimesOf(row[1], item.rows)
        BY <1>1, <1>4, <2>2, <3>2
      <4> QED BY <4>1, ReachesMore
    <3>4. ASSUME NEW row \in item.states
          PROVE  Whole(row, Kept(row.token)' \cup QueuedIn(i - 1, row.token)')
      <4>0. i - 1 \in 0..Len(queue) /\ row.token \in Tokens
        BY <1>2, <3>1, <3>2
      <4>1. Kept(row.token)' \cup QueuedIn(i - 1, row.token)'
              = Kept(row.token) \cup QueuedIn(Len(queue), row.token)
        BY <1>1, <1>4, <3>1, <4>0
      <4> QED BY <4>1, WholeMore
    <3> QED BY <3>1, <3>3, <3>4
  <2>3. i \in 1..Len(queue) \/ i = Len(queue) + 1
    BY <1>2, <1>3
  <2> QED BY <2>1, <2>2, <2>3
<1>6. \A row \in wOdds' : Reaches(row[1], row[2], Kept(row[1])')
  BY <1>1 DEF RowsInOrder
<1>7. \A row \in wStates' : Whole(row, Kept(row.token)')
  BY <1>1 DEF ClaimsInOrder
<1> QED BY <1>5, <1>6, <1>7 DEF RowsInOrder, ClaimsInOrder, Reaches, Whole

(* Steps after which the workers' buffers are what they were, or empty.    *)
LEMMA BuffersKept ==
  ASSUME TypeOK, BuffersInOrder,
         \A s \in Slots : task'[s].buf = task[s].buf \/ task'[s].buf = {},
         ~writerFailed' => ~writerFailed,
         ~writerFailed' => \A t \in Tokens :
            Kept(t) \cup QueuedIn(Len(queue), t) \subseteq (Kept(t) \cup QueuedIn(Len(queue), t))'
  PROVE  BuffersInOrder'
<1> SUFFICES ASSUME ~writerFailed', NEW s \in Slots, NEW row \in task'[s].buf
             PROVE  Reaches(row[1], row[2],
                            (Kept(row[1]) \cup QueuedIn(Len(queue), row[1]))'
                              \cup TimesOf(row[1], task'[s].buf))
  BY DEF BuffersInOrder, Reaches
<1>1. task'[s].buf = task[s].buf /\ row \in task[s].buf
  OBVIOUS
<1>2. row[1] \in Tokens
  BY <1>1 DEF TypeOK, WorkersOK, Tasks
<1>3. Reaches(row[1], row[2],
              Kept(row[1]) \cup QueuedIn(Len(queue), row[1]) \cup TimesOf(row[1], task[s].buf))
  BY <1>1 DEF BuffersInOrder
<1> QED BY <1>1, <1>2, <1>3, ReachesMore
-----------------------------------------------------------------------------
(* The database and the plans that start from it.                          *)

(* Nothing is missing before the instant a plan starts from.               *)
LEMMA LatestReaches ==
  ASSUME TypeOK, DatabaseReaches, NEW t \in Tokens
  PROVE  Reaches(t, LatestTimestamp(t), history[t])
<1>1. history[t] \in SUBSET Time
  BY DEF TypeOK, DatabaseOK
<1>2. Reaches(t, NoTime, history[t])
  BY LagAssumption DEF Reaches
<1>3. Reaches(t, MaxOf(history[t]), history[t])
  BY <1>1, <1>2, MaxOfProperties DEF DatabaseReaches, HistoryReaches
<1>4. Reaches(t, ledger[t].cursor, history[t])
  BY DEF DatabaseReaches, NoGapBehindCursor, Reaches
<1> QED BY <1>3, <1>4 DEF LatestTimestamp

LEMMA NewPlanFollows ==
  ASSUME TypeOK, DatabaseReaches, NEW t \in Tokens
  PROVE  Source[t] \cap 0..(StartOf(t) - 1) \subseteq history[t]
<1>1. Reaches(t, LatestTimestamp(t), history[t])
  BY LatestReaches
<1>2. LatestTimestamp(t) \in Int
  BY StartOfType, BoundsAssumption
<1>3. 0..(StartOf(t) - 1) \subseteq 0..(LatestTimestamp(t) - MaxLag)
  BY <1>2, LagAssumption DEF StartOf, Max2
<1> QED BY <1>1, <1>3 DEF Reaches

(* A run's repair of the cursors takes them to stored rows only.           *)
LEMMA RepairReaches ==
  ASSUME TypeOK, DatabaseReaches, UNCHANGED history,
         ledger' = [t \in Tokens |-> Repaired(t)]
  PROVE  DatabaseReaches'
<1>1. HistoryReaches'
  BY DEF DatabaseReaches, HistoryReaches, Reaches
<1>2. NoGapBehindCursor'
  <2> SUFFICES ASSUME NEW t \in Tokens
               PROVE  Source[t] \cap 0..(ledger'[t].cursor - MaxLag) \subseteq history[t]
    BY DEF NoGapBehindCursor
  <2>1. ledger[t] \in LedgerRows
    BY DEF TypeOK, DatabaseOK
  <2>2. ledger'[t].cursor = ledger[t].cursor \/ ledger'[t].cursor = LatestTimestamp(t)
    BY <2>1 DEF Repaired, LedgerRows
  <2>3. Reaches(t, ledger[t].cursor, history[t])
    BY DEF DatabaseReaches, NoGapBehindCursor, Reaches
  <2> QED BY <2>2, <2>3, LatestReaches DEF Reaches
<1>3. FullyCheckedIsComplete'
  BY RepairedType DEF DatabaseReaches, FullyCheckedIsComplete
<1> QED BY <1>1, <1>2, <1>3 DEF DatabaseReaches

LEMMA DatabaseSame ==
  ASSUME DatabaseReaches, UNCHANGED <<history, ledger>>
  PROVE  DatabaseReaches'
  BY DEF DatabaseReaches, HistoryReaches, NoGapBehindCursor, FullyCheckedIsComplete, Reaches

(* A transaction whose rows and ledger rows are in order.                  *)
LEMMA CommitReaches ==
  ASSUME TypeOK, DatabaseReaches, NEW rows \in SUBSET Rows, NEW states \in SUBSET StateRows,
         NEW skipped, Commit(rows, states, skipped),
         \A row \in rows : Reaches(row[1], row[2], history[row[1]] \cup TimesOf(row[1], rows)),
         \A row \in states : Whole(row, history[row.token] \cup TimesOf(row.token, rows))
  PROVE  DatabaseReaches'
<1>1. \A t \in Tokens : history'[t] = history[t] \cup TimesOf(t, rows)
  BY DEF Commit
<1>2. ASSUME NEW t \in Tokens, NEW x \in history'[t]
      PROVE  Reaches(t, x, history'[t])
  <2>1. CASE x \in history[t]
    <3>1. Reaches(t, x, history[t])
      BY <2>1 DEF DatabaseReaches, HistoryReaches
    <3> QED BY <1>1, <3>1, ReachesMore
  <2>2. CASE x \in TimesOf(t, rows)
    <3>1. PICK row \in rows : row[1] = t /\ row[2] = x
      BY <2>2, TimesOfMember
    <3>2. Reaches(t, x, history[t] \cup TimesOf(t, rows))
      BY <3>1
    <3> QED BY <1>1, <3>2
  <2> QED BY <1>1, <2>1, <2>2
<1>3. ASSUME NEW t \in Tokens
      PROVE  /\ Reaches(t, ledger'[t].cursor, history'[t])
             /\ ledger'[t].fully => Source[t] \subseteq history'[t]
  <2>1. /\ Reaches(t, ledger[t].cursor, history'[t])
        /\ ledger[t].fully => Source[t] \subseteq history'[t]
    BY <1>1 DEF DatabaseReaches, NoGapBehindCursor, FullyCheckedIsComplete, Reaches
  <2>2. CASE RowsOf(t, states) = {}
    BY <2>1, <2>2 DEF Commit
  <2>3. CASE RowsOf(t, states) # {}
    <3>1. PICK row \in RowsOf(t, states) : ledger'[t] = Upsert(ledger[t], row)
      BY <2>3 DEF Commit
    <3>2. row \in states /\ row.token = t
      BY <3>1 DEF RowsOf
    <3>3. Whole(row, history'[t])
      BY <1>1, <3>2
    <3>4. /\ Reaches(t, row.cursor, history'[t])
          /\ row.fully => Source[t] \subseteq history'[t]
      BY <3>2, <3>3 DEF Whole
    <3>5. /\ ledger'[t].cursor = ledger[t].cursor \/ ledger'[t].cursor = row.cursor
          /\ ledger'[t].fully => ledger[t].fully \/ row.fully
      <4>1. ledger[t] \in LedgerRows /\ row \in StateRows
        BY <3>2 DEF TypeOK, DatabaseOK
      <4> QED BY <3>1, <4>1 DEF Upsert, Max2, LedgerRows, StateRows
    <3>6. Reaches(t, ledger'[t].cursor, history'[t])
      BY <2>1, <3>4, <3>5
    <3>7. ledger'[t].fully => Source[t] \subseteq history'[t]
      BY <2>1, <3>4, <3>5
    <3> QED BY <3>6, <3>7
  <2> QED BY <2>2, <2>3
<1>4. HistoryReaches'
  BY <1>2 DEF HistoryReaches, Reaches
<1>5. NoGapBehindCursor' /\ FullyCheckedIsComplete'
  BY <1>3 DEF NoGapBehindCursor, FullyCheckedIsComplete, Reaches
<1> QED BY <1>4, <1>5 DEF DatabaseReaches

LEMMA FlushReaches ==
  ASSUME TypeOK, DatabaseReaches, NEW rows \in SUBSET Rows, NEW states \in SUBSET StateRows,
         NEW skipped, FlushBuffers(rows, states, skipped),
         \A row \in rows : Reaches(row[1], row[2], history[row[1]] \cup TimesOf(row[1], rows)),
         \A row \in states : Whole(row, history[row.token] \cup TimesOf(row.token, rows))
  PROVE  /\ DatabaseReaches'
         /\ ~writerFailed' =>
              /\ ~writerFailed /\ wOdds' = {} /\ wStates' = {}
              /\ \A t \in Tokens : Kept(t)' = history[t] \cup TimesOf(t, rows)
<1>1. CASE Commit(rows, states, skipped) /\ Discard /\ UNCHANGED writerFailed
  <2>1. \A t \in Tokens : Kept(t)' = history[t] \cup TimesOf(t, rows)
    BY <1>1, TimesOfUnion DEF Kept, Commit, Discard
  <2> QED BY <1>1, <2>1, CommitReaches DEF Discard
<1>2. CASE writerFailed' = TRUE /\ UNCHANGED <<history, ledger>>
  BY <1>2, DatabaseSame
<1> QED BY <1>1, <1>2 DEF FlushBuffers

(* Plans that only go on, or are over, when no row is ever deleted.        *)
LEMMA PlansKept ==
  ASSUME TypeOK, PlansFollow, [Next]_vars, UNCHANGED closed,
         \A t \in Tokens :
           \/ prog'[t] = IdleProgress
           \/ /\ prog'[t].start = prog[t].start /\ prog'[t].closed = prog[t].closed
              /\ ~prog'[t].permanent /\ ~prog'[t].transient
  PROVE  PlansFollow'
<1>1. \A t \in Tokens : history[t] \subseteq history'[t]
  BY StepGrows DEF OnlyGrows, database
<1> SUFFICES ASSUME NEW t \in Tokens
             PROVE  /\ ~prog'[t].permanent /\ ~prog'[t].transient
                    /\ prog'[t].closed => t \in closed
                    /\ Source[t] \cap 0..(prog'[t].start - 1) \subseteq history'[t]
  BY DEF PlansFollow
<1>2. CASE prog'[t] = IdleProgress
  BY <1>2 DEF IdleProgress
<1>3. CASE prog'[t] # IdleProgress
  BY <1>1, <1>3 DEF PlansFollow
<1> QED BY <1>2, <1>3

LEMMA ClosedSame ==
  ASSUME ClosedIsServed, UNCHANGED <<now, closed>>
  PROVE  ClosedIsServed'
  BY DEF ClosedIsServed
-----------------------------------------------------------------------------
(* The actions.                                                            *)

NoFetchFails == {"transient", "permanent"} \cap Faults = {}

LEMMA InitPassed == Init => NothingIsPassed
<1> SUFFICES ASSUME Init PROVE NothingIsPassed
  OBVIOUS
<1>1. ClosedIsServed /\ PlansFollow
  BY DEF Init, ClosedIsServed, PlansFollow, IdleProgress
<1>2. BuffersInOrder /\ RowsInOrder /\ ClaimsInOrder
  BY DEF Init, BuffersInOrder, RowsInOrder, ClaimsInOrder, FreeTask
<1>3. DatabaseReaches
  BY LagAssumption DEF Init, DatabaseReaches, HistoryReaches, NoGapBehindCursor,
     FullyCheckedIsComplete
<1> QED BY <1>1, <1>2, <1>3 DEF NothingIsPassed

(* Steps that leave queue, writer and history alone, and fetch nothing.    *)
LEMMA OrderFrame ==
  ASSUME TypeOK, NothingIsPassed, UNCHANGED <<history, queue, wOdds, wStates, writerFailed>>,
         \A s \in Slots : task'[s].buf = task[s].buf \/ task'[s].buf = {}
  PROVE  BuffersInOrder' /\ RowsInOrder' /\ ClaimsInOrder'
<1>1. \A n, t : Kept(t)' = Kept(t) /\ QueuedIn(n, t)' = QueuedIn(n, t)
  BY DEF Kept, QueuedIn
<1>2. RowsInOrder' /\ ClaimsInOrder'
  BY <1>1, OrderSame DEF NothingIsPassed
<1>3. \A t : (Kept(t) \cup QueuedIn(Len(queue), t))' = Kept(t) \cup QueuedIn(Len(queue), t)
  BY <1>1
<1>4. BuffersInOrder'
  BY <1>3, BuffersKept DEF NothingIsPassed
<1> QED BY <1>2, <1>4

LEMMA IdlePassed ==
  ASSUME TypeOK, NothingIsPassed, [Next]_vars,
         Tick \/ (\E t \in Tokens : CloseMarket(t)) \/ StartRun \/ NoopRun
  PROVE  NothingIsPassed'
<1>1. UNCHANGED <<history, queue, wOdds, wStates, writerFailed, task>>
  BY DEF Tick, CloseMarket, StartRun, NoopRun, database, writer, workers
<1>2. BuffersInOrder' /\ RowsInOrder' /\ ClaimsInOrder'
  BY <1>1, OrderFrame
<1>3. CASE Tick
  <2>1. UNCHANGED <<closed, prog, history, ledger>> /\ now' = now + 1
    BY <1>3 DEF Tick, workers, database
  <2>2. ClosedIsServed'
    <3>1. \A t \in closed : \A ts \in Source[t] : ts \in Int
      BY SourceAssumption, BoundsAssumption DEF TypeOK, WorldOK
    <3> QED BY <2>1, <3>1, LagAssumption, BoundsAssumption
            DEF NothingIsPassed, ClosedIsServed, TypeOK, WorldOK
  <2>3. PlansFollow'
    BY <2>1 DEF NothingIsPassed, PlansFollow
  <2> QED BY <1>2, <2>1, <2>2, <2>3, DatabaseSame DEF NothingIsPassed
<1>4. CASE \E t \in Tokens : CloseMarket(t)
  <2>1. PICK t \in Tokens : CloseMarket(t)
    BY <1>4
  <2>2. UNCHANGED <<now, prog, history, ledger>> /\ closed' = closed \cup {t}
    BY <2>1 DEF CloseMarket, workers, database
  <2>3. ClosedIsServed' /\ PlansFollow'
    BY <2>1, <2>2 DEF CloseMarket, NothingIsPassed, ClosedIsServed, PlansFollow
  <2> QED BY <1>2, <2>2, <2>3, DatabaseSame DEF NothingIsPassed
<1>5. CASE StartRun \/ NoopRun
  <2>1. UNCHANGED <<now, closed>> /\ ledger' = [t \in Tokens |-> Repaired(t)]
    BY <1>5 DEF StartRun, NoopRun, world
  <2>2. DatabaseReaches'
    BY <1>1, <2>1, RepairReaches DEF NothingIsPassed
  <2>3. ASSUME NEW t \in Tokens
        PROVE  prog'[t] = prog[t] \/ prog'[t] = NewProgress(t)
    BY <1>5 DEF StartRun, NoopRun, workers
  <2>4. PlansFollow'
    <3> SUFFICES ASSUME NEW t \in Tokens, prog'[t] = NewProgress(t)
                 PROVE  /\ ~prog'[t].permanent /\ ~prog'[t].transient
                        /\ prog'[t].closed => t \in closed
                        /\ Source[t] \cap 0..(prog'[t].start - 1) \subseteq history[t]
      BY <1>1, <2>1, <2>3 DEF NothingIsPassed, PlansFollow
    <3>1. Source[t] \cap 0..(StartOf(t) - 1) \subseteq history[t]
      BY NewPlanFollows DEF NothingIsPassed
    <3>2. NewProgress(t).closed = (t \in closed)
      BY DEF NewProgress
    <3>3. NewProgress(t).start = StartOf(t) /\ ~NewProgress(t).permanent /\ ~NewProgress(t).transient
      BY DEF NewProgress
    <3> QED BY <3>1, <3>2, <3>3
  <2> QED BY <1>2, <2>1, <2>2, <2>4, ClosedSame DEF NothingIsPassed
<1> QED BY <1>3, <1>4, <1>5

(* A process that ends leaves nothing on its way.                          *)
LEMMA EndPassed ==
  ASSUME TypeOK, NothingIsPassed, NEW result, EndProcess(result)
  PROVE  NothingIsPassed'
<1>1. UNCHANGED <<now, closed, history, ledger>>
  BY DEF EndProcess, world, database
<1>2. ClosedIsServed' /\ PlansFollow'
  BY <1>1 DEF EndProcess, NothingIsPassed, ClosedIsServed, PlansFollow, IdleProgress
<1>3. BuffersInOrder' /\ RowsInOrder' /\ ClaimsInOrder'
  BY DEF EndProcess, BuffersInOrder, RowsInOrder, ClaimsInOrder, FreeTask
<1> QED BY <1>1, <1>2, <1>3, DatabaseSame DEF NothingIsPassed

LEMMA PoolPassed ==
  ASSUME TypeOK, NothingIsPassed, [Next]_vars, NEW s \in Slots, Pool(s)
  PROVE  NothingIsPassed'
<1>1. UNCHANGED <<now, closed, history, ledger, queue, wOdds, wStates, writerFailed>>
  BY DEF Pool, Submit, Collect, CollectFailed, world, database, writer
<1>2. /\ task'[s].buf = {} /\ \A r \in Slots \ {s} : task'[r] = task[r]
  BY DEF Pool, Submit, Collect, CollectFailed, TypeOK, WorkersOK, FreeTask
<1>3. \A t \in Tokens : prog'[t] = prog[t] \/ prog'[t] = IdleProgress
  BY DEF Pool, Submit, Collect, CollectFailed
<1>4. PlansFollow'
  BY <1>1, <1>3, PlansKept DEF NothingIsPassed, PlansFollow
<1> QED BY <1>1, <1>2, <1>4, OrderFrame, DatabaseSame, ClosedSame DEF NothingIsPassed

(* What the steps that put an item on the queue share.                     *)
LEMMA PutPassed ==
  ASSUME TypeOK, NothingIsPassed, [Next]_vars, NEW item \in Items, Put(item),
         UNCHANGED <<now, closed, history, ledger, wOdds, wStates, writerFailed>>,
         \A t \in Tokens : prog'[t] = prog[t] \/ prog'[t] = IdleProgress,
         \A s \in Slots : task'[s].buf = task[s].buf \/ task'[s].buf = {},
         ~writerFailed =>
           /\ \A row \in item.rows :
                Reaches(row[1], row[2],
                        Kept(row[1]) \cup QueuedIn(Len(queue), row[1]) \cup TimesOf(row[1], item.rows))
           /\ \A row \in item.states :
                Whole(row, Kept(row.token) \cup QueuedIn(Len(queue), row.token))
  PROVE  NothingIsPassed'
<1>1. RowsInOrder' /\ ClaimsInOrder'
  BY OrderPut DEF NothingIsPassed
<1>2. ASSUME NEW t \in Tokens
      PROVE  Kept(t) \cup QueuedIn(Len(queue), t) \subseteq (Kept(t) \cup QueuedIn(Len(queue), t))'
  <2>1. Kept(t)' = Kept(t)
    BY DEF Kept
  <2>2. QueuedIn(Len(queue), t)' = QueuedIn(Len(queue), t) \cup TimesOf(t, item.rows)
    <3>1. QueueOK
      BY DEF TypeOK
    <3> QED BY <3>1, PutQueued
  <2> QED BY <2>1, <2>2
<1>3. BuffersInOrder'
  BY <1>2, BuffersKept DEF NothingIsPassed
<1>4. PlansFollow'
  BY PlansKept DEF NothingIsPassed, PlansFollow
<1> QED BY <1>1, <1>3, <1>4, DatabaseSame, ClosedSame DEF NothingIsPassed

LEMMA StopPassed ==
  ASSUME TypeOK, NothingIsPassed, [Next]_vars, Abort \/ Drain
  PROVE  NothingIsPassed'
<1>1. /\ UNCHANGED <<now, closed, history, ledger, wOdds, wStates, writerFailed, prog, task>>
      /\ UNCHANGED queue \/ Put(Sentinel)
  BY DEF Abort, Drain, Put, world, database, workers, writer
<1>2. CASE UNCHANGED queue
  <2>1. PlansFollow'
    BY <1>1 DEF NothingIsPassed, PlansFollow
  <2> QED BY <1>1, <1>2, <2>1, OrderFrame, DatabaseSame, ClosedSame DEF NothingIsPassed
<1>3. CASE Put(Sentinel)
  <2>1. Sentinel \in Items /\ Sentinel.rows = {} /\ Sentinel.states = {}
    BY ItemTypes DEF Sentinel, Item
  <2> QED BY <1>1, <1>3, <2>1, PutPassed
<1> QED BY <1>1, <1>2, <1>3

LEMMA ReportRetryPassed ==
  ASSUME TypeOK, NothingIsPassed, [Next]_vars, NEW t \in Tokens, ReportRetry(t)
  PROVE  NothingIsPassed'
<1> DEFINE item == StateItem({RetryRow(t)})
<1>1. item \in Items /\ item.rows = {} /\ item.states = {RetryRow(t)}
  BY StateRowType, ItemTypes DEF StateItem, Item
<1>2. Put(item)
  BY DEF ReportRetry
<1>3. UNCHANGED <<now, closed, history, ledger, wOdds, wStates, writerFailed, task>>
  BY DEF ReportRetry, world, database, writer
<1>4. \A u \in Tokens : prog'[u] = prog[u] \/ prog'[u] = IdleProgress
  BY DEF ReportRetry, TypeOK, WorkersOK
<1>5. \A S : Whole(RetryRow(t), S)
  BY LagAssumption DEF Whole, Reaches, RetryRow
<1> HIDE DEF item
<1> QED BY <1>1, <1>2, <1>3, <1>4, <1>5, PutPassed

LEMMA PutOddsPassed ==
  ASSUME TypeOK, NothingIsPassed, [Next]_vars, NEW s \in Slots, PutOdds(s)
  PROVE  NothingIsPassed'
<1> DEFINE item == OddsItem(task[s].buf)
<1>1. task[s] \in Tasks
  BY DEF TypeOK, WorkersOK
<1>2. item \in Items /\ item.rows = task[s].buf /\ item.states = {}
  BY <1>1, ItemTypes DEF Tasks, OddsItem, Item
<1>3. Put(item) /\ UNCHANGED <<now, closed, history, ledger, wOdds, wStates, writerFailed, prog>>
  BY DEF PutOdds, world, database, writer
<1>4. \A r \in Slots : task'[r].buf = task[r].buf \/ task'[r].buf = {}
  BY DEF PutOdds, TypeOK, WorkersOK
<1>5. ~writerFailed =>
        \A row \in task[s].buf :
          Reaches(row[1], row[2],
                  Kept(row[1]) \cup QueuedIn(Len(queue), row[1]) \cup TimesOf(row[1], task[s].buf))
  BY DEF NothingIsPassed, BuffersInOrder
<1> HIDE DEF item
<1> QED BY <1>2, <1>3, <1>4, <1>5, PutPassed

LEMMA PutSkipsPassed ==
  ASSUME TypeOK, NothingIsPassed, [Next]_vars, NEW s \in Slots, PutSkips(s)
  PROVE  NothingIsPassed'
<1> DEFINE item == SkipItem(PermanentOf(s))
<1>1. PermanentOf(s) \in SUBSET Tokens
  BY DEF PermanentOf, Tasks, TypeOK, WorkersOK
<1>2. item \in Items /\ item.rows = {} /\ item.states = {}
  BY <1>1, ItemTypes DEF SkipItem, Item
<1>3. Put(item) /\ UNCHANGED <<now, closed, history, ledger, wOdds, wStates, writerFailed, prog>>
  BY DEF PutSkips, world, database, writer
<1>4. \A r \in Slots : task'[r].buf = task[r].buf
  BY DEF PutSkips, TypeOK, WorkersOK
<1> HIDE DEF item
<1> QED BY <1>2, <1>3, <1>4, PutPassed

(* A plan that is over has all its token's rows behind its cursor, and of a *)
(* closed market all there are, under way or stored.                        *)
LEMMA StateRowWhole ==
  ASSUME TypeOK, ClaimsAreBacked, NothingIsPassed, ~writerFailed,
         NEW s \in Slots, NEW t \in task[s].members,
         task[s].pc # "failed", task[s].at = now, task[s].buf = {}
  PROVE  Whole(StateRow(t), Kept(t) \cup QueuedIn(Len(queue), t))
<1> DEFINE S == Kept(t) \cup QueuedIn(Len(queue), t)
           p == prog[t]
<1>1. t \in Tokens
  BY DEF TypeOK, WorkersOK, Tasks
<1>2. p \in Progress /\ now \in Time /\ Source[t] \in SUBSET Time
  BY <1>1, SourceAssumption DEF TypeOK, WorldOK, WorkersOK
<1>3. /\ p.start \in Nat /\ p.contigUntil \in Int /\ now \in Int /\ MaxLag \in Nat
      /\ CursorOf(p) \in Int
  BY <1>2, BoundsAssumption, LagAssumption DEF Progress, CursorOf
<1>4. /\ ~p.permanent /\ ~p.transient
      /\ p.closed => t \in closed
      /\ Source[t] \cap 0..(p.start - 1) \subseteq history[t]
  BY <1>1 DEF NothingIsPassed, PlansFollow
<1>5. /\ StateRow(t).token = t /\ StateRow(t).cursor = CursorOf(p) /\ ~StateRow(t).leap
      /\ RunInterval(StateRow(t)) = p.start..(CursorOf(p) - MaxLag)
      /\ StateRow(t).fully => p.closed
  <2>1. FullyCheckedBy(p) => p.closed
    BY DEF FullyCheckedBy
  <2>2. LeapsToMaxSeen(p) = FALSE
    BY <1>4 DEF LeapsToMaxSeen
  <2>3. StateRow(t).fully = FullyCheckedBy(p) /\ StateRow(t).leap = LeapsToMaxSeen(p)
    BY DEF StateRow
  <2>4. StateRow(t).token = t /\ StateRow(t).cursor = CursorOf(p) /\ StateRow(t).from = p.start
    BY DEF StateRow
  <2> QED BY <2>1, <2>2, <2>3, <2>4 DEF RunInterval
<1>6. history[t] \subseteq S
  BY DEF Kept
<1>7. Source[t] \cap p.start..(CursorOf(p) - MaxLag) \subseteq S
  <2>1. Backed(StateRow(t), S)
    BY StateRowBacked DEF ClaimsAreBacked
  <2> QED BY <1>5, <2>1 DEF Backed
<1>8. Reaches(t, CursorOf(p), S)
  <2> SUFFICES ASSUME NEW ts \in Source[t] \cap 0..(CursorOf(p) - MaxLag)
               PROVE  ts \in S
    BY DEF Reaches
  <2>1. ts \in 0..(p.start - 1) \/ ts \in p.start..(CursorOf(p) - MaxLag)
    BY <1>3
  <2> QED BY <1>4, <1>6, <1>7, <2>1
<1>9. ASSUME p.closed
      PROVE  Source[t] \subseteq S
  <2> SUFFICES ASSUME NEW ts \in Source[t] PROVE ts \in S
    OBVIOUS
  <2>1. ts \in Nat /\ ts + MaxLag <= now
    BY <1>2, <1>4, <1>9, BoundsAssumption DEF NothingIsPassed, ClosedIsServed
  <2>2. p.contigUntil > p.start /\ p.contigUntil = now
    <3>1. Contiguous(p, now)
      BY DEF ClaimsAreBacked, ProgressInOrder
    <3>2. p.contigOk /\ p.start < now /\ p.contigUntil <= now
      BY <1>4, <3>1 DEF Contiguous
    <3>3. p.contigUntil >= now
      BY <1>3, <1>4, <3>1, <3>2 DEF Contiguous
    <3> HIDE DEF p
    <3> QED BY <1>3, <3>2, <3>3
  <2>3. CASE ts < p.start
    <3>1. ts \in 0..(p.start - 1)
      BY <1>3, <2>1, <2>3
    <3> QED BY <1>4, <1>6, <3>1
  <2>4. CASE ~(ts < p.start)
    <3>1. ts \in p.start..p.contigUntil
      BY <1>3, <2>1, <2>2, <2>4
    <3>2. ts \in Kept(t) \cup QueuedIn(Len(queue), t) \cup TimesOf(t, task[s].buf)
      BY <2>1, <2>2, <3>1 DEF ClaimsAreBacked, FetchedIsUnderWay
    <3> QED BY <3>2, TimesOfUnion
  <2> QED BY <2>3, <2>4
<1> HIDE DEF S, p
<1>10. Whole(StateRow(t), S)
  BY <1>5, <1>8, <1>9 DEF Whole
<1> QED BY <1>10 DEF S

LEMMA PutStatesPassed ==
  ASSUME TypeOK, ClaimsAreBacked, NothingIsPassed, [Next]_vars, NEW s \in Slots, PutStates(s)
  PROVE  NothingIsPassed'
<1> DEFINE states == {StateRow(t) : t \in task[s].members}
           item   == StateItem(states)
<1>1. task[s] \in Tasks
  BY DEF TypeOK, WorkersOK
<1>2. task[s].pc # "failed" /\ \A t \in task[s].members : task[s].at = now /\ task[s].buf = {}
  BY DEF PutStates, FetchedAll, ClaimsAreBacked, ProgressInOrder
<1>3. states \in SUBSET StateRows
  BY <1>1, StateRowType DEF Tasks
<1>4. item \in Items /\ item.rows = {} /\ item.states = states
  BY <1>3, ItemTypes DEF StateItem, Item
<1>5. Put(item) /\ UNCHANGED <<now, closed, history, ledger, wOdds, wStates, writerFailed, prog>>
  BY DEF PutStates, world, database, writer
<1>6. \A r \in Slots : task'[r].buf = task[r].buf
  BY DEF PutStates, TypeOK, WorkersOK
<1>7. ASSUME ~writerFailed, NEW row \in states
      PROVE  Whole(row, Kept(row.token) \cup QueuedIn(Len(queue), row.token))
  <2>1. PICK t \in task[s].members : row = StateRow(t)
    OBVIOUS
  <2>2. Whole(StateRow(t), Kept(t) \cup QueuedIn(Len(queue), t))
    BY <1>2, <1>7, StateRowWhole
  <2>3. StateRow(t).token = t
    BY DEF StateRow
  <2> QED BY <2>1, <2>2, <2>3
<1> HIDE DEF item, states
<1> QED BY <1>4, <1>5, <1>6, <1>7, PutPassed

LEMMA RequestFailsPassed ==
  ASSUME TypeOK, NothingIsPassed, [Next]_vars, NEW s \in Slots, RequestFails(s)
  PROVE  NothingIsPassed'
<1>1. UNCHANGED <<now, closed, history, ledger, queue, wOdds, wStates, writerFailed, prog>>
  BY DEF RequestFails, world, database, writer
<1>2. \A r \in Slots : task'[r].buf = task[r].buf \/ task'[r].buf = {}
  BY DEF RequestFails, TypeOK, WorkersOK
<1>3. PlansFollow'
  BY <1>1 DEF NothingIsPassed, PlansFollow
<1> QED BY <1>1, <1>2, <1>3, OrderFrame, DatabaseSame, ClosedSame DEF NothingIsPassed

(* The rows a window brings are behind all the API had before them.        *)
LEMMA FetchWindowPassed ==
  ASSUME NoFetchFails, TypeOK, ClaimsAreBacked, ClaimsAreBacked', NothingIsPassed,
         NEW s \in Slots, FetchWindow(s)
  PROVE  NothingIsPassed'
<1> DEFINE from   == task[s].at
           to     == Min2(now, from + WindowSize)
           window == {t \in task[s].members : ~prog[t].permanent /\ prog[t].start < to}
<1>1. task[s] \in Tasks /\ now \in Time /\ from < now /\ task[s].pc = "fetch"
  BY DEF TypeOK, WorldOK, WorkersOK, FetchWindow
<1>2. from \in Time /\ to \in Time /\ from < to /\ to <= now /\ window \in SUBSET Tokens
  BY <1>1, WindowAssumption, BoundsAssumption DEF Tasks, Min2
<1>3. PICK result \in [window -> {"ok"} \cup ({"transient", "permanent"} \cap Faults)],
           got \in [window -> SUBSET (from..to)] :
        /\ \A t \in window :
             IF result[t] = "ok" THEN got[t] \in Answers(t, Max2(from, prog[t].start), to)
                                 ELSE got[t] = {}
        /\ prog' = [t \in Tokens |->
                      IF t \in window THEN AfterWindow(prog[t], to, result[t], got[t])
                      ELSE prog[t]]
        /\ task' = [task EXCEPT ![s].at = to,
                       ![s].buf = @ \cup {row \in window \X (from..to) : row[2] \in got[row[1]]}]
  BY DEF FetchWindow
<1>4. UNCHANGED <<now, closed, history, ledger, queue, wOdds, wStates, writerFailed>>
  BY DEF FetchWindow, database, world, writer
<1> DEFINE new == {row \in window \X (from..to) : row[2] \in got[row[1]]}
<1>5. /\ task'[s].pc = "fetch" /\ task'[s].members = task[s].members
      /\ task'[s].buf = task[s].buf \cup new
      /\ \A r \in Slots \ {s} : task'[r] = task[r]
  BY <1>1, <1>3 DEF TypeOK, WorkersOK, Tasks
<1>6. \A t \in window : result[t] = "ok" /\ got[t] \in SUBSET (from..to)
  BY DEF NoFetchFails
<1>7. ASSUME NEW t \in window
      PROVE  /\ t \in Tokens /\ t \in task[s].members /\ prog[t] \in Progress
             /\ prog[t].contigOk
             /\ prog'[t].start = prog[t].start /\ prog'[t].closed = prog[t].closed
             /\ ~prog'[t].permanent /\ ~prog'[t].transient
             /\ prog'[t].contigUntil = to /\ prog[t].start < to
  <2>1. t \in Tokens /\ t \in task[s].members /\ prog[t].start < to
    BY <1>2
  <2>2. prog[t] \in Progress
    BY <2>1 DEF TypeOK, WorkersOK
  <2>3. ~prog[t].permanent /\ ~prog[t].transient
    BY <2>1 DEF NothingIsPassed, PlansFollow
  <2>4. prog[t].contigOk
    BY <2>1, <2>3 DEF ClaimsAreBacked, ProgressInOrder, Contiguous
  <2>5. prog'[t] = AfterWindow(prog[t], to, "ok", got[t])
    BY <1>3, <1>6, <2>1
  <2> DEFINE p == prog[t]
             q == AfterWindow(p, to, "ok", got[t])
  <2> HIDE DEF to, p
  <2>6. p \in Progress /\ ~p.permanent /\ ~p.transient /\ p.contigOk
    BY <2>2, <2>3, <2>4 DEF p
  <2>7. /\ q.start = p.start /\ q.closed = p.closed /\ q.contigUntil = to
        /\ q.permanent = p.permanent /\ q.transient = p.transient
    BY <2>6 DEF AfterWindow, Progress
  <2> HIDE DEF q
  <2>8. prog'[t] = q
    BY <2>5 DEF q, p
  <2> QED BY <2>1, <2>2, <2>4, <2>6, <2>7, <2>8 DEF p
<1>8. PlansFollow'
  <2>1. \A t \in Tokens : t \notin window => prog'[t] = prog[t]
    BY <1>3
  <2> HIDE DEF window, to
  <2> QED BY <1>4, <1>7, <2>1 DEF NothingIsPassed, PlansFollow
<1>9. \A n, t : Kept(t)' = Kept(t) /\ QueuedIn(n, t)' = QueuedIn(n, t)
  BY <1>4 DEF Kept, QueuedIn
<1>10. RowsInOrder' /\ ClaimsInOrder'
  BY <1>4, <1>9, OrderSame DEF NothingIsPassed
<1> DEFINE S(t, buf) == Kept(t) \cup QueuedIn(Len(queue), t) \cup TimesOf(t, buf)
<1>11. ASSUME ~writerFailed, NEW r \in Slots, NEW row \in task'[r].buf
       PROVE  Reaches(row[1], row[2], S(row[1], task'[r].buf))
  <2>1. CASE row \in task[r].buf
    <3>1. Reaches(row[1], row[2], S(row[1], task[r].buf))
      BY <1>11, <2>1 DEF NothingIsPassed, BuffersInOrder
    <3>2. S(row[1], task[r].buf) \subseteq S(row[1], task'[r].buf)
      BY <1>5, TimesOfUnion
    <3> HIDE DEF S
    <3> QED BY <3>1, <3>2, ReachesMore
  <2>2. CASE row \notin task[r].buf
    <3>1. r = s /\ row \in new
      BY <1>5, <2>2
    <3> DEFINE t == row[1]
               x == row[2]
    <3>2. t \in window /\ x \in from..to
      BY <3>1
    <3>3. prog[t].start \in Nat /\ to \in Int /\ now \in Int /\ from \in Int /\ x \in Int
          /\ MaxLag \in Nat
      BY <1>1, <1>2, <1>7, <3>2, BoundsAssumption, LagAssumption DEF Progress
    <3>4. ASSUME NEW ts \in Source[t] \cap 0..(x - MaxLag)
          PROVE  ts \in S(t, task'[r].buf)
      <4>1. ts \in Nat /\ ts + MaxLag <= now /\ ts <= to
        BY <1>2, <3>2, <3>3
      <4>2. CASE ts < prog[t].start
        <5>1. ts \in 0..(prog[t].start - 1)
          BY <3>3, <4>1, <4>2
        <5> QED BY <1>7, <3>2, <5>1 DEF NothingIsPassed, PlansFollow, Kept
      <4>3. CASE ~(ts < prog[t].start)
        <5>1. ts \in prog'[t].start..prog'[t].contigUntil /\ prog'[t].contigUntil > prog'[t].start
          BY <1>7, <3>2, <3>3, <4>1, <4>3
        <5>2. t \in task'[s].members /\ task'[s].pc # "failed"
          BY <1>5, <1>7, <3>2
        <5>3. ts \in (Kept(t) \cup QueuedIn(Len(queue), t))' \cup TimesOf(t, task'[s].buf)
          BY <1>4, <1>11, <4>1, <5>1, <5>2 DEF ClaimsAreBacked, FetchedIsUnderWay
        <5> QED BY <1>4, <1>9, <3>1, <5>3
      <4> QED BY <4>2, <4>3
    <3> QED BY <3>4 DEF Reaches
  <2> QED BY <2>1, <2>2
<1>12. BuffersInOrder'
  BY <1>4, <1>9, <1>11 DEF BuffersInOrder, Reaches
<1> QED BY <1>4, <1>8, <1>10, <1>12, DatabaseSame, ClosedSame DEF NothingIsPassed

(* The writer takes an item, and commits rows and ledger rows in order.    *)
LEMMA WriterTakePassed ==
  ASSUME TypeOK, NothingIsPassed, WriterTake
  PROVE  DatabaseReaches' /\ BuffersInOrder' /\ RowsInOrder' /\ ClaimsInOrder'
<1> DEFINE item    == Head(queue)
           rows    == wOdds \cup item.rows
           states  == wStates \cup item.states
           skipped == wSkips \cup item.skipped
<1>1. queue # << >> /\ QueueOK /\ queue' = Tail(queue) /\ UNCHANGED task
  BY DEF WriterTake, CanTake, TypeOK, workers
<1>2. item \in Items /\ item = queue[1] /\ 1 \in 1..Len(queue)
  BY <1>1, TakeType DEF QueueOK
<1>3. rows \in SUBSET Rows /\ states \in SUBSET StateRows
  BY <1>2 DEF Items, TypeOK, WriterOK
<1>4. \A t : Kept(t) \cup TimesOf(t, item.rows) = history[t] \cup TimesOf(t, rows)
  BY TimesOfUnion DEF Kept
<1>5. \A t : /\ Kept(t) \subseteq history[t] \cup TimesOf(t, rows)
             /\ Kept(t) \cup QueuedIn(1, t) \subseteq history[t] \cup TimesOf(t, rows)
             /\ Kept(t) \cup QueuedIn(1 - 1, t) \subseteq history[t] \cup TimesOf(t, rows)
  <2>1. \A t : QueuedIn(1, t) = TimesOf(t, item.rows) /\ QueuedIn(1 - 1, t) = {}
    BY <1>2 DEF QueuedIn
  <2> QED BY <1>4, <2>1
<1>6. \/ writerFailed /\ UNCHANGED <<database, writer>>
      \/ /\ ~writerFailed /\ wOdds' = rows /\ wStates' = states
         /\ UNCHANGED <<database, writerFailed>>
      \/ ~writerFailed /\ FlushBuffers(rows, states, skipped)
  BY DEF WriterTake
<1> HIDE DEF item, rows, states, skipped
<1>7. ASSUME ~writerFailed, NEW row \in rows
      PROVE  Reaches(row[1], row[2], history[row[1]] \cup TimesOf(row[1], rows))
  <2>1. CASE row \in wOdds
    BY <1>5, <1>7, <2>1, ReachesMore DEF NothingIsPassed, RowsInOrder
  <2>2. CASE row \in item.rows
    <3>1. Reaches(row[1], row[2], Kept(row[1]) \cup QueuedIn(1, row[1]))
      BY <1>2, <1>7, <2>2 DEF NothingIsPassed, RowsInOrder
    <3> QED BY <1>5, <3>1, ReachesMore
  <2> QED BY <2>1, <2>2 DEF rows
<1>8. ASSUME ~writerFailed, NEW row \in states
      PROVE  Whole(row, history[row.token] \cup TimesOf(row.token, rows))
  <2>1. CASE row \in wStates
    BY <1>5, <1>8, <2>1, WholeMore DEF NothingIsPassed, ClaimsInOrder
  <2>2. CASE row \in item.states
    <3>1. Whole(row, Kept(row.token) \cup QueuedIn(1 - 1, row.token))
      BY <1>2, <1>8, <2>2 DEF NothingIsPassed, ClaimsInOrder
    <3> QED BY <1>5, <3>1, WholeMore
  <2> QED BY <2>1, <2>2 DEF states
(* In each case nothing is lost.                                           *)
<1>9. /\ DatabaseReaches'
      /\ ~writerFailed' =>
           /\ ~writerFailed /\ wOdds' \subseteq rows /\ wStates' \subseteq states
           /\ \A t \in Tokens : Kept(t)' = Kept(t) \cup TimesOf(t, item.rows)
  <2>1. CASE writerFailed /\ UNCHANGED <<database, writer>>
    BY <2>1, DatabaseSame DEF NothingIsPassed, database, writer
  <2>2. CASE /\ ~writerFailed /\ wOdds' = rows /\ wStates' = states
             /\ UNCHANGED <<database, writerFailed>>
    <3>1. \A t \in Tokens : Kept(t)' = history[t] \cup TimesOf(t, rows)
      BY <2>2 DEF Kept, database
    <3> QED BY <1>4, <2>2, <3>1, DatabaseSame DEF NothingIsPassed, database
  <2>3. CASE ~writerFailed /\ FlushBuffers(rows, states, skipped)
    <3>1. /\ DatabaseReaches'
          /\ ~writerFailed' => /\ wOdds' = {} /\ wStates' = {}
                               /\ \A t \in Tokens : Kept(t)' = history[t] \cup TimesOf(t, rows)
      BY <1>3, <1>7, <1>8, <2>3, FlushReaches DEF NothingIsPassed
    <3> QED BY <1>4, <2>3, <3>1
  <2> QED BY <1>6, <2>1, <2>2, <2>3
<1>10. RowsInOrder' /\ ClaimsInOrder'
  BY <1>1, <1>9, OrderTake DEF NothingIsPassed, item, rows, states
<1>11. BuffersInOrder'
  <2>1. ASSUME ~writerFailed', NEW t \in Tokens
        PROVE  Kept(t) \cup QueuedIn(Len(queue), t) \subseteq (Kept(t) \cup QueuedIn(Len(queue), t))'
    <3>1. (Len(queue') + 1) = Len(queue) /\ Len(queue') \in 0..Len(queue')
      BY <1>1 DEF QueueOK
    <3>2. QueuedIn(Len(queue), t) = TimesOf(t, item.rows) \cup QueuedIn(Len(queue), t)'
      BY <1>1, <3>1, TakeQueued DEF item
    <3> QED BY <1>9, <2>1, <3>2
  <2> QED BY <1>1, <1>9, <2>1, BuffersKept DEF NothingIsPassed
<1> QED BY <1>9, <1>10, <1>11

LEMMA WriterPassed ==
  ASSUME TypeOK, ClaimsAreBacked, NothingIsPassed, [Next]_vars, Writer
  PROVE  NothingIsPassed'
<1>1. UNCHANGED <<now, closed, prog, task>>
  BY DEF Writer, WriterTake, WriterStop, WriterFinalFlush, WriterRefresh, world, workers
<1>2. ClosedIsServed' /\ PlansFollow'
  BY <1>1, ClosedSame, PlansKept DEF NothingIsPassed, PlansFollow
<1>3. CASE WriterTake
  BY <1>2, <1>3, WriterTakePassed DEF NothingIsPassed
<1>4. CASE WriterStop
  <2>1. queue # << >> /\ QueueOK /\ queue' = Tail(queue) /\ Head(queue) = Sentinel
        /\ UNCHANGED <<history, ledger, wOdds, wStates, writerFailed>>
    BY <1>4 DEF WriterStop, TypeOK, database
  <2>2. \A t : TimesOf(t, Head(queue).rows) = {}
    BY <2>1, TimesOfUnion DEF Sentinel, Item
  <2>3. \A t : Kept(t)' = Kept(t)
    BY <2>1 DEF Kept
  <2>4. RowsInOrder' /\ ClaimsInOrder'
    <3>1. \A t \in Tokens : Kept(t)' = Kept(t) \cup TimesOf(t, Head(queue).rows)
      BY <2>2, <2>3
    <3> QED BY <2>1, <3>1, OrderTake DEF NothingIsPassed
  <2>5. ASSUME NEW t \in Tokens
        PROVE  Kept(t) \cup QueuedIn(Len(queue), t) \subseteq (Kept(t) \cup QueuedIn(Len(queue), t))'
    <3>1. (Len(queue') + 1) = Len(queue) /\ Len(queue') \in 0..Len(queue')
      BY <2>1 DEF QueueOK
    <3>2. QueuedIn(Len(queue), t) = TimesOf(t, Head(queue).rows) \cup QueuedIn(Len(queue), t)'
      BY <2>1, <3>1, TakeQueued
    <3> QED BY <2>2, <2>3, <3>2
  <2>6. BuffersInOrder'
    BY <1>1, <2>1, <2>5, BuffersKept DEF NothingIsPassed
  <2> QED BY <1>2, <2>1, <2>4, <2>6, DatabaseSame DEF NothingIsPassed
<1>5. CASE WriterFinalFlush \/ WriterRefresh
  <2>1. UNCHANGED queue
    BY <1>5 DEF WriterFinalFlush, WriterRefresh
  <2>2. /\ DatabaseReaches'
        /\ ~writerFailed' =>
             /\ ~writerFailed /\ wOdds' \subseteq wOdds /\ wStates' \subseteq wStates
             /\ \A t \in Tokens : Kept(t)' = Kept(t)
    <3>1. CASE WriterFinalFlush
      <4>1. ~writerFailed /\ FlushBuffers(wOdds, wStates, wSkips)
        BY <3>1 DEF WriterFinalFlush, ClaimsAreBacked
      <4>2. wOdds \in SUBSET Rows /\ wStates \in SUBSET StateRows
        BY DEF TypeOK, WriterOK
      <4>3. /\ \A row \in wOdds :
                 Reaches(row[1], row[2], history[row[1]] \cup TimesOf(row[1], wOdds))
            /\ \A row \in wStates :
                 Whole(row, history[row.token] \cup TimesOf(row.token, wOdds))
        BY <4>1 DEF NothingIsPassed, RowsInOrder, ClaimsInOrder, Kept
      <4>4. /\ DatabaseReaches'
            /\ ~writerFailed' =>
                 /\ wOdds' = {} /\ wStates' = {}
                 /\ \A t \in Tokens : Kept(t)' = history[t] \cup TimesOf(t, wOdds)
        BY <4>1, <4>2, <4>3, FlushReaches DEF NothingIsPassed
      <4> QED BY <4>1, <4>4 DEF Kept
    <3>2. CASE WriterRefresh
      <4>1. UNCHANGED <<history, ledger, wOdds, wStates>> /\ (writerFailed => writerFailed')
        BY <3>2 DEF WriterRefresh
      <4> QED BY <4>1, DatabaseSame DEF NothingIsPassed, Kept
    <3> QED BY <1>5, <3>1, <3>2
  <2>3. RowsInOrder' /\ ClaimsInOrder'
    BY <2>1, <2>2, OrderSame DEF NothingIsPassed
  <2>4. ASSUME ~writerFailed', NEW t \in Tokens
        PROVE  Kept(t) \cup QueuedIn(Len(queue), t) \subseteq (Kept(t) \cup QueuedIn(Len(queue), t))'
    <3>1. QueuedIn(Len(queue), t)' = QueuedIn(Len(queue), t)
      BY <2>1 DEF QueuedIn
    <3> QED BY <2>2, <2>4, <3>1
  <2>5. BuffersInOrder'
    BY <1>1, <2>2, <2>4, BuffersKept DEF NothingIsPassed
  <2> QED BY <1>2, <2>2, <2>3, <2>5 DEF NothingIsPassed
<1> QED BY <1>3, <1>4, <1>5 DEF Writer

LEMMA StepPassed ==
  ASSUME NoFetchFails, TypeOK, ClaimsAreBacked, NothingIsPassed, [Next]_vars
  PROVE  NothingIsPassed'
<1>1. CASE UNCHANGED vars
  <2>1. /\ UNCHANGED <<now, closed, prog, history, ledger, queue, wOdds, wStates, writerFailed, task>>
    BY <1>1 DEF vars, world, database, workers, writer
  <2>2. PlansFollow'
    BY <2>1 DEF NothingIsPassed, PlansFollow
  <2> QED BY <2>1, <2>2, OrderFrame, DatabaseSame, ClosedSame DEF NothingIsPassed
<1>2. CASE Tick \/ (\E t \in Tokens : CloseMarket(t)) \/ StartRun \/ NoopRun
  BY <1>2, IdlePassed
<1>3. CASE \E t \in Tokens : ReportRetry(t)
  BY <1>3, ReportRetryPassed
<1>4. CASE \E s \in Slots : Pool(s)
  BY <1>4, PoolPassed
<1>5. CASE \E s \in Slots : Worker(s)
  <2>1. ClaimsAreBacked'
    BY StepClaims
  <2> QED BY <1>5, <2>1, FetchWindowPassed, RequestFailsPassed, PutOddsPassed, PutSkipsPassed,
             PutStatesPassed DEF Worker
<1>6. CASE Writer
  BY <1>6, WriterPassed
<1>7. CASE Abort \/ Drain
  BY <1>7, StopPassed
<1>8. CASE Finish \/ FinishWithoutWriter \/ FinishAborted \/ Crash
  BY <1>8, EndPassed DEF Finish, FinishWithoutWriter, FinishAborted, Crash
<1> QED BY <1>1, <1>2, <1>3, <1>4, <1>5, <1>6, <1>7, <1>8 DEF Next

(* Where no fetch fails, and whatever else does: later runs never start     *)
(* behind a hole, and a closed token is retired only when its whole history *)
(* is stored.                                                               *)
THEOREM LedgerTellsTheTruth ==
  ASSUME NoFetchFails
  PROVE  Spec => []LedgerIsTrue
<1>1. Init => NothingIsPassed
  BY InitPassed
<1>2. TypeOK /\ ClaimsAreBacked /\ NothingIsPassed /\ [Next]_vars => NothingIsPassed'
  BY StepPassed
<1>3. ClaimsAreBacked /\ NothingIsPassed => LedgerIsTrue
  BY DEF LedgerIsTrue, NothingIsPassed, DatabaseReaches
<1> QED BY <1>1, <1>2, <1>3, TypeCorrect, ClaimsBacked, PTL DEF Spec
-----------------------------------------------------------------------------
(* A run that reports success has stored its rows, unless the main thread  *)
(* gives up waiting for the final flush.                                   *)

NoSlowFinal == "slowfinal" \notin Faults

(* A row put on the queue is there or in the writer's buffer, or it is     *)
(* stored and its token-day is marked for the refresh.                     *)
OnItsWay(row) ==
  \/ \E i \in 1..Len(queue) : row \in queue[i].rows
  \/ row \in wOdds
  \/ row[2] \in history[row[1]] /\ <<row[1], DayOf(row[2])>> \in dirty

(* A row is stored and its token-day rebuilt.                              *)
Settled(row) ==
  /\ row[2] \in history[row[1]]
  /\ \A ts \in Time :
       DayOf(ts) = DayOf(row[2]) => (ts \in daily[row[1]] <=> ts \in history[row[1]])

(* No sentinel is on the queue while futures are collected; then it is the  *)
(* last item, and the writer stops only when it has taken everything else.  *)
SentinelIsLast ==
  /\ phase = "running" => wpc = "loop" /\ \A i \in 1..Len(queue) : queue[i] # Sentinel
  /\ phase = "draining" =>
       /\ \A s \in Slots : task[s].pc = "free"
       /\ \A i \in 1..Len(queue) : queue[i] = Sentinel => i = Len(queue)
       /\ wpc # "loop" => queue = << >>
  /\ phase = "idle" => /\ wpc = "loop" /\ queue = << >>
                       /\ \A s \in Slots : task[s].pc = "free"
  /\ wpc = "refresh" => wOdds = {}

(* A row that was put on the queue is never dropped by a writer that works. *)
DeliveredIsKept ==
  ~writerFailed =>
    /\ phase # "idle" /\ wpc # "exited" => \A row \in delivered : OnItsWay(row)
    /\ phase = "draining" /\ wpc = "exited" => \A row \in delivered : Settled(row)

SuccessIsSettled == phase = "idle" /\ outcome = "ok" => \A row \in delivered : Settled(row)

SuccessInv == SentinelIsLast /\ DeliveredIsKept /\ SuccessIsSettled

LEMMA InitSuccess == Init => SuccessInv
  BY DEF Init, SuccessInv, SentinelIsLast, DeliveredIsKept, SuccessIsSettled, FreeTask

(* Steps that leave the queue, the database and the writer alone.          *)
LEMMA SuccessFrame ==
  ASSUME SuccessInv, UNCHANGED <<phase, outcome, queue, history, daily, writer, delivered>>,
         phase \in {"draining", "idle"} => \A s \in Slots : task'[s].pc = "free"
  PROVE  SuccessInv'
<1>1. \A row : /\ OnItsWay(row)' <=> OnItsWay(row)
               /\ Settled(row)' <=> Settled(row)
  BY DEF OnItsWay, Settled, writer
<1>2. SentinelIsLast'
  BY DEF SuccessInv, SentinelIsLast, writer
<1>3. DeliveredIsKept'
  BY <1>1 DEF SuccessInv, DeliveredIsKept, writer
<1>4. SuccessIsSettled'
  BY <1>1 DEF SuccessInv, SuccessIsSettled
<1> QED BY <1>2, <1>3, <1>4 DEF SuccessInv

LEMMA IdleSuccess ==
  ASSUME SuccessInv, Tick \/ (\E t \in Tokens : CloseMarket(t)) \/ StartRun \/ NoopRun
  PROVE  SuccessInv'
<1>1. phase = "idle" /\ UNCHANGED <<queue, task, history, daily, writer>>
  BY DEF Tick, CloseMarket, StartRun, NoopRun, database, workers
<1>2. CASE Tick \/ (\E t \in Tokens : CloseMarket(t))
  <2>1. UNCHANGED <<phase, outcome, delivered>>
    BY <1>2 DEF Tick, CloseMarket, main
  <2> QED BY <1>1, <2>1, SuccessFrame DEF SuccessInv, SentinelIsLast
<1>3. CASE StartRun
  <2>1. phase' = "running" /\ delivered' = {}
    BY <1>3 DEF StartRun
  <2>2. wpc' = "loop" /\ queue' = << >>
    BY <1>1 DEF SuccessInv, SentinelIsLast, writer
  <2> QED BY <2>1, <2>2 DEF SuccessInv, SentinelIsLast, DeliveredIsKept, SuccessIsSettled
<1>4. CASE NoopRun
  <2>1. phase' = "idle" /\ outcome' = "noop" /\ UNCHANGED delivered
    BY <1>1, <1>4 DEF NoopRun
  <2>2. SentinelIsLast'
    BY <1>1, <2>1 DEF SuccessInv, SentinelIsLast, writer
  <2> QED BY <2>1, <2>2 DEF SuccessInv, DeliveredIsKept, SuccessIsSettled
<1> QED BY <1>2, <1>3, <1>4

(* A run reports success only of what the writer has settled.              *)
LEMMA EndSuccess ==
  ASSUME NoSlowFinal, SuccessInv, Finish \/ FinishWithoutWriter \/ FinishAborted \/ Crash
  PROVE  SuccessInv'
<1>1. PICK result \in {RunResult, "aborted", "crashed"} :
        /\ EndProcess(result)
        /\ result = "ok" => phase = "draining" /\ wpc = "exited" /\ ~writerFailed
  <2>1. CASE Finish
    BY <2>1 DEF Finish, RunResult
  <2>2. CASE FinishWithoutWriter
    BY <2>2 DEF FinishWithoutWriter, NoSlowFinal
  <2>3. CASE FinishAborted
    BY <2>3 DEF FinishAborted
  <2>4. CASE Crash
    BY <2>4 DEF Crash
  <2> QED BY <2>1, <2>2, <2>3, <2>4
<1>2. /\ phase' = "idle" /\ outcome' = result /\ queue' = << >> /\ wpc' = "loop"
      /\ \A s \in Slots : task'[s].pc = "free"
      /\ UNCHANGED <<history, daily>>
      /\ result = "ok" => delivered' = delivered
  BY <1>1 DEF EndProcess, FreeTask, database
<1>3. SentinelIsLast' /\ DeliveredIsKept'
  BY <1>2 DEF SentinelIsLast, DeliveredIsKept
<1>4. SuccessIsSettled'
  <2> SUFFICES ASSUME result = "ok" PROVE \A row \in delivered : Settled(row)'
    BY <1>2 DEF SuccessIsSettled
  <2>1. \A row \in delivered : Settled(row)
    BY <1>1 DEF SuccessInv, DeliveredIsKept
  <2> QED BY <1>2, <2>1 DEF Settled
<1> QED BY <1>3, <1>4 DEF SuccessInv

(* What the steps that put an item on the queue share.                     *)
LEMMA PutSuccess ==
  ASSUME TypeOK, SuccessInv, NEW item \in Items, Put(item), item # Sentinel,
         phase \in {"running", "aborting"},
         UNCHANGED <<phase, outcome, history, daily, writer>>,
         delivered' \subseteq delivered \cup item.rows
  PROVE  SuccessInv'
<1>1. /\ Len(queue') = Len(queue) + 1 /\ Len(queue) \in Nat
      /\ \A i \in 1..Len(queue) : queue'[i] = queue[i]
      /\ queue'[Len(queue) + 1] = item
  BY DEF Put, TypeOK, QueueOK
<1>2. \A i \in 1..Len(queue') : i \in 1..Len(queue) \/ i = Len(queue) + 1
  BY <1>1
<1>3. SentinelIsLast'
  BY <1>1, <1>2 DEF SuccessInv, SentinelIsLast, writer
<1>4. ASSUME NEW row
      PROVE  /\ OnItsWay(row) => OnItsWay(row)'
             /\ row \in item.rows => OnItsWay(row)'
  <2>1. ASSUME NEW i \in 1..Len(queue), row \in queue[i].rows
        PROVE  OnItsWay(row)'
    <3>1. i \in 1..Len(queue') /\ row \in queue'[i].rows
      BY <1>1, <2>1
    <3> QED BY <3>1 DEF OnItsWay
  <2>2. ASSUME row \in item.rows
        PROVE  OnItsWay(row)'
    <3>1. (Len(queue) + 1) \in 1..Len(queue') /\ row \in queue'[Len(queue) + 1].rows
      BY <1>1, <2>2
    <3> QED BY <3>1 DEF OnItsWay
  <2>3. ASSUME row \in wOdds \/ (row[2] \in history[row[1]] /\ <<row[1], DayOf(row[2])>> \in dirty)
        PROVE  OnItsWay(row)'
    BY <2>3 DEF OnItsWay, writer
  <2> QED BY <2>1, <2>2, <2>3 DEF OnItsWay
<1>5. DeliveredIsKept'
  BY <1>4 DEF SuccessInv, DeliveredIsKept, writer
<1> QED BY <1>3, <1>5 DEF SuccessInv, SuccessIsSettled

LEMMA StopSuccess ==
  ASSUME TypeOK, SuccessInv, Abort \/ Drain
  PROVE  SuccessInv'
<1>1. /\ phase = "running" /\ phase' \in {"aborting", "draining"}
      /\ UNCHANGED <<history, writer, task, delivered>>
      /\ queue' = queue \/ queue' = Append(queue, Sentinel)
  BY DEF Abort, Drain, Put, database, workers
<1>2. /\ Len(queue) \in Nat
      /\ queue' = Append(queue, Sentinel) =>
           /\ Len(queue') = Len(queue) + 1
           /\ \A i \in 1..Len(queue) : queue'[i] = queue[i]
  BY ItemTypes DEF TypeOK, QueueOK
<1>3. wpc = "loop" /\ \A i \in 1..Len(queue) : queue[i] # Sentinel
  BY <1>1 DEF SuccessInv, SentinelIsLast
<1>4. phase' = "draining" => \A s \in Slots : task'[s].pc = "free"
  BY <1>1 DEF Abort, Drain
<1>5. \A i \in 1..Len(queue') : queue'[i] = Sentinel => i = Len(queue')
  BY <1>1, <1>2, <1>3
<1>6. SentinelIsLast'
  BY <1>1, <1>3, <1>4, <1>5 DEF SentinelIsLast, writer
<1>7. ASSUME NEW row, OnItsWay(row)
      PROVE  OnItsWay(row)'
  <2>1. ASSUME NEW i \in 1..Len(queue), row \in queue[i].rows
        PROVE  i \in 1..Len(queue') /\ row \in queue'[i].rows
    BY <1>1, <1>2, <2>1
  <2> QED BY <1>1, <1>7, <2>1 DEF OnItsWay, writer
<1>8. DeliveredIsKept'
  BY <1>1, <1>3, <1>7 DEF SuccessInv, DeliveredIsKept, writer
<1> QED BY <1>1, <1>6, <1>8 DEF SuccessInv, SuccessIsSettled

(* Workers are at work only while a run goes on.                           *)
LEMMA ThreadSuccess ==
  ASSUME TypeOK, SuccessInv,
         \/ \E t \in Tokens : ReportRetry(t)
         \/ \E s \in Slots : Pool(s) \/ Worker(s)
  PROVE  SuccessInv'
<1>1. CASE \E t \in Tokens : ReportRetry(t)
  <2>1. PICK t \in Tokens : ReportRetry(t)
    BY <1>1
  <2>2. StateItem({RetryRow(t)}) \in Items /\ StateItem({RetryRow(t)}) # Sentinel
    BY StateRowType, ItemTypes DEF StateItem, Sentinel, Item
  <2> QED BY <2>1, <2>2, PutSuccess DEF ReportRetry, database
<1>2. CASE \E s \in Slots : Pool(s)
  <2>1. phase = "running" /\ UNCHANGED <<phase, outcome, queue, history, daily, writer, delivered>>
    BY <1>2 DEF Pool, Submit, Collect, CollectFailed, main, database
  <2> QED BY <2>1, SuccessFrame
<1>3. CASE \E s \in Slots : Worker(s)
  <2>1. PICK s \in Slots : Worker(s)
    BY <1>3
  <2>2. UNCHANGED <<phase, outcome, history, daily, writer>> /\ task[s].pc # "free"
    BY <2>1 DEF Worker, FetchWindow, RequestFails, PutOdds, PutSkips, PutStates, FetchedAll, main,
       database
  <2>3. phase \in {"running", "aborting"}
    BY <2>2 DEF SuccessInv, SentinelIsLast, TypeOK, MainOK
  <2>4. CASE FetchWindow(s) \/ RequestFails(s)
    <3>1. UNCHANGED <<queue, delivered>>
      BY <2>4 DEF FetchWindow, RequestFails
    <3> QED BY <2>2, <2>3, <3>1, SuccessFrame
  <2>5. CASE PutOdds(s)
    <3> DEFINE item == OddsItem(task[s].buf)
    <3>1. item \in Items /\ item # Sentinel /\ item.rows = task[s].buf
      BY ItemTypes DEF Tasks, TypeOK, WorkersOK, OddsItem, Sentinel, Item
    <3>2. Put(item) /\ delivered' = delivered \cup task[s].buf
      BY <2>5 DEF PutOdds
    <3> HIDE DEF item
    <3> QED BY <2>2, <2>3, <3>1, <3>2, PutSuccess
  <2>6. CASE PutSkips(s)
    <3> DEFINE item == SkipItem(PermanentOf(s))
    <3>1. PermanentOf(s) \in SUBSET Tokens
      BY DEF PermanentOf, Tasks, TypeOK, WorkersOK
    <3>2. item \in Items /\ item # Sentinel
      BY <3>1, ItemTypes DEF SkipItem, Sentinel, Item
    <3>3. Put(item) /\ delivered' = delivered
      BY <2>6 DEF PutSkips
    <3> HIDE DEF item
    <3> QED BY <2>2, <2>3, <3>2, <3>3, PutSuccess
  <2>7. CASE PutStates(s)
    <3> DEFINE states == {StateRow(t) : t \in task[s].members}
               item   == StateItem(states)
    <3>1. states \in SUBSET StateRows
      BY StateRowType DEF Tasks, TypeOK, WorkersOK
    <3>2. item \in Items /\ item # Sentinel
      BY <3>1, ItemTypes DEF StateItem, Sentinel, Item
    <3>3. Put(item) /\ delivered' = delivered
      BY <2>7 DEF PutStates
    <3> HIDE DEF item, states
    <3> QED BY <2>2, <2>3, <3>2, <3>3, PutSuccess
  <2> QED BY <2>1, <2>4, <2>5, <2>6, <2>7 DEF Worker
<1> QED BY <1>1, <1>2, <1>3

(* A transaction stores its rows and marks their token-days.               *)
LEMMA FlushSettles ==
  ASSUME NEW rows \in SUBSET Rows, NEW states, NEW skipped,
         FlushBuffers(rows, states, skipped), ~writerFailed'
  PROVE  /\ ~writerFailed /\ wOdds' = {}
         /\ \A row \in rows :
              row[2] \in history'[row[1]] /\ <<row[1], DayOf(row[2])>> \in dirty'
         /\ dirty \subseteq dirty'
         /\ \A t \in Tokens : history[t] \subseteq history'[t]
<1>1. Commit(rows, states, skipped) /\ Discard /\ UNCHANGED writerFailed
      /\ dirty' = DirtyAfter(rows)
  BY DEF FlushBuffers
<1>2. \A t \in Tokens : history'[t] = history[t] \cup TimesOf(t, rows)
  BY <1>1 DEF Commit
<1>3. ASSUME NEW row \in rows
      PROVE  row[2] \in history'[row[1]] /\ <<row[1], DayOf(row[2])>> \in dirty'
  <2>1. row[1] \in Tokens /\ row[2] \in TimesOf(row[1], rows)
    BY TimesOfMember
  <2>2. <<row[1], DayOf(row[2])>> \in DirtyAfter(rows)
    BY DEF DirtyAfter
  <2> QED BY <1>1, <1>2, <2>1, <2>2
<1> QED BY <1>1, <1>2, <1>3 DEF Discard, DirtyAfter

(* The writer's steps: a row goes on its way, or it is settled.            *)
LEMMA WriterTakeSuccess ==
  ASSUME TypeOK, SuccessInv, WriterTake \/ WriterStop
  PROVE  SuccessInv'
<1> DEFINE item    == Head(queue)
           rows    == wOdds \cup item.rows
           states  == wStates \cup item.states
           skipped == wSkips \cup item.skipped
<1>1. /\ queue # << >> /\ queue' = Tail(queue) /\ wpc = "loop"
      /\ UNCHANGED <<phase, outcome, task, daily, delivered>>
  BY DEF WriterTake, WriterStop, CanTake, FlushBuffers, main, workers, database
<1>2. /\ Len(queue) \in Nat \ {0} /\ Len(queue') = Len(queue) - 1 /\ item = queue[1]
      /\ \A i \in 1..Len(queue') : queue'[i] = queue[i + 1] /\ i + 1 \in 1..Len(queue)
      /\ Len(queue) = 1 => queue' = << >>
  BY <1>1 DEF TypeOK, QueueOK
<1>3. phase # "idle" /\ (item = Sentinel => phase # "running")
  <2>1. 1 \in 1..Len(queue)
    BY <1>2
  <2> QED BY <1>1, <1>2, <2>1 DEF SuccessInv, SentinelIsLast
<1>4. rows \in SUBSET Rows
  BY <1>1, TakeType DEF Items, TypeOK, WriterOK
<1>5. \/ item # Sentinel /\ wpc' = "loop"
      \/ item = Sentinel /\ wpc' \in {"final", "exited"}
  BY <1>1 DEF WriterTake, WriterStop, writer
<1>6. writerFailed => writerFailed'
  BY DEF WriterTake, WriterStop, FlushBuffers, writer
<1>7. ~writerFailed' =>
        /\ ~writerFailed /\ wpc' # "exited"
        /\ dirty \subseteq dirty' /\ \A t \in Tokens : history[t] \subseteq history'[t]
        /\ \A row \in rows : row \in wOdds' \/ /\ row[2] \in history'[row[1]]
                                                /\ <<row[1], DayOf(row[2])>> \in dirty'
  <2>1. CASE WriterStop
    <3>1. item.rows = {}
      BY <2>1 DEF WriterStop, Sentinel, Item
    <3>2. UNCHANGED <<history, wOdds, dirty, writerFailed>>
          /\ wpc' = IF writerFailed THEN "exited" ELSE "final"
      BY <2>1 DEF WriterStop, database
    <3> QED BY <3>1, <3>2
  <2>2. CASE WriterTake
    <3>1. \/ UNCHANGED <<database, writer>> /\ writerFailed
          \/ wOdds' = rows /\ UNCHANGED <<database, wpc, dirty, writerFailed>>
          \/ FlushBuffers(rows, states, skipped) /\ UNCHANGED wpc
      BY <2>2 DEF WriterTake
    <3> HIDE DEF item, rows, states, skipped
    <3>2. CASE wOdds' = rows /\ UNCHANGED <<database, wpc, dirty, writerFailed>>
      BY <1>1, <3>2 DEF database
    <3>3. CASE FlushBuffers(rows, states, skipped) /\ UNCHANGED wpc
      BY <1>1, <1>4, <3>3, FlushSettles
    <3> QED BY <3>1, <3>2, <3>3 DEF writer
  <2> QED BY <2>1, <2>2
<1> HIDE DEF item, rows, states, skipped
<1>8. SentinelIsLast'
  <2>1. phase = "running" => /\ wpc' = "loop"
                             /\ \A i \in 1..Len(queue') : queue'[i] # Sentinel
    BY <1>2, <1>3, <1>5 DEF SuccessInv, SentinelIsLast
  <2>2. ASSUME phase = "draining"
        PROVE  /\ \A i \in 1..Len(queue') : queue'[i] = Sentinel => i = Len(queue')
               /\ wpc' # "loop" => queue' = << >>
    <3>1. \A i \in 1..Len(queue) : queue[i] = Sentinel => i = Len(queue)
      BY <2>2 DEF SuccessInv, SentinelIsLast
    <3>2. ASSUME NEW i \in 1..Len(queue'), queue'[i] = Sentinel
          PROVE  i = Len(queue')
      <4>1. i + 1 = Len(queue)
        BY <1>2, <3>1, <3>2
      <4> QED BY <1>2, <4>1
    <3>3. ASSUME wpc' # "loop" PROVE queue' = << >>
      <4>1. queue[1] = Sentinel /\ 1 \in 1..Len(queue)
        BY <1>2, <1>5, <3>3
      <4> QED BY <1>2, <3>1, <4>1
    <3> QED BY <3>2, <3>3
  <2>3. phase = "draining" => \A s \in Slots : task[s].pc = "free"
    BY DEF SuccessInv, SentinelIsLast
  <2> QED BY <1>1, <1>3, <1>5, <2>1, <2>2, <2>3 DEF SentinelIsLast
<1>9. ASSUME ~writerFailed', NEW row \in delivered, OnItsWay(row)
      PROVE  OnItsWay(row)'
  <2>1. row[1] \in Tokens
    BY DEF TypeOK
  <2>2. CASE row \in rows
    BY <1>7, <1>9, <2>2 DEF OnItsWay
  <2>3. CASE row[2] \in history[row[1]] /\ <<row[1], DayOf(row[2])>> \in dirty
    BY <1>7, <1>9, <2>1, <2>3 DEF OnItsWay
  <2>4. CASE \E i \in 1..Len(queue) : row \in queue[i].rows /\ row \notin rows
    <3>1. PICK i \in 1..Len(queue) : row \in queue[i].rows /\ row \notin rows
      BY <2>4
    <3>2. i # 1
      BY <1>2, <3>1 DEF rows
    <3>3. i - 1 \in 1..Len(queue') /\ (i - 1) + 1 = i
      BY <1>2, <3>2
    <3>4. queue'[i - 1] = queue[i]
      BY <1>2, <3>3
    <3> QED BY <3>1, <3>3, <3>4 DEF OnItsWay
  <2> QED BY <1>9, <2>2, <2>3, <2>4 DEF OnItsWay, rows
<1>10. DeliveredIsKept'
  BY <1>1, <1>6, <1>7, <1>9 DEF SuccessInv, DeliveredIsKept
<1> QED BY <1>1, <1>3, <1>8, <1>10 DEF SuccessInv, SuccessIsSettled

LEMMA FinalFlushSuccess ==
  ASSUME TypeOK, SuccessInv, WriterFinalFlush
  PROVE  SuccessInv'
<1>1. /\ wpc = "final" /\ wpc' = IF writerFailed' THEN "exited" ELSE "refresh"
      /\ FlushBuffers(wOdds, wStates, wSkips)
      /\ UNCHANGED <<phase, outcome, queue, task, daily, delivered>>
  BY DEF WriterFinalFlush, main, workers
<1>2. ~writerFailed' =>
        /\ ~writerFailed /\ wOdds' = {} /\ dirty \subseteq dirty'
        /\ \A t \in Tokens : history[t] \subseteq history'[t]
        /\ \A row \in wOdds :
             row[2] \in history'[row[1]] /\ <<row[1], DayOf(row[2])>> \in dirty'
  BY <1>1, FlushSettles DEF TypeOK, WriterOK
<1>3. SentinelIsLast'
  BY <1>1, <1>2 DEF SuccessInv, SentinelIsLast
<1>4. ASSUME ~writerFailed', NEW row \in delivered, OnItsWay(row)
      PROVE  OnItsWay(row)'
  <2>1. row[1] \in Tokens
    BY DEF TypeOK
  <2> QED BY <1>1, <1>2, <1>4, <2>1 DEF OnItsWay
<1>5. DeliveredIsKept'
  BY <1>1, <1>2, <1>4 DEF SuccessInv, DeliveredIsKept
<1> QED BY <1>1, <1>3, <1>5 DEF SuccessInv, SentinelIsLast, SuccessIsSettled

LEMMA RefreshSuccess ==
  ASSUME TypeOK, SuccessInv, WriterRefresh
  PROVE  SuccessInv'
<1>1. /\ wpc = "refresh" /\ wpc' = "exited"
      /\ \/ writerFailed' = writerFailed /\ daily' = Refreshed(dirty)
         \/ writerFailed'
      /\ UNCHANGED <<phase, outcome, queue, task, history, delivered>>
  BY DEF WriterRefresh, main, workers
<1>2. SentinelIsLast'
  BY <1>1 DEF SuccessInv, SentinelIsLast
<1>3. ASSUME ~writerFailed', phase = "draining", NEW row \in delivered
      PROVE  Settled(row)'
  <2>1. queue = << >> /\ wOdds = {}
    BY <1>1, <1>3 DEF SuccessInv, SentinelIsLast
  <2>2. OnItsWay(row)
    BY <1>1, <1>3 DEF SuccessInv, DeliveredIsKept
  <2>3. row[2] \in history[row[1]] /\ <<row[1], DayOf(row[2])>> \in dirty
    BY <2>1, <2>2 DEF OnItsWay
  <2>4. row[1] \in Tokens
    BY DEF TypeOK
  <2> DEFINE days == {key[2] : key \in {k \in dirty : k[1] = row[1]}}
  <2>5. DayOf(row[2]) \in days
    BY <2>3
  <2>6. daily'[row[1]] = {ts \in daily[row[1]] : DayOf(ts) \notin days}
                           \cup {ts \in history[row[1]] : DayOf(ts) \in days}
    BY <1>1, <1>3, <2>4 DEF Refreshed
  <2> HIDE DEF days
  <2>7. \A ts \in Time : DayOf(ts) = DayOf(row[2]) =>
          (ts \in daily'[row[1]] <=> ts \in history[row[1]])
    BY <2>5, <2>6
  <2> QED BY <1>1, <2>3, <2>7 DEF Settled
<1>4. DeliveredIsKept'
  BY <1>1, <1>3 DEF DeliveredIsKept
<1> QED BY <1>1, <1>2, <1>4 DEF SuccessInv, SentinelIsLast, SuccessIsSettled

LEMMA StepSuccess ==
  ASSUME NoSlowFinal, TypeOK, SuccessInv, [Next]_vars
  PROVE  SuccessInv'
<1>1. CASE UNCHANGED vars
  BY <1>1, SuccessFrame DEF vars, main, workers, database, SuccessInv, SentinelIsLast
<1>2. CASE Tick \/ (\E t \in Tokens : CloseMarket(t)) \/ StartRun \/ NoopRun
  BY <1>2, IdleSuccess
<1>3. CASE (\E t \in Tokens : ReportRetry(t)) \/ (\E s \in Slots : Pool(s) \/ Worker(s))
  BY <1>3, ThreadSuccess
<1>4. CASE Writer
  BY <1>4, WriterTakeSuccess, FinalFlushSuccess, RefreshSuccess DEF Writer
<1>5. CASE Abort \/ Drain
  BY <1>5, StopSuccess
<1>6. CASE Finish \/ FinishWithoutWriter \/ FinishAborted \/ Crash
  BY <1>6, EndSuccess
<1> QED BY <1>1, <1>2, <1>3, <1>4, <1>5, <1>6 DEF Next

(* Unless the final flush outlives the join: a run that reports success has *)
(* every row its workers put on the queue in odds_history, and has rebuilt  *)
(* the daily rows of their days, whatever failed or crashed before it.      *)
THEOREM SuccessIsTrue ==
  ASSUME NoSlowFinal
  PROVE  Spec => []SuccessMeansStored
<1>1. Init => SuccessInv
  BY InitSuccess
<1>2. TypeOK /\ SuccessInv /\ [Next]_vars => SuccessInv'
  BY StepSuccess
<1>3. SuccessInv => SuccessMeansStored
  BY DEF SuccessInv, SuccessIsSettled, Settled, SuccessMeansStored, SuccessIsDurable,
     SuccessRefreshesDaily
<1> QED BY <1>1, <1>2, <1>3, TypeCorrect, PTL DEF Spec
=============================================================================
