------------------------- MODULE StageExecutionProofs -------------------------
(***************************************************************************)
(* What holds of every stage-execution release, for any number of          *)
(* processes, legs, changes of a book and credits: no more is sent than    *)
(* was paid for, one process publishes at a time, a book rebuilt from the  *)
(* archive is the book there was, the plan covers every leg once, and a    *)
(* release has all the evidence within it.                                 *)
(***************************************************************************)
EXTENDS StageExecution, FiniteSetTheorems, TLAPS

Begins(p) == \E source \in {"range", "archive"} : Start(p, source)

(* Every process has a checkpoint and a state of its own.                  *)
State(j) == [pc |-> j.pc, window |-> j.window, hour |-> j.hour, token |-> j.token, retry |-> j.retry, temp |-> j.temp]
Data(d) == [source |-> d.source, windows |-> d.windows, rows |-> d.rows, seeds |-> d.seeds, objects |-> d.objects]

Shapes ==
  /\ job = [p \in Procs |-> State(job[p])]
  /\ db = [p \in Procs |-> Data(db[p])]

(* The ledger counts what other jobs reserved and at least every request   *)
(* the processes have sent.                                                *)
Accounts ==
  /\ {used, elsewhere, sent} \subseteq Nat
  /\ elsewhere + sent <= used /\ used <= Budget

(* The books of a checkpoint are true, its seeds are the books at the      *)
(* start of their hours, and an object is only fetched for an hour that    *)
(* has all of them.                                                        *)
RowsAreTrue(p)  == \A r \in db[p].rows : r.kind = "book" => r.book = BookAt(r.token, r.at, r.id)
SeedsAreTrue(p) == \A s \in db[p].seeds : s.book = SeedAt(s.token, s.hour)
HourIsSeeded(p) == job[p].pc = "object" => Unseeded(p, job[p].hour) = {}

Books == \A p \in Procs : RowsAreTrue(p) /\ SeedsAreTrue(p) /\ HourIsSeeded(p)

(* What a step of a process does to the checkpoints: the others stay, and  *)
(* in its own only true books and seeds appear.                            *)
Stores(p) ==
  /\ db' = [q \in Procs |-> Data(db'[q])]
  /\ \A q \in Procs \ {p} : db'[q] = db[q]
  /\ \A r \in db'[p].rows \ db[p].rows : r.kind = "book" => r.book = BookAt(r.token, r.at, r.id)
  /\ \A s \in db'[p].seeds \ db[p].seeds : s.book = SeedAt(s.token, s.hour)

(* What a step of a process does to the states: it leaves the others alone *)
(* and is then at one of some places.                                      *)
MovesTo(p, pcs) ==
  /\ job' = [q \in Procs |-> State(job'[q])]
  /\ job'[p].pc \in pcs
  /\ \A q \in Procs \ {p} : job'[q] = job[q]

(* Where a process is that neither publishes nor fetches an object.         *)
Acquiring ==
  {"idle", "next", "books", "trades", "split", "halves", "rows", "complete",
   "hours", "seed", "seeded", "finish", "publish"}

----------------------------------------------------------------------------
(* The ledger *)

(* A request is sent only with a reservation within the budget.            *)
LEMMA PayIsCounted ==
  ASSUME Accounts, NEW p \in Procs, NEW pc, Pay(p, pc)
  PROVE  \/ used' = used /\ sent' = sent
         \/ used < Budget /\ used' = used + 1 /\ sent' = sent + 1
BY DEF Pay, HasCredit, Cost

LEMMA AccountsStep == Accounts /\ [Next]_vars => Accounts'
<1> SUFFICES ASSUME Accounts, [Next]_vars PROVE Accounts'
  OBVIOUS
<1> Budget \in Nat
  BY ExecutionAssumption
<1>1. CASE Elsewhere
  BY <1>1 DEF Accounts, Elsewhere
<1>2. CASE \E p \in Procs : FetchBooks(p) \/ FetchTrades(p) \/ FetchSeed(p)
  <2>1. PICK p \in Procs : FetchBooks(p) \/ FetchTrades(p) \/ FetchSeed(p)
    BY <1>2
  <2>2. elsewhere' = elsewhere /\ \E pc : Pay(p, pc)
    BY <2>1 DEF FetchBooks, FetchTrades, FetchSeed, outside
  <2> QED BY <2>2, PayIsCounted DEF Accounts
<1>3. CASE UNCHANGED <<used, elsewhere, sent>>
  BY <1>3 DEF Accounts
<1>4. ASSUME NEW p \in Procs, Begins(p) \/ Crash(p)
      PROVE  UNCHANGED <<used, elsewhere, sent>>
  BY <1>4 DEF Begins, Start, Crash, outside
<1>5. ASSUME NEW p \in Procs, NextWindow(p) \/ MarkSplit(p) \/ InsertHalves(p) \/ InsertRows(p) \/ CompleteWindow(p)
      PROVE  UNCHANGED <<used, elsewhere, sent>>
  BY <1>5 DEF NextWindow, MarkSplit, InsertHalves, InsertRows, CompleteWindow, outside
<1>6. ASSUME NEW p \in Procs, NextHour(p) \/ StoreSeed(p) \/ FetchObject(p) \/ FinishWindows(p)
      PROVE  UNCHANGED <<used, elsewhere, sent>>
  BY <1>6 DEF NextHour, StoreSeed, FetchObject, FinishWindows, outside
<1>7. ASSUME NEW p \in Procs, TakeLock(p) \/ Write(p) \/ Reject(p) \/ Install(p) \/ Unlock(p)
      PROVE  UNCHANGED <<used, elsewhere, sent>>
  BY <1>7 DEF TakeLock, Write, Reject, Install, Unlock, outside
<1>8. ASSUME UNCHANGED vars \/ \E h \in LateHours : ObjectAppears(h)
      PROVE  UNCHANGED <<used, elsewhere, sent>>
  BY <1>8 DEF vars, outside, ObjectAppears
<1> QED
  BY <1>1, <1>2, <1>3, <1>4, <1>5, <1>6, <1>7, <1>8 DEF Next, Step, Begins

(* However many processes acquire, fail, retry and start over, they and    *)
(* the other jobs together send no more requests than the month has        *)
(* credits: the ledger is charged before a request is sent, and no charge  *)
(* is given back.                                                          *)
THEOREM CreditsAreNeverOverspent == Spec => []NeverOverspent
<1>1. Init => Accounts
  BY ExecutionAssumption DEF Init, Accounts
<1>2. Accounts => NeverOverspent
  BY ExecutionAssumption DEF Accounts, NeverOverspent
<1> QED BY <1>1, <1>2, AccountsStep, PTL DEF Spec

----------------------------------------------------------------------------
(* The states of the processes *)

LEMMA StateUpdates ==
  ASSUME NEW j, j = State(j), NEW x
  PROVE  /\ [j EXCEPT !.pc = x] = State([j EXCEPT !.pc = x]) /\ [j EXCEPT !.pc = x].pc = x
         /\ [j EXCEPT !.retry = x] = State([j EXCEPT !.retry = x]) /\ [j EXCEPT !.retry = x].pc = j.pc
<1>1. [j EXCEPT !.pc = x] =
        [pc |-> x, window |-> j.window, hour |-> j.hour, token |-> j.token, retry |-> j.retry, temp |-> j.temp]
  BY DEF State
<1>2. [j EXCEPT !.retry = x] =
        [pc |-> j.pc, window |-> j.window, hour |-> j.hour, token |-> j.token, retry |-> x, temp |-> j.temp]
  BY DEF State
<1> QED BY <1>1, <1>2 DEF State

LEMMA JobReplaces ==
  ASSUME Shapes, NEW p \in Procs, NEW j, j = State(j), job' = [job EXCEPT ![p] = j]
  PROVE  MovesTo(p, {j.pc})
<1>1. job' = [q \in Procs |-> State(job'[q])]
  BY DEF Shapes
<1>2. job'[p] = j /\ \A q \in Procs \ {p} : job'[q] = job[q]
  BY DEF Shapes
<1> QED BY <1>1, <1>2 DEF MovesTo

LEMMA AtMoves ==
  ASSUME Shapes, NEW p \in Procs, NEW pc, NEW window, NEW hour, NEW token, NEW temp,
         job' = [job EXCEPT ![p] = At(pc, window, hour, token, temp)]
  PROVE  MovesTo(p, {pc})
<1> DEFINE j == At(pc, window, hour, token, temp)
<1>1. j = State(j) /\ j.pc = pc
  BY DEF At, State
<1>2. job' = [job EXCEPT ![p] = j]
  OBVIOUS
<1> HIDE DEF j
<1> QED BY <1>1, <1>2, JobReplaces

LEMMA StaysMoves ==
  ASSUME Shapes, NEW p \in Procs, NEW pc, job' = [job EXCEPT ![p].pc = pc]
  PROVE  MovesTo(p, {pc})
<1> DEFINE j == [job[p] EXCEPT !.pc = pc]
<1>1. job[p] = State(job[p])
  BY DEF Shapes
<1>2. j = State(j) /\ j.pc = pc
  BY <1>1, StateUpdates
<1>3. job' = [job EXCEPT ![p] = j]
  OBVIOUS
<1> HIDE DEF j
<1> QED BY <1>2, <1>3, JobReplaces

LEMMA GoesMoves ==
  ASSUME Shapes, NEW p \in Procs, NEW pc, Goes(p, pc)
  PROVE  MovesTo(p, {pc})
BY AtMoves DEF Goes

LEMMA PayMoves ==
  ASSUME Shapes, NEW p \in Procs, NEW pc, Pay(p, pc)
  PROVE  MovesTo(p, {"idle", job[p].pc, pc})
<1>1. CASE Fails(p)
  BY <1>1, GoesMoves DEF Fails, MovesTo
<1>2. CASE job' = [job EXCEPT ![p] = GoesOn(p, pc)]
  BY <1>2, AtMoves DEF GoesOn, MovesTo
<1>3. CASE job' = [job EXCEPT ![p].retry = @ + 1]
  <2> DEFINE j == [job[p] EXCEPT !.retry = job[p].retry + 1]
  <2>1. job[p] = State(job[p])
    BY DEF Shapes
  <2>2. j = State(j) /\ j.pc = job[p].pc
    BY <2>1, StateUpdates
  <2>3. job' = [job EXCEPT ![p] = j]
    BY <1>3
  <2> HIDE DEF j
  <2>4. MovesTo(p, {j.pc})
    BY <2>2, <2>3, JobReplaces
  <2> QED BY <2>2, <2>4 DEF MovesTo
<1> QED BY <1>1, <1>2, <1>3 DEF Pay

LEMMA AcquiringMoves ==
  ASSUME Shapes, NEW p \in Procs,
         \/ Begins(p) \/ Crash(p) \/ NextWindow(p) \/ FetchBooks(p) \/ FetchTrades(p)
         \/ MarkSplit(p) \/ InsertHalves(p) \/ InsertRows(p) \/ CompleteWindow(p)
         \/ FetchSeed(p) \/ StoreSeed(p) \/ FetchObject(p) \/ FinishWindows(p)
  PROVE  MovesTo(p, Acquiring) /\ lock' = lock
<1>1. CASE Begins(p)
  BY <1>1, GoesMoves DEF Begins, Start, MovesTo, Acquiring
<1>2. CASE Crash(p) \/ InsertHalves(p) \/ CompleteWindow(p) \/ StoreSeed(p) \/ FinishWindows(p)
  BY <1>2, GoesMoves DEF Crash, InsertHalves, CompleteWindow, StoreSeed, FinishWindows, MovesTo, Acquiring
<1>3. CASE FetchObject(p)
  BY <1>3, GoesMoves DEF FetchObject, Fails, MovesTo, Acquiring
<1>4. CASE NextWindow(p)
  BY <1>4, GoesMoves, AtMoves DEF NextWindow, MovesTo, Acquiring
<1>6. CASE FetchBooks(p) \/ FetchTrades(p) \/ FetchSeed(p)
  BY <1>6, PayMoves DEF FetchBooks, FetchTrades, FetchSeed, MovesTo, Acquiring
<1>7. CASE MarkSplit(p)
  <2>1. (Fails(p) \/ job' = [job EXCEPT ![p].pc = "halves"]) /\ lock' = lock
    BY <1>7 DEF MarkSplit
  <2>2. MovesTo(p, Acquiring)
    BY <2>1, GoesMoves, StaysMoves DEF Fails, MovesTo, Acquiring
  <2> QED BY <2>1, <2>2
<1>8. CASE InsertRows(p)
  <2>1. PICK pc \in {"complete", "rows"} : job' = [job EXCEPT ![p].pc = pc]
    BY <1>8 DEF InsertRows
  <2>2. MovesTo(p, Acquiring)
    BY <2>1, StaysMoves DEF MovesTo, Acquiring
  <2> QED BY <1>8, <2>2 DEF InsertRows
<1> QED BY <1>1, <1>2, <1>3, <1>4, <1>6, <1>7, <1>8

(* An object is fetched only when its hour has all its seeds.              *)
LEMMA HourMoves ==
  ASSUME Shapes, NEW p \in Procs, NextHour(p)
  PROVE  /\ MovesTo(p, Acquiring \cup {"object"}) /\ lock' = lock /\ db' = db
         /\ job'[p].pc = "object" => Unseeded(p, job'[p].hour) = {}
<1> DEFINE h == Min(Undone(p))
<1> UNCHANGED <<lock, db>>
  BY DEF NextHour
<1>1. CASE Goes(p, "finish") \/ \E t : job' = [job EXCEPT ![p] = At("seed", {}, h, t, {})]
  BY <1>1, GoesMoves, AtMoves DEF MovesTo, Acquiring
<1>2. CASE job' = [job EXCEPT ![p] = At("object", {}, h, 0, {})] /\ Unseeded(p, h) = {}
  <2>1. MovesTo(p, {"object"})
    BY <1>2, AtMoves
  <2>2. job'[p].hour = h
    BY <1>2 DEF Shapes, At
  <2> QED BY <1>2, <2>1, <2>2 DEF MovesTo
<1> QED BY <1>1, <1>2 DEF NextHour

LEMMA PublishingMoves ==
  ASSUME Shapes, NEW p \in Procs
  PROVE  /\ TakeLock(p) => \/ lock' = lock /\ MovesTo(p, {"idle"})
                           \/ ~lock /\ lock' = TRUE /\ MovesTo(p, {"write"})
         /\ Write(p) \/ Reject(p) \/ Install(p) =>
              Publishing(p) /\ lock' = lock /\ MovesTo(p, {"install", "cleanup"})
         /\ Unlock(p) => Publishing(p) /\ lock' = FALSE /\ MovesTo(p, {"idle"})
<1>1. ASSUME TakeLock(p)
      PROVE  \/ lock' = lock /\ MovesTo(p, {"idle"})
             \/ ~lock /\ lock' = TRUE /\ MovesTo(p, {"write"})
  BY <1>1, GoesMoves DEF TakeLock, Fails, LeaveLock
<1>2. ASSUME Write(p)
      PROVE  Publishing(p) /\ lock' = lock /\ MovesTo(p, {"install", "cleanup"})
  <2>1. job' = [job EXCEPT ![p] = At("install", {}, 0, 0, {Tables(p)})]
    BY <1>2 DEF Write
  <2>2. MovesTo(p, {"install", "cleanup"})
    BY <2>1, AtMoves DEF MovesTo
  <2> QED BY <1>2, <2>2 DEF Write, Publishing
<1>3. ASSUME Reject(p) \/ Install(p)
      PROVE  Publishing(p) /\ lock' = lock /\ MovesTo(p, {"install", "cleanup"})
  BY <1>3, GoesMoves DEF Reject, Install, AfterFailure, Publishing, MovesTo
<1>4. ASSUME Unlock(p)
      PROVE  Publishing(p) /\ lock' = FALSE /\ MovesTo(p, {"idle"})
  BY <1>4, GoesMoves DEF Unlock, Publishing
<1> QED BY <1>1, <1>2, <1>3, <1>4

----------------------------------------------------------------------------
(* The publication lock *)

LEMMA LockStep == Shapes /\ OnePublisher /\ [Next]_vars => OnePublisher'
<1> SUFFICES ASSUME Shapes, OnePublisher, [Next]_vars PROVE OnePublisher'
  OBVIOUS
<1>1. ASSUME NEW p \in Procs, MovesTo(p, Acquiring), lock' = lock
      PROVE  OnePublisher'
  BY <1>1 DEF OnePublisher, Publishing, MovesTo, Acquiring
<1>6. ASSUME NEW p \in Procs, NextHour(p)
      PROVE  OnePublisher'
  BY <1>6, HourMoves DEF OnePublisher, Publishing, MovesTo, Acquiring
<1>2. ASSUME NEW p \in Procs, TakeLock(p)
      PROVE  OnePublisher'
  <2>1. CASE lock' = lock /\ MovesTo(p, {"idle"})
    BY <2>1 DEF OnePublisher, Publishing, MovesTo
  <2>2. CASE ~lock /\ lock' = TRUE /\ MovesTo(p, {"write"})
    <3>1. \A q \in Procs : ~Publishing(q)
      BY <2>2 DEF OnePublisher
    <3> QED BY <2>2, <3>1 DEF OnePublisher, Publishing, MovesTo
  <2> QED BY <1>2, <2>1, <2>2, PublishingMoves
<1>3. ASSUME NEW p \in Procs, Write(p) \/ Reject(p) \/ Install(p)
      PROVE  OnePublisher'
  <2>1. Publishing(p) /\ lock' = lock /\ MovesTo(p, {"install", "cleanup"})
    BY <1>3, PublishingMoves
  <2>2. lock /\ \A q \in Procs \ {p} : ~Publishing(q)
    BY <2>1 DEF OnePublisher
  <2> QED BY <2>1, <2>2 DEF OnePublisher, Publishing, MovesTo
<1>4. ASSUME NEW p \in Procs, Unlock(p)
      PROVE  OnePublisher'
  BY <1>4, PublishingMoves DEF OnePublisher, Publishing, MovesTo
<1>5. ASSUME Elsewhere \/ UNCHANGED vars \/ \E h \in LateHours : ObjectAppears(h)
      PROVE  OnePublisher'
  BY <1>5 DEF Elsewhere, ObjectAppears, vars, OnePublisher, Publishing
<1> QED
  BY <1>1, <1>2, <1>3, <1>4, <1>5, <1>6, AcquiringMoves DEF Next, Step, Begins

----------------------------------------------------------------------------
(* Books *)

(* The hour of an instant, bounded: no instant of an hour is before its    *)
(* beginning, and what is between the beginning and it is of the hour.     *)
LEMMA HourBounds ==
  ASSUME NEW a \in Nat
  PROVE  Hour(a) \in Nat /\ Hour(a) * HourLength <= a /\ a < (Hour(a) + 1) * HourLength
<1> HourLength \in Nat \ {0}
  BY ExecutionAssumption
<1> QED BY DEF Hour

LEMMA HourOrder ==
  ASSUME NEW x \in Nat, NEW y \in Nat, x * HourLength < (y + 1) * HourLength
  PROVE  x <= y
<1> HourLength \in Nat \ {0}
  BY ExecutionAssumption
<1> QED OBVIOUS

LEMMA SameHour ==
  ASSUME NEW a \in Nat, NEW b \in Nat, b <= a, Hour(a) * HourLength <= b
  PROVE  Hour(b) = Hour(a)
<1> HourLength \in Nat \ {0}
  BY ExecutionAssumption
<1>1. Hour(a) \in Nat /\ Hour(b) \in Nat
  BY HourBounds
<1>2. Hour(a) * HourLength <= b /\ b < (Hour(b) + 1) * HourLength
  BY HourBounds
<1>3. Hour(b) * HourLength <= b /\ b < (Hour(a) + 1) * HourLength
  BY HourBounds
<1>4. Hour(a) <= Hour(b)
  BY <1>1, <1>2, HourOrder
<1>5. Hour(b) <= Hour(a)
  BY <1>1, <1>3, HourOrder
<1> QED BY <1>1, <1>4, <1>5

(* The seed of its hour and the changes since make the book of a change.   *)
LEMMA RebuiltIsTrue ==
  ASSUME NEW p \in Procs, NEW h, NEW i \in InHour(h), Unseeded(p, h) = {},
         \A s \in db[p].seeds : s.book = SeedAt(s.token, s.hour)
  PROVE  Rebuilt(p, i, h) = BookAt(i.token, i.at, i.id)
<1> DEFINE t == i.token
           Earlier(e) == e.at < i.at \/ (e.at = i.at /\ e.id <= i.id)
<1>1. i \in Evidence /\ i.at \in Nat /\ Hour(i.at) = h /\ t \in TokensOf(h)
  BY ExecutionAssumption DEF InHour
<1>2. Seed(p, t, h) = SeedAt(t, h)
  BY <1>1 DEF Seed, Unseeded
<1>3. \A e \in Evidence : e.at \in Nat
  BY ExecutionAssumption
<1>4. ASSUME NEW e \in Evidence
      PROVE  e.at < h * HourLength => e.at < i.at
  <2> HourLength \in Nat \ {0}
    BY ExecutionAssumption
  <2>1. h \in Nat /\ h * HourLength <= i.at
    BY <1>1, HourBounds
  <2>2. h * HourLength \in Nat
    BY <2>1
  <2> QED BY <1>1, <1>3, <2>1, <2>2
<1>5. ASSUME NEW e \in Evidence, Earlier(e), ~(e.at < h * HourLength)
      PROVE  Hour(e.at) = h
  <2> HourLength \in Nat \ {0}
    BY ExecutionAssumption
  <2>1. e.at \in Nat /\ e.at <= i.at
    BY <1>1, <1>3, <1>5
  <2>2. h \in Nat /\ h * HourLength \in Nat
    BY <1>1, HourBounds
  <2>3. Hour(i.at) * HourLength <= e.at
    BY <1>1, <1>5, <2>1, <2>2
  <2> QED BY <1>1, <2>1, <2>3, SameHour
<1>6. ASSUME NEW e \in Evidence, e.kind = "book", e.token = t
      PROVE  Earlier(e) <=> e.at < h * HourLength \/ (e \in InHour(h) /\ Earlier(e))
  BY <1>1, <1>4, <1>5, <1>6 DEF InHour
<1>7. {e \in Evidence : e.kind = "book" /\ e.token = t /\ Earlier(e)} =
        {e \in Evidence : e.kind = "book" /\ e.token = t /\ e.at < h * HourLength}
          \cup {f \in InHour(h) : f.kind = "book" /\ f.token = t /\ Earlier(f)}
  BY <1>6 DEF InHour
<1>8. BookAt(t, i.at, i.id) = {e.id : e \in {f \in Evidence : f.kind = "book" /\ f.token = t /\ Earlier(f)}}
  BY DEF BookAt
<1>9. Rebuilt(p, i, h) =
        {e.id : e \in {f \in Evidence : f.kind = "book" /\ f.token = t /\ f.at < h * HourLength}}
          \cup {e.id : e \in {f \in InHour(h) : f.kind = "book" /\ f.token = t /\ Earlier(f)}}
  BY <1>2 DEF Rebuilt, SeedAt
<1> HIDE DEF Earlier
<1> QED BY <1>7, <1>8, <1>9

(* A checkpoint with some of its tables replaced.                          *)
LEMMA DataUpdates ==
  ASSUME NEW d, d = Data(d), NEW x
  PROVE  /\ [d EXCEPT !.windows = x] =
              [source |-> d.source, windows |-> x, rows |-> d.rows, seeds |-> d.seeds, objects |-> d.objects]
         /\ [d EXCEPT !.rows = x] =
              [source |-> d.source, windows |-> d.windows, rows |-> x, seeds |-> d.seeds, objects |-> d.objects]
         /\ [d EXCEPT !.seeds = x] =
              [source |-> d.source, windows |-> d.windows, rows |-> d.rows, seeds |-> x, objects |-> d.objects]
         /\ [d EXCEPT !.objects = x] =
              [source |-> d.source, windows |-> d.windows, rows |-> d.rows, seeds |-> d.seeds, objects |-> x]
BY DEF Data

(* What replaces the tables of a process stores, if its new books and      *)
(* seeds are true.                                                         *)
LEMMA Replaces ==
  ASSUME Shapes, NEW p \in Procs, NEW d, d = Data(d), db' = [db EXCEPT ![p] = d],
         \A r \in d.rows \ db[p].rows : r.kind = "book" => r.book = BookAt(r.token, r.at, r.id),
         \A s \in d.seeds \ db[p].seeds : s.book = SeedAt(s.token, s.hour)
  PROVE  Stores(p)
<1>1. db' = [q \in Procs |-> Data(db'[q])]
  BY DEF Shapes
<1>2. \A q \in Procs \ {p} : db'[q] = db[q]
  BY DEF Shapes
<1>3. db'[p] = d
  BY DEF Shapes
<1> QED BY <1>1, <1>2, <1>3 DEF Stores

LEMMA WindowsAreStored ==
  ASSUME Shapes, NEW p \in Procs,
         \/ db' = db \/ (\E c : db' = [db EXCEPT ![p] = Checkpoint(c)])
         \/ \E ws : db' = [db EXCEPT ![p].windows = ws]
  PROVE  Stores(p)
<1>1. CASE db' = db
  <2>1. db' = [db EXCEPT ![p] = db[p]] /\ db[p] = Data(db[p])
    BY <1>1 DEF Shapes
  <2> QED BY <2>1, Replaces
<1>2. ASSUME NEW c, db' = [db EXCEPT ![p] = Checkpoint(c)]
      PROVE  Stores(p)
  <2>1. /\ Checkpoint(c) = Data(Checkpoint(c))
        /\ Checkpoint(c).rows = {} /\ Checkpoint(c).seeds = {}
    BY DEF Checkpoint, Data
  <2> QED BY <1>2, <2>1, Replaces
<1>3. ASSUME NEW ws, db' = [db EXCEPT ![p].windows = ws]
      PROVE  Stores(p)
  <2> DEFINE d == [db[p] EXCEPT !.windows = ws]
  <2>1. db[p] = Data(db[p]) /\ db' = [db EXCEPT ![p] = d]
    BY <1>3 DEF Shapes
  <2>2. d = [source |-> db[p].source, windows |-> ws, rows |-> db[p].rows, seeds |-> db[p].seeds,
             objects |-> db[p].objects]
    BY <2>1, DataUpdates
  <2>3. d = Data(d) /\ d.rows = db[p].rows /\ d.seeds = db[p].seeds
    BY <2>2 DEF Data
  <2> HIDE DEF d
  <2> QED BY <2>1, <2>3, Replaces
<1> QED BY <1>1, <1>2, <1>3

LEMMA RowsAreStored ==
  ASSUME Shapes, NEW p \in Procs, InsertRows(p)
  PROVE  Stores(p)
<1>1. PICK some : db' = [db EXCEPT ![p].rows = @ \cup {RangeRow(Window(p), i) : i \in some}]
  BY DEF InsertRows
<1> DEFINE rows == db[p].rows \cup {RangeRow(Window(p), i) : i \in some}
           d    == [db[p] EXCEPT !.rows = rows]
<1>2. \A r \in rows \ db[p].rows : r.kind = "book" => r.book = BookAt(r.token, r.at, r.id)
  BY DEF RangeRow
<1>3. db[p] = Data(db[p])
  BY DEF Shapes
<1>4. db' = [db EXCEPT ![p] = d]
  BY <1>1
<1> HIDE DEF rows
<1>5. d = [source |-> db[p].source, windows |-> db[p].windows, rows |-> rows, seeds |-> db[p].seeds,
           objects |-> db[p].objects]
  BY <1>3, DataUpdates
<1>6. d = Data(d) /\ d.rows = rows /\ d.seeds = db[p].seeds
  BY <1>5 DEF Data
<1> HIDE DEF d
<1> QED BY <1>2, <1>4, <1>6, Replaces

LEMMA SeedIsStored ==
  ASSUME Shapes, NEW p \in Procs, StoreSeed(p)
  PROVE  Stores(p)
<1> DEFINE seed  == [hour |-> job[p].hour, token |-> job[p].token, book |-> SeedAt(job[p].token, job[p].hour)]
           seeds == db[p].seeds \cup {seed}
           d     == [db[p] EXCEPT !.seeds = seeds]
<1>1. db[p] = Data(db[p]) /\ db' = [db EXCEPT ![p] = d]
  BY DEF Shapes, StoreSeed
<1>2. \A s \in seeds \ db[p].seeds : s.book = SeedAt(s.token, s.hour)
  OBVIOUS
<1> HIDE DEF seeds
<1>3. d = [source |-> db[p].source, windows |-> db[p].windows, rows |-> db[p].rows, seeds |-> seeds,
           objects |-> db[p].objects]
  BY <1>1, DataUpdates
<1>4. d = Data(d) /\ d.rows = db[p].rows /\ d.seeds = seeds
  BY <1>3 DEF Data
<1> HIDE DEF d
<1> QED BY <1>1, <1>2, <1>4, Replaces

LEMMA ObjectIsStored ==
  ASSUME Shapes, NEW p \in Procs, SeedsAreTrue(p), HourIsSeeded(p), FetchObject(p)
  PROVE  Stores(p)
<1> DEFINE h == job[p].hour
           rows == UNION {{ArchiveRow(p, w, i, h) : i \in InHour(h) \cap Within(w)} : w \in Plan}
<1>1. \A r \in rows : r.kind = "book" => r.book = BookAt(r.token, r.at, r.id)
  <2>1. Unseeded(p, h) = {}
    BY DEF FetchObject, HourIsSeeded
  <2>2. ASSUME NEW w \in Plan, NEW i \in InHour(h)
        PROVE  LET r == ArchiveRow(p, w, i, h) IN r.kind = "book" => r.book = BookAt(r.token, r.at, r.id)
    BY <2>1, RebuiltIsTrue DEF ArchiveRow, SeedsAreTrue
  <2> QED BY <2>2
<1>2. db[p] = Data(db[p])
  BY DEF Shapes
<1> HIDE DEF rows
<1>3. ASSUME NEW object, NEW some, some \in {rows, {}}, db' = [db EXCEPT ![p] = WithObject(@, object, some)]
      PROVE  Stores(p)
  <2> DEFINE d == WithObject(db[p], object, some)
  <2>1. d = Data(d) /\ d.rows = db[p].rows \cup some /\ d.seeds = db[p].seeds
    BY DEF WithObject, Data
  <2>2. db' = [db EXCEPT ![p] = d]
    BY <1>3
  <2>3. \A r \in d.rows \ db[p].rows : r.kind = "book" => r.book = BookAt(r.token, r.at, r.id)
    BY <1>1, <1>3, <2>1
  <2> HIDE DEF d
  <2> QED BY <2>1, <2>2, <2>3, Replaces
<1>5. CASE db' = db
  BY <1>5, WindowsAreStored
<1> QED BY <1>3, <1>5 DEF FetchObject, rows

LEMMA StepStores ==
  ASSUME Shapes, Books, NEW p \in Procs, Begins(p) \/ Step(p) \/ Crash(p)
  PROVE  Stores(p)
<1>1. CASE Begins(p) \/ Crash(p)
  BY <1>1, WindowsAreStored DEF Begins, Start, Crash
<1>2. CASE NextWindow(p) \/ FetchBooks(p) \/ FetchTrades(p) \/ NextHour(p) \/ FetchSeed(p)
  BY <1>2, WindowsAreStored DEF NextWindow, FetchBooks, FetchTrades, NextHour, FetchSeed
<1>3. CASE MarkSplit(p) \/ InsertHalves(p) \/ CompleteWindow(p) \/ FinishWindows(p)
  BY <1>3, WindowsAreStored DEF MarkSplit, InsertHalves, CompleteWindow, FinishWindows
<1>4. CASE TakeLock(p) \/ Write(p) \/ Reject(p) \/ Install(p) \/ Unlock(p)
  BY <1>4, WindowsAreStored DEF TakeLock, Write, Reject, Install, Unlock
<1> QED
  BY <1>1, <1>2, <1>3, <1>4, RowsAreStored, SeedIsStored, ObjectIsStored DEF Step, Books

(* A process is at an object only with the seeds of its hour.              *)
LEMMA StepMoves ==
  ASSUME Shapes, NEW p \in Procs, Begins(p) \/ Step(p) \/ Crash(p)
  PROVE  \E pcs : MovesTo(p, pcs) /\ ("object" \in pcs => db' = db /\ HourIsSeeded(p)')
<1>1. CASE NextHour(p)
  BY <1>1, HourMoves DEF HourIsSeeded, Unseeded
<1>2. CASE TakeLock(p) \/ Write(p) \/ Reject(p) \/ Install(p) \/ Unlock(p)
  <2>1. \E pcs \in {{"idle"}, {"write"}, {"install", "cleanup"}} : MovesTo(p, pcs)
    BY <1>2, PublishingMoves
  <2> QED BY <2>1
<1>3. CASE ~(NextHour(p) \/ TakeLock(p) \/ Write(p) \/ Reject(p) \/ Install(p) \/ Unlock(p))
  <2>1. MovesTo(p, Acquiring)
    BY <1>3, AcquiringMoves DEF Step
  <2> QED BY <2>1 DEF Acquiring
<1> QED BY <1>1, <1>2, <1>3

LEMMA BooksStep == Shapes /\ Books /\ [Next]_vars => Shapes' /\ Books'
<1> SUFFICES ASSUME Shapes, Books, [Next]_vars PROVE Shapes' /\ Books'
  OBVIOUS
<1>1. ASSUME NEW p \in Procs, Begins(p) \/ Step(p) \/ Crash(p)
      PROVE  Shapes' /\ Books'
  <2>1. Stores(p)
    BY <1>1, StepStores
  <2>2. PICK pcs : MovesTo(p, pcs) /\ ("object" \in pcs => db' = db /\ HourIsSeeded(p)')
    BY <1>1, StepMoves
  <2>3. Shapes'
    BY <2>1, <2>2 DEF Shapes, Stores, MovesTo
  <2>4. RowsAreTrue(p)' /\ SeedsAreTrue(p)'
    BY <2>1 DEF Stores, Books, RowsAreTrue, SeedsAreTrue
  <2>5. HourIsSeeded(p)'
    BY <2>2 DEF MovesTo, HourIsSeeded
  <2>6. ASSUME NEW q \in Procs \ {p}
        PROVE  RowsAreTrue(q)' /\ SeedsAreTrue(q)' /\ HourIsSeeded(q)'
    <3>1. job'[q] = job[q] /\ db'[q] = db[q]
      BY <2>1, <2>2 DEF Stores, MovesTo
    <3> QED BY <3>1 DEF Books, RowsAreTrue, SeedsAreTrue, HourIsSeeded, Unseeded
  <2> QED BY <2>3, <2>4, <2>5, <2>6 DEF Books
<1>2. CASE UNCHANGED <<job, db>>
  BY <1>2 DEF Shapes, Books, RowsAreTrue, SeedsAreTrue, HourIsSeeded, Unseeded
<1>3. ASSUME Elsewhere \/ UNCHANGED vars \/ \E h \in LateHours : ObjectAppears(h)
      PROVE  UNCHANGED <<job, db>>
  BY <1>3 DEF Elsewhere, ObjectAppears, vars
<1> QED BY <1>1, <1>2, <1>3 DEF Next, Begins

LEMMA BooksInit == Init => Shapes /\ Books /\ OnePublisher
<1> SUFFICES ASSUME Init PROVE Shapes /\ Books /\ OnePublisher
  OBVIOUS
<1>1. State(Idle) = Idle /\ Data(NoWindows) = NoWindows
  BY DEF State, Idle, At, Data, NoWindows
<1>2. Shapes
  BY <1>1 DEF Init, Shapes
<1>3. Idle.pc = "idle" /\ NoWindows.rows = {} /\ NoWindows.seeds = {}
  BY DEF Idle, At, NoWindows
<1> QED
  BY <1>2, <1>3 DEF Init, Books, RowsAreTrue, SeedsAreTrue, HourIsSeeded, OnePublisher, Publishing

(* A book of a checkpoint is the one there was at its instant, for any     *)
(* length of an hour and any changes: also when it is rebuilt from the     *)
(* seed of an hour whose predecessor never appeared.                       *)
THEOREM BooksAreRebuiltTrue == Spec => []BooksAreTrue
<1>1. Books => BooksAreTrue
  BY DEF Books, RowsAreTrue, BooksAreTrue
<1> QED BY <1>1, BooksInit, BooksStep, PTL DEF Spec

(* One process at a time writes the release, and it holds the lock; it is  *)
(* the lock directory that keeps the others out, whoever crashes.          *)
THEOREM OneProcessPublishes == Spec => []OnePublisher
BY BooksInit, BooksStep, LockStep, PTL DEF Spec

----------------------------------------------------------------------------
(* The plan *)

(* A finite set of numbers has a least and a greatest element.             *)
LEMMA Least ==
  ASSUME NEW S \in SUBSET Int, IsFiniteSet(S), S # {}
  PROVE  \E x \in S : \A y \in S : x <= y
<1> DEFINE Below(x) == {y \in S : y < x}
           R == StrictSubsetOrdering(S)
           T == {Below(x) : x \in S}
<1>1. T \subseteq FiniteSubsetsOf(S) /\ T # {}
  <2>1. \A x \in S : IsFiniteSet(Below(x))
    <3> TAKE x \in S
    <3>1. Below(x) \in SUBSET S
      OBVIOUS
    <3> QED BY <3>1, FS_Subset
  <2> QED BY <2>1 DEF FiniteSubsetsOf
<1>2. \A x, y \in S : y < x => <<Below(y), Below(x)>> \in R
  <2> TAKE x, y \in S
  <2> HAVE y < x
  <2>0. x \in Int /\ y \in Int /\ \A z \in S : z \in Int
    OBVIOUS
  <2>a. \A z \in Below(y) : z \in Below(x)
    BY <2>0
  <2>b. y \in Below(x) /\ y \notin Below(y)
    BY <2>0
  <2>1. Below(y) \subseteq Below(x) /\ y \in Below(x) /\ y \notin Below(y)
    BY <2>a, <2>b
  <2>2. Below(y) # Below(x) /\ Below(x) \in SUBSET S /\ Below(y) \in SUBSET S
    BY <2>1
  <2> QED BY <2>1, <2>2 DEF StrictSubsetOrdering
<1>3. \E t \in T : \A u \in T : ~(<<u, t>> \in R)
  <2> HIDE DEF R, T
  <2>1. IsWellFoundedOn(R, FiniteSubsetsOf(S))
    BY FS_StrictSubsetOrderingWellFounded DEF R
  <2> QED BY <1>1, <2>1, WFMin
<1> HIDE DEF R
<1>4. PICK x \in S : \A y \in S : ~(<<Below(y), Below(x)>> \in R)
  BY <1>3
<1>5. \A y \in S : x <= y
  <2> TAKE y \in S
  <2>1. ~(y < x)
    BY <1>2, <1>4
  <2> QED BY <2>1
<1> QED BY <1>5

LEMMA Greatest ==
  ASSUME NEW S \in SUBSET Int, IsFiniteSet(S), S # {}
  PROVE  Max(S) \in S /\ \A y \in S : y <= Max(S)
<1> DEFINE N == {-x : x \in S}
           f == [x \in S |-> -x]
<1>1. IsFiniteSet(N)
  <2>1. f \in Surjection(S, N)
    BY DEF Surjection
  <2> QED BY <2>1, FS_Surjection
<1>2. N \in SUBSET Int /\ N # {}
  <2>1. \A x \in S : -x \in Int
    OBVIOUS
  <2> QED BY <2>1
<1>3. PICK n \in N : \A m \in N : n <= m
  <2> HIDE DEF N
  <2> QED BY <1>1, <1>2, Least
<1>4. PICK x \in S : n = -x
  OBVIOUS
<1>5. \A y \in S : x >= y
  <2> TAKE y \in S
  <2>1. -y \in N /\ y \in Int /\ x \in Int
    OBVIOUS
  <2>2. -x <= -y
    BY <1>3, <1>4, <2>1
  <2> QED BY <2>1, <2>2
<1>6. Max(S) \in S /\ \A y \in S : Max(S) >= y
  BY <1>5 DEF Max
<1>7. \A y \in S : y <= Max(S)
  BY <1>6
<1> QED BY <1>6, <1>7

LEMMA LegBounds ==
  ASSUME NEW l \in Legs
  PROVE  From(l) \in Int /\ Until(l) \in Int /\ From(l) < Until(l)
BY LegsAssumption, ExecutionAssumption DEF From, Until

LEMMA LegOrder ==
  ASSUME NEW l \in Legs, NEW k \in Legs
  PROVE  From(l) <= From(k) <=> Until(l) <= Until(k)
BY LegsAssumption, ExecutionAssumption DEF From, Until

(* The legs of the window that leg l opens, and the legs that open others  *)
(* after it.                                                               *)
Rest(l)   == {k \in OfToken(l.token) : From(k) >= From(l)}
OpenedAfter(l) == {k \in Rest(l) : Opens(k) /\ From(k) > From(l)}
Joined(l) == {r \in Rest(l) : \A n \in OpenedAfter(l) : From(r) < From(n)}

LEMMA LegsAreFinite ==
  ASSUME NEW S \in SUBSET Legs
  PROVE  /\ IsFiniteSet({Until(k) : k \in S}) /\ IsFiniteSet({From(k) : k \in S})
         /\ {Until(k) : k \in S} \in SUBSET Int /\ {From(k) : k \in S} \in SUBSET Int
<1>1. IsFiniteSet(S)
  BY LegsAssumption, FS_Subset
<1>2. IsFiniteSet({Until(k) : k \in S})
  <2> DEFINE f == [k \in S |-> Until(k)]
  <2>1. f \in Surjection(S, {Until(k) : k \in S})
    BY DEF Surjection
  <2> QED BY <1>1, <2>1, FS_Surjection
<1>3. IsFiniteSet({From(k) : k \in S})
  <2> DEFINE f == [k \in S |-> From(k)]
  <2>1. f \in Surjection(S, {From(k) : k \in S})
    BY DEF Surjection
  <2> QED BY <1>1, <2>1, FS_Surjection
<1> QED BY <1>2, <1>3, LegBounds

(* A window ends with the last leg that joined it.                         *)
LEMMA ClosingIs ==
  ASSUME NEW l \in Legs
  PROVE  /\ \E k \in Joined(l) : Closing(l) = Until(k)
         /\ \A k \in Joined(l) : Until(k) <= Closing(l)
         /\ l \in Joined(l) /\ Joined(l) \in SUBSET Legs
         /\ Closing(l) \in Int /\ From(l) < Closing(l)
<1>1. l \in Joined(l) /\ Joined(l) \in SUBSET Legs
  BY LegBounds DEF Joined, Rest, OpenedAfter, OfToken
<1>2. Closing(l) = Max({Until(k) : k \in Joined(l)})
  BY DEF Closing, Joined, Rest, OpenedAfter
<1> DEFINE S == {Until(k) : k \in Joined(l)}
<1>3. IsFiniteSet(S) /\ S \in SUBSET Int /\ S # {}
  BY <1>1, LegsAreFinite
<1>4. Max(S) \in S /\ \A y \in S : y <= Max(S)
  <2> HIDE DEF S
  <2> QED BY <1>3, Greatest
<1>5. Until(l) <= Closing(l) /\ Closing(l) \in Int
  BY <1>1, <1>2, <1>3, <1>4
<1>6. (\E k \in Joined(l) : Closing(l) = Until(k)) /\ \A k \in Joined(l) : Until(k) <= Closing(l)
  BY <1>2, <1>4
<1> HIDE DEF S
<1> QED BY <1>1, <1>5, <1>6, LegBounds

(* What leg l opens is planned.                                            *)
Opened(l) == [token |-> l.token, from |-> From(l), to |-> Closing(l)]

LEMMA PlanIs == Plan = {Opened(l) : l \in {k \in Legs : Opens(k)}}
BY DEF Plan, Opened

(* Every leg joined the last window that was opened before it ends.        *)
LEMMA EveryLegJoins ==
  ASSUME NEW l \in Legs
  PROVE  \E o \in Legs : /\ Opens(o) /\ o.token = l.token /\ From(o) <= From(l)
                         /\ l \in Joined(o)
<1> DEFINE C == {k \in OfToken(l.token) : Opens(k) /\ From(k) <= From(l)}
           S == {From(k) : k \in C}
<1>1. C \in SUBSET Legs
  BY DEF OfToken
<1>2. C # {}
  <2> DEFINE A == {From(k) : k \in OfToken(l.token)}
  <2>1. OfToken(l.token) \in SUBSET Legs /\ l \in OfToken(l.token)
    BY DEF OfToken
  <2>2. IsFiniteSet(A) /\ A \in SUBSET Int /\ A # {}
    BY <2>1, LegsAreFinite
  <2>3. PICK a \in A : \A b \in A : a <= b
    <3> HIDE DEF A
    <3> QED BY <2>2, Least
  <2>4. PICK k \in OfToken(l.token) : a = From(k)
    OBVIOUS
  <2>5. \A m \in OfToken(l.token) : From(k) <= From(m)
    BY <2>3, <2>4
  <2>6. k \in Legs /\ k.token = l.token
    BY DEF OfToken
  <2>7. Opens(k)
    BY <2>1, <2>5, <2>6, LegBounds DEF Opens
  <2> QED BY <2>1, <2>4, <2>5, <2>7
<1>3. IsFiniteSet(S) /\ S \in SUBSET Int /\ S # {}
  <2> HIDE DEF C
  <2> QED BY <1>1, <1>2, LegsAreFinite
<1>4. Max(S) \in S /\ \A y \in S : y <= Max(S)
  <2> HIDE DEF S
  <2> QED BY <1>3, Greatest
<1>5. PICK o \in C : From(o) = Max(S)
  BY <1>4
<1>6. \A k \in C : From(k) <= From(o)
  BY <1>4, <1>5
<1>7. o \in Legs /\ Opens(o) /\ o.token = l.token /\ From(o) <= From(l)
  BY <1>5 DEF OfToken
<1>8. l \in Rest(o)
  BY <1>7, LegBounds DEF Rest, OfToken
<1>9. ASSUME NEW n \in OpenedAfter(o)
      PROVE  From(l) < From(n)
  <2>1. n \in OfToken(l.token) /\ Opens(n) /\ From(n) > From(o) /\ n \in Legs
    BY <1>7, <1>9 DEF OpenedAfter, Rest, OfToken
  <2>2. n \notin C
    BY <1>6, <1>7, <2>1, LegBounds
  <2> QED BY <2>1, <2>2, LegBounds
<1> QED BY <1>7, <1>8, <1>9 DEF Joined

(* A window opened later begins after the end of one opened before.        *)
LEMMA OpenedApart ==
  ASSUME NEW l \in Legs, NEW k \in Legs, Opens(k), l.token = k.token, From(l) < From(k)
  PROVE  Closing(l) < From(k)
<1>1. PICK m \in Joined(l) : Closing(l) = Until(m)
  BY ClosingIs
<1>2. k \in OpenedAfter(l)
  BY LegBounds DEF OpenedAfter, Rest, OfToken
<1>3. m \in Legs /\ m \in OfToken(k.token) /\ From(m) < From(k)
  BY <1>2 DEF Joined, Rest, OfToken
<1> QED BY <1>1, <1>3 DEF Opens, Apart

LEMMA OpenedAlike ==
  ASSUME NEW l \in Legs, NEW k \in Legs, l.token = k.token, From(l) = From(k)
  PROVE  Opened(l) = Opened(k)
<1>1. Rest(l) = Rest(k)
  BY DEF Rest
<1>2. Joined(l) = Joined(k)
  BY <1>1 DEF Joined, OpenedAfter
<1>3. Closing(l) = Closing(k)
  BY <1>2 DEF Closing, Joined, Rest, OpenedAfter
<1> QED BY <1>3 DEF Opened

LEMMA WindowsApart ==
  ASSUME NEW v \in Plan, NEW w \in Plan, v # w, v.token = w.token
  PROVE  v.to < w.from \/ w.to < v.from
<1>1. PICK l \in Legs : Opens(l) /\ v = Opened(l)
  BY PlanIs
<1>2. PICK k \in Legs : Opens(k) /\ w = Opened(k)
  BY PlanIs
<1>3. l.token = k.token /\ From(l) # From(k)
  BY <1>1, <1>2, OpenedAlike DEF Opened
<1>4. CASE From(l) < From(k)
  BY <1>1, <1>2, <1>3, <1>4, OpenedApart DEF Opened
<1>5. CASE From(k) < From(l)
  BY <1>1, <1>2, <1>3, <1>5, OpenedApart DEF Opened
<1> QED BY <1>3, <1>4, <1>5, LegBounds

LEMMA WindowBounds ==
  ASSUME NEW w \in Plan
  PROVE  /\ w.token \in Nat /\ w.from \in Int /\ w.to \in Int /\ w.from < w.to
         /\ w = [token |-> w.token, from |-> w.from, to |-> w.to]
<1>1. PICK l \in Legs : w = Opened(l)
  BY PlanIs
<1> QED BY <1>1, LegBounds, ClosingIs, LegsAssumption DEF Opened

(* Every leg lies in one window of the plan, and no instant of a token in  *)
(* two, for any legs and any padding.                                      *)
THEOREM PlanIsOnePartition == PlanIsAPartition
<1>1. ASSUME NEW v \in Plan, NEW w \in Plan, v # w, v.token = w.token
      PROVE  v.to < w.from \/ w.to < v.from
  BY <1>1, WindowsApart
<1>2. ASSUME NEW l \in Legs
      PROVE  Cardinality({w \in Plan : w.token = l.token /\ w.from <= From(l) /\ Until(l) <= w.to}) = 1
  <2> DEFINE Has(w) == w.token = l.token /\ w.from <= From(l) /\ Until(l) <= w.to
  <2>1. PICK o \in Legs : /\ Opens(o) /\ o.token = l.token /\ From(o) <= From(l)
                          /\ l \in Joined(o)
    BY EveryLegJoins
  <2>2. Opened(o) \in Plan /\ Has(Opened(o))
    BY <2>1, ClosingIs, PlanIs DEF Opened
  <2>3. ASSUME NEW w \in Plan, Has(w)
        PROVE  w = Opened(o)
    <3> DEFINE v == Opened(o)
    <3>1. v \in Plan /\ Has(v)
      BY <2>2
    <3> HIDE DEF v
    <3>2. w # v => v.to < w.from \/ w.to < v.from
      BY <2>3, <3>1, WindowsApart
    <3>3. ~(v.to < w.from \/ w.to < v.from)
      BY <2>3, <3>1, LegBounds, WindowBounds
    <3> QED BY <3>2, <3>3 DEF v
  <2>4. {w \in Plan : Has(w)} = {Opened(o)}
    BY <2>2, <2>3
  <2> HIDE DEF Has
  <2>5. Cardinality({w \in Plan : Has(w)}) = 1
    BY <2>4, FS_Singleton
  <2> QED BY <2>5 DEF Has
<1> QED BY <1>1, <1>2 DEF PlanIsAPartition

----------------------------------------------------------------------------
(* Answers *)

Earlier(items, x) == {j \in items : j.at < x.at \/ (j.at = x.at /\ j.id < x.id)}
Rank(items, x)    == Cardinality(Earlier(items, x))
First(items)      == {i \in items : Rank(items, i) < Limit}

(* Evidence of one token and kind, of which no two items are at a place.   *)
AreAlike(items) ==
  /\ items \in SUBSET Evidence /\ IsFiniteSet(items)
  /\ \A x, y \in items : x.token = y.token /\ x.kind = y.kind

LEMMA Ranks ==
  ASSUME NEW items, AreAlike(items)
  PROVE  /\ \A x \in items : Rank(items, x) \in Nat /\ IsFiniteSet(Earlier(items, x))
         /\ \A x \in items : \A y \in Earlier(items, x) : y \in items /\ Rank(items, y) < Rank(items, x)
         /\ \A x, y \in items : Rank(items, x) = Rank(items, y) => x = y
<1>0. \A x \in items : x.at \in Nat /\ x.id \in Nat /\ x = [kind |-> x.kind, token |-> x.token, id |-> x.id, at |-> x.at]
  BY EvidenceAssumption DEF AreAlike
<1>1. ASSUME NEW x \in items
      PROVE  Rank(items, x) \in Nat /\ IsFiniteSet(Earlier(items, x))
  <2>1. Earlier(items, x) \in SUBSET items
    BY DEF Earlier
  <2>2. IsFiniteSet(Earlier(items, x)) /\ Cardinality(Earlier(items, x)) \in Nat
    BY <2>1, FS_Subset, FS_CardinalityType DEF AreAlike
  <2> QED BY <2>2 DEF Rank
<1>2. ASSUME NEW x \in items, NEW y \in Earlier(items, x)
      PROVE  y \in items /\ Rank(items, y) < Rank(items, x)
  <2>1. y \in items /\ (y.at < x.at \/ (y.at = x.at /\ y.id < x.id))
    BY DEF Earlier
  <2>2. \A z \in Earlier(items, y) : z \in Earlier(items, x)
    BY <1>0, <2>1 DEF Earlier
  <2>3. y \notin Earlier(items, y)
    BY <1>0, <2>1 DEF Earlier
  <2>4. Earlier(items, y) \in SUBSET Earlier(items, x) /\ Earlier(items, y) # Earlier(items, x)
    BY <2>2, <2>3
  <2>5. Cardinality(Earlier(items, y)) <= Cardinality(Earlier(items, x)) /\ Cardinality(Earlier(items, y)) # Cardinality(Earlier(items, x))
    BY <1>1, <2>4, FS_Subset
  <2> QED BY <1>1, <2>1, <2>5 DEF Rank
<1>3. ASSUME NEW x \in items, NEW y \in items, Rank(items, x) = Rank(items, y)
      PROVE  x = y
  <2>1. x \notin Earlier(items, y) /\ y \notin Earlier(items, x)
    BY <1>1, <1>2, <1>3
  <2>2. x.at = y.at /\ x.id = y.id
    BY <1>0, <2>1 DEF Earlier
  <2> QED BY <1>0, <2>2 DEF AreAlike
<1> QED BY <1>1, <1>2, <1>3

(* An answer that left out an item is full.                                *)
LEMMA CutOffIsFull ==
  ASSUME NEW items, AreAlike(items), NEW z \in items, Rank(items, z) >= Limit
  PROVE  Cardinality(First(items)) = Limit
<1>0. Limit \in Nat
  BY ExecutionAssumption
<1>1. IsFiniteSet(First(items)) /\ Cardinality(First(items)) \in Nat
  <2>1. First(items) \in SUBSET items
    BY DEF First
  <2> QED BY <2>1, FS_Subset, FS_CardinalityType DEF AreAlike
<1>2. Cardinality(First(items)) <= Limit
  <2> DEFINE f == [i \in First(items) |-> Rank(items, i)]
  <2>1. \A i \in First(items) : i \in items /\ Rank(items, i) \in 0..Limit - 1
    BY <1>0, Ranks DEF First
  <2>2. f \in [First(items) -> 0..Limit - 1]
    BY <2>1
  <2>3. \A x, y \in First(items) : f[x] = f[y] => x = y
    BY <2>1, Ranks
  <2>4. f \in Injection(First(items), 0..Limit - 1)
    <3> HIDE DEF f
    <3> QED BY <2>2, <2>3 DEF Injection, IsInjective
  <2>5. IsFiniteSet(0..Limit - 1) /\ Cardinality(0..Limit - 1) = Limit
    BY <1>0, FS_Interval
  <2> HIDE DEF f
  <2> QED BY <2>4, <2>5, FS_Injection
<1>3. Limit <= Cardinality(First(items))
  <2> DEFINE after == {x \in items : Rank(items, x) >= Limit}
             ranks == {Rank(items, x) : x \in after}
             f     == [x \in after |-> Rank(items, x)]
  <2>1. after \in SUBSET items /\ z \in after
    OBVIOUS
  <2>2. IsFiniteSet(after)
    BY <2>1, FS_Subset DEF AreAlike
  <2>3. f \in Surjection(after, ranks)
    BY DEF Surjection
  <2>4. IsFiniteSet(ranks)
    <3> HIDE DEF after, ranks, f
    <3> QED BY <2>2, <2>3, FS_Surjection
  <2>5. ranks \in SUBSET Int /\ ranks # {}
    BY <2>1, Ranks
  <2>6. PICK n \in ranks : \A m \in ranks : n <= m
    <3> HIDE DEF ranks
    <3> QED BY <2>4, <2>5, Least
  <2>7. PICK x \in after : n = Rank(items, x)
    BY <2>6
  <2>8. ASSUME NEW y \in Earlier(items, x)
        PROVE  y \in First(items)
    <3>1. x \in items /\ y \in items /\ Rank(items, y) < Rank(items, x)
      BY <2>7, <2>8, Ranks
    <3>2. y \notin after
      <4>1. y \in after => Rank(items, x) <= Rank(items, y)
        BY <2>6, <2>7
      <4>2. Rank(items, x) \in Nat /\ Rank(items, y) \in Nat
        BY <3>1, Ranks
      <4> QED BY <3>1, <4>1, <4>2
    <3> QED BY <1>0, <3>1, <3>2, Ranks DEF First
  <2>9. Earlier(items, x) \in SUBSET First(items)
    BY <2>8
  <2>10. Cardinality(Earlier(items, x)) <= Cardinality(First(items))
    BY <1>1, <2>9, FS_Subset
  <2>11. n >= Limit /\ n \in Nat /\ n = Cardinality(Earlier(items, x))
    BY <2>7, Ranks DEF Rank
  <2> QED BY <1>0, <1>1, <2>10, <2>11
<1> QED BY <1>0, <1>1, <1>2, <1>3

(* An answer that is not full is the whole window.                         *)
LEMMA NotFullIsWhole ==
  ASSUME NEW w, ~IsFull(w)
  PROVE  Answers(w) = Within(w)
<1>1. ASSUME NEW kind \in {"book", "trade"}
      PROVE  Answer(w, kind) = {i \in Within(w) : i.kind = kind}
  <2> DEFINE items == {i \in Within(w) : i.kind = kind}
  <2>1. items \in SUBSET Evidence /\ \A x, y \in items : x.token = y.token /\ x.kind = y.kind
    BY DEF Within
  <2>2. AreAlike(items)
    BY <2>1, EvidenceAssumption, FS_Subset DEF AreAlike
  <2>3. Answer(w, kind) = First(items)
    BY DEF Answer, First, Rank, Earlier
  <2>4. Cardinality(First(items)) # Limit
    BY <2>3 DEF IsFull
  <2> HIDE DEF items
  <2>5. \A z \in items : ~(Rank(items, z) >= Limit)
    BY <2>2, <2>4, CutOffIsFull
  <2>6. \A z \in items : Rank(items, z) < Limit
    BY <2>2, <2>5, Ranks, ExecutionAssumption
  <2> QED BY <2>3, <2>6 DEF First, items
<1>2. \A i \in Within(w) : i.kind \in {"book", "trade"}
  BY EvidenceAssumption DEF Within
<1> QED BY <1>1, <1>2 DEF Answers

----------------------------------------------------------------------------
(* Hours of a window *)

LEMMA HoursInOrder ==
  ASSUME NEW a \in Int, NEW b \in Int, a <= b
  PROVE  Hour(a) \in Int /\ Hour(b) \in Int /\ Hour(a) <= Hour(b)
<1> HourLength \in Nat \ {0}
  BY ExecutionAssumption
<1>1. /\ Hour(a) \in Int /\ Hour(a) * HourLength <= a /\ a < (Hour(a) + 1) * HourLength
      /\ Hour(b) \in Int /\ Hour(b) * HourLength <= b /\ b < (Hour(b) + 1) * HourLength
  BY DEF Hour
<1>2. ASSUME NEW x \in Int, NEW y \in Int, x * HourLength < (y + 1) * HourLength
      PROVE  x <= y
  BY <1>2
<1>3. /\ Hour(a) * HourLength \in Int /\ (Hour(b) + 1) * HourLength \in Int
      /\ Hour(a) * HourLength < (Hour(b) + 1) * HourLength
  BY <1>1
<1> QED BY <1>1, <1>2, <1>3

(* What is within a window is in one of its hours.                         *)
LEMMA WithinHours ==
  ASSUME NEW w \in Plan, NEW i \in Within(w)
  PROVE  Hour(i.at) \in HoursOf(w) /\ i \in InHour(Hour(i.at)) /\ Hour(i.at) \in Hours
<1>1. w.from \in Int /\ w.to \in Int
  BY WindowBounds
<1>2. i \in Evidence /\ i.at \in Int /\ i.token = w.token /\ w.from <= i.at /\ i.at <= w.to
  BY EvidenceAssumption DEF Within
<1>3. Hour(i.at) \in HoursOf(w)
  BY <1>1, <1>2, HoursInOrder DEF HoursOf
<1>4. i.token \in TokensOf(Hour(i.at))
  BY <1>2, <1>3 DEF TokensOf
<1> QED BY <1>2, <1>3, <1>4 DEF InHour, Hours

----------------------------------------------------------------------------
(* What has been acquired *)

RangePcs   == {"next", "books", "trades", "split", "halves", "rows", "complete"}
ArchivePcs == {"hours", "seed", "seeded", "object", "finish"}

(* What is stored of an instant, and which windows have it.                *)
IsStored(rows, i) == \E r \in rows : r.id = i.id /\ r.token = i.token /\ r.kind = i.kind
Holds(w, i) == i.token = w.token /\ w.from <= i.at /\ i.at <= w.to

IsWindow(w) ==
  /\ w = [token |-> w.token, from |-> w.from, to |-> w.to, root |-> w.root, depth |-> w.depth, status |-> w.status]
  /\ w.root \in Plan /\ w.token = w.root.token /\ w.root.from <= w.from /\ w.to <= w.root.to
  /\ {w.from, w.to} \subseteq Int /\ w.depth \in Nat

OpenWindows(d) == {w \in d.windows : w.status = "pending"}

SoundData(d) ==
  /\ d.source \in {"none", "range", "archive"}
  /\ \A w \in d.windows : IsWindow(w)
  /\ d.source = "range" => IsFiniteSet(d.windows)
  /\ \A r \in d.rows : r.window \in Plan /\ r.window.from <= r.at /\ r.at <= r.window.to

(* The window a process works on is pending, or marked as split and about  *)
(* to be followed by its halves.                                           *)
AtWork(d, j) ==
  /\ j.pc \in RangePcs => d.source = "range"
  /\ j.pc \in ArchivePcs => d.source = "archive"
  /\ j.pc \in {"publish", "write"} => d.source # "none"
  /\ j.pc \in {"books", "trades", "split", "rows", "complete"} => \E w \in OpenWindows(d) : j.window = {w}
  /\ j.pc = "halves" => \E w : IsWindow(w) /\ w.status = "pending" /\ w.from < w.to /\ j.window = {w}

(* Nothing falls between the windows: what is not stored is in one that is *)
(* still to be done.                                                       *)
RangeIsWhole(d, j) ==
  d.source = "range" =>
    /\ \A w \in Plan : \A i \in Within(w) :
         \/ \E v \in OpenWindows(d) : Holds(v, i)
         \/ j.pc = "halves" /\ \E v \in j.window : Holds(v, i)
         \/ IsStored(d.rows, i)
    /\ j.pc = "rows" => \A w \in j.window : ~IsFull(w)
    /\ j.pc = "complete" => \A w \in j.window : \A i \in Within(w) : IsStored(d.rows, i)

(* An hour that is done is stored, or its object was missing.              *)
HoursAreDone(d) == \A h \in Hours : \E o \in d.objects : o.hour = h

ArchiveIsWhole(d, j) ==
  d.source = "archive" =>
    /\ \A w \in Plan : \A i \in Within(w) : \A o \in d.objects :
         o.hour = Hour(i.at) => o.status = "missing" \/ IsStored(d.rows, i)
    /\ j.pc = "finish" => HoursAreDone(d)
    /\ HoursAreDone(d) \/ \A w \in d.windows : w.status = "pending"

IsWhole(t) ==
  \A w \in Plan : \A i \in Within(w) : Hour(i.at) \in t.missing \/ IsStored(t.rows, i)

IsReady(d, j) ==
  /\ j.pc = "write" => \A w \in d.windows : w.status \in {"complete", "split"}
  /\ j.pc = "install" => \E t : j.temp = {t} /\ IsWhole(t)

Acquired(d, j) == SoundData(d) /\ AtWork(d, j) /\ RangeIsWhole(d, j) /\ ArchiveIsWhole(d, j) /\ IsReady(d, j)

(* A process that stops, or goes on at the same place, leaves what it has  *)
(* acquired as it is; one that stops between the mark of a window and its  *)
(* halves would lose them.                                                 *)
LEMMA StopsAcquired ==
  ASSUME NEW d, NEW j, NEW k, Acquired(d, j), j.pc # "halves", k.pc \in {"idle", "cleanup"}
  PROVE  Acquired(d, k)
BY DEF Acquired, AtWork, RangeIsWhole, ArchiveIsWhole, IsReady, RangePcs, ArchivePcs

LEMMA StaysAcquired ==
  ASSUME NEW d, NEW j, NEW k, Acquired(d, j), k.pc = j.pc, k.window = j.window, k.temp = j.temp
  PROVE  Acquired(d, k)
BY DEF Acquired, AtWork, RangeIsWhole, ArchiveIsWhole, IsReady

LEMMA InitAcquired == Acquired(NoWindows, Idle)
BY FS_EmptySet DEF Acquired, SoundData, AtWork, RangeIsWhole, ArchiveIsWhole, IsReady, NoWindows, Idle, At,
     RangePcs, ArchivePcs

----------------------------------------------------------------------------
(* The steps of an acquisition *)

LEMMA PlanIsFinite == IsFiniteSet(Plan)
<1> DEFINE S == {k \in Legs : Opens(k)}
           f == [l \in S |-> Opened(l)]
<1>1. IsFiniteSet(S)
  <2>1. S \in SUBSET Legs
    OBVIOUS
  <2> QED BY <2>1, LegsAssumption, FS_Subset
<1>2. f \in Surjection(S, Plan)
  <2>1. Plan = {Opened(l) : l \in S}
    BY PlanIs
  <2> QED BY <2>1 DEF Surjection
<1> QED BY <1>1, <1>2, FS_Surjection

LEMMA GoesIs ==
  ASSUME Shapes, NEW p \in Procs, NEW pc, Goes(p, pc)
  PROVE  job'[p] = At(pc, {}, 0, 0, {}) /\ job'[p].pc = pc /\ job'[p].window = {} /\ job'[p].temp = {}
<1>1. job'[p] = At(pc, {}, 0, 0, {})
  BY DEF Goes, Shapes
<1> QED BY <1>1 DEF At

LEMMA PcIs ==
  ASSUME Shapes, NEW p \in Procs, NEW pc, job' = [job EXCEPT ![p].pc = pc]
  PROVE  job'[p].pc = pc /\ job'[p].window = job[p].window /\ job'[p].temp = job[p].temp
<1>1. job'[p] = [job[p] EXCEPT !.pc = pc]
  BY DEF Shapes
<1>2. job[p] = State(job[p])
  BY DEF Shapes
<1>3. [job[p] EXCEPT !.pc = pc] = [State(job[p]) EXCEPT !.pc = pc]
  BY <1>2
<1>4. LET s == [State(job[p]) EXCEPT !.pc = pc] IN s.pc = pc /\ s.window = job[p].window /\ s.temp = job[p].temp
  BY DEF State
<1> QED BY <1>1, <1>3, <1>4

(* A request fails, is sent again, or is followed by the next step.        *)
LEMMA PayIs ==
  ASSUME Shapes, NEW p \in Procs, NEW pc, Pay(p, pc)
  PROVE  \/ Goes(p, "idle")
         \/ job'[p].pc = job[p].pc /\ job'[p].window = job[p].window /\ job'[p].temp = job[p].temp
         \/ job'[p].pc = pc /\ job'[p].window = job[p].window /\ job'[p].temp = {}
<1>1. CASE Fails(p)
  BY <1>1 DEF Fails
<1>2. CASE job' = [job EXCEPT ![p] = GoesOn(p, pc)]
  <2>1. job'[p] = GoesOn(p, pc)
    BY <1>2 DEF Shapes
  <2> QED BY <2>1 DEF GoesOn, At
<1>3. CASE job' = [job EXCEPT ![p].retry = @ + 1]
  <2>1. job'[p] = [job[p] EXCEPT !.retry = job[p].retry + 1]
    BY <1>3 DEF Shapes
  <2>2. job[p] = State(job[p])
    BY DEF Shapes
  <2>3. job'[p] = [State(job[p]) EXCEPT !.retry = job[p].retry + 1]
    BY <2>1, <2>2
  <2> QED BY <2>3 DEF State
<1> QED BY <1>1, <1>2, <1>3 DEF Pay

LEMMA StartAcquires ==
  ASSUME Shapes, NEW p \in Procs, NEW source \in {"range", "archive"}, Start(p, source), Acquired(db[p], job[p])
  PROVE  Acquired(db'[p], job'[p])
<1> DEFINE pc == IF source = "range" THEN "next" ELSE "hours"
<1>1. job'[p].pc = pc /\ job'[p].window = {} /\ job[p].pc = "idle"
  <2>1. Goes(p, pc)
    BY DEF Start
  <2> QED BY <2>1, GoesIs DEF Start
<1>2. CASE Begun(p)
  <2>1. db'[p] = db[p] /\ db[p].source = source
    BY <1>2 DEF Start, Begun
  <2> QED BY <1>1, <2>1 DEF Acquired, AtWork, RangeIsWhole, ArchiveIsWhole, IsReady, RangePcs, ArchivePcs
<1>3. CASE ~Begun(p)
  <2> DEFINE d == Checkpoint(source)
             f == [w \in Plan |-> Root(w)]
  <2>1. db'[p] = d
    BY <1>3 DEF Start, Shapes
  <2>2. d.source = source /\ d.windows = {Root(w) : w \in Plan} /\ d.rows = {} /\ d.objects = {}
    BY DEF Checkpoint
  <2>3. ASSUME NEW w \in Plan
        PROVE  IsWindow(Root(w)) /\ Root(w).status = "pending" /\ \A i \in Within(w) : Holds(Root(w), i)
    BY WindowBounds DEF Root, IsWindow, Holds, Within
  <2>4. f \in Surjection(Plan, d.windows)
    BY <2>2 DEF Surjection
  <2>5. IsFiniteSet(d.windows)
    <3> HIDE DEF d, f
    <3> QED BY <2>4, PlanIsFinite, FS_Surjection
  <2> HIDE DEF d, f
  <2>6. SoundData(d)
    BY <2>2, <2>3, <2>5 DEF SoundData
  <2>7. AtWork(d, job'[p]) /\ IsReady(d, job'[p])
    BY <1>1, <2>2 DEF AtWork, IsReady, RangePcs, ArchivePcs
  <2>8. RangeIsWhole(d, job'[p])
    <3>1. ASSUME NEW w \in Plan, NEW i \in Within(w)
          PROVE  \E v \in OpenWindows(d) : Holds(v, i)
      BY <2>2, <2>3 DEF OpenWindows
    <3> QED BY <1>1, <2>2, <3>1 DEF RangeIsWhole
  <2>9. ArchiveIsWhole(d, job'[p])
    BY <1>1, <2>2, <2>3 DEF ArchiveIsWhole
  <2> QED BY <2>1, <2>6, <2>7, <2>8, <2>9 DEF Acquired
<1> QED BY <1>2, <1>3

LEMMA FailsAcquired ==
  ASSUME Shapes, NEW p \in Procs, Goes(p, "idle") \/ Goes(p, "cleanup"), job[p].pc # "halves",
         db'[p] = db[p], Acquired(db[p], job[p])
  PROVE  Acquired(db'[p], job'[p])
<1>1. job'[p].pc \in {"idle", "cleanup"}
  BY GoesIs
<1> QED BY <1>1, StopsAcquired

(* Windows of a depth, a token and a beginning come in an order, and one   *)
(* of the pending ones is the first.                                       *)
LEMMA FirstWindow ==
  ASSUME NEW S, IsFiniteSet(S), S # {}, \A w \in S : IsWindow(w)
  PROVE  \E w \in S : \A v \in S : Before(w, v)
<1>0. \A w \in S : w.depth \in Int /\ w.token \in Int /\ w.from \in Int
  BY WindowBounds DEF IsWindow
<1> DEFINE depths == {w.depth : w \in S}
<1>1. PICK a \in S : \A v \in S : a.depth <= v.depth
  <2> DEFINE f == [w \in S |-> w.depth]
  <2>1. f \in Surjection(S, depths)
    BY DEF Surjection
  <2>2. IsFiniteSet(depths)
    <3> HIDE DEF f, depths
    <3> QED BY <2>1, FS_Surjection
  <2>3. depths \in SUBSET Int /\ depths # {}
    BY <1>0
  <2>4. PICK x \in depths : \A y \in depths : x <= y
    <3> HIDE DEF depths
    <3> QED BY <2>2, <2>3, Least
  <2> QED BY <2>4
<1> DEFINE A == {w \in S : w.depth = a.depth}
           tokens == {w.token : w \in A}
<1>2. IsFiniteSet(A) /\ a \in A
  <2>1. A \in SUBSET S /\ a \in A
    OBVIOUS
  <2> HIDE DEF A
  <2> QED BY <2>1, FS_Subset
<1>3. PICK b \in A : \A v \in A : b.token <= v.token
  <2> DEFINE f == [w \in A |-> w.token]
  <2>1. f \in Surjection(A, tokens)
    BY DEF Surjection
  <2>2. IsFiniteSet(tokens)
    <3> HIDE DEF f, tokens, A
    <3> QED BY <1>2, <2>1, FS_Surjection
  <2>3. tokens \in SUBSET Int /\ tokens # {}
    BY <1>0, <1>2
  <2>4. PICK x \in tokens : \A y \in tokens : x <= y
    <3> HIDE DEF tokens
    <3> QED BY <2>2, <2>3, Least
  <2> QED BY <2>4
<1> DEFINE B == {w \in A : w.token = b.token}
           froms == {w.from : w \in B}
<1>4. IsFiniteSet(B) /\ b \in B
  <2>1. B \in SUBSET A /\ b \in B
    OBVIOUS
  <2> HIDE DEF A, B
  <2> QED BY <1>2, <2>1, FS_Subset
<1>5. PICK c \in B : \A v \in B : c.from <= v.from
  <2> DEFINE f == [w \in B |-> w.from]
  <2>1. f \in Surjection(B, froms)
    BY DEF Surjection
  <2>2. IsFiniteSet(froms)
    <3> HIDE DEF f, froms, B
    <3> QED BY <1>4, <2>1, FS_Surjection
  <2>3. froms \in SUBSET Int /\ froms # {}
    BY <1>0, <1>4
  <2>4. PICK x \in froms : \A y \in froms : x <= y
    <3> HIDE DEF froms
    <3> QED BY <2>2, <2>3, Least
  <2> QED BY <2>4
<1>6. c \in S /\ c.depth = a.depth /\ c.token = b.token
  OBVIOUS
<1>7. ASSUME NEW v \in S PROVE Before(c, v)
  <2>1. c.depth <= v.depth
    BY <1>1, <1>6
  <2>2. v.depth = c.depth => c.token <= v.token
    BY <1>3, <1>6
  <2>3. v.depth = c.depth /\ v.token = c.token => c.from <= v.from
    BY <1>5, <1>6
  <2> HIDE DEF A, B
  <2> QED BY <1>0, <1>6, <2>1, <2>2, <2>3 DEF Before
<1> QED BY <1>6, <1>7

LEMMA NextWindowAcquires ==
  ASSUME Shapes, NEW p \in Procs, NextWindow(p), Acquired(db[p], job[p])
  PROVE  Acquired(db'[p], job'[p])
<1> DEFINE d == db[p]
<1>1. db'[p] = d /\ job[p].pc = "next" /\ d.source = "range" /\ Pending(p) = OpenWindows(d)
  BY DEF NextWindow, Acquired, AtWork, RangePcs, Pending, OpenWindows
<1>2. CASE Goes(p, "publish")
  <2>1. job'[p].pc = "publish"
    BY <1>2, GoesIs
  <2> QED BY <1>1, <2>1 DEF Acquired, AtWork, RangeIsWhole, ArchiveIsWhole, IsReady, RangePcs, ArchivePcs
<1>3. CASE Pending(p) # {}
  <2> DEFINE w == CHOOSE w \in Pending(p) : \A v \in Pending(p) : Before(w, v)
  <2>1. w \in OpenWindows(d)
    <3>1. IsFiniteSet(Pending(p)) /\ \A v \in Pending(p) : IsWindow(v)
      <4>1. Pending(p) \in SUBSET d.windows
        BY DEF Pending
      <4> QED BY <1>1, <4>1, FS_Subset DEF Acquired, SoundData
    <3>2. \E v \in Pending(p) : \A u \in Pending(p) : Before(v, u)
      BY <1>3, <3>1, FirstWindow
    <3> QED BY <1>1, <3>2
  <2>2. job'[p] = At("books", {w}, 0, 0, {})
    BY <1>3 DEF NextWindow, Shapes
  <2> HIDE DEF w
  <2>3. job'[p].pc = "books" /\ job'[p].window = {w}
    BY <2>2 DEF At
  <2> QED BY <1>1, <2>1, <2>3 DEF Acquired, AtWork, RangeIsWhole, ArchiveIsWhole, IsReady, RangePcs, ArchivePcs
<1> QED BY <1>2, <1>3 DEF NextWindow

LEMMA FetchAcquires ==
  ASSUME Shapes, NEW p \in Procs, FetchBooks(p) \/ FetchTrades(p) \/ FetchSeed(p), Acquired(db[p], job[p])
  PROVE  Acquired(db'[p], job'[p])
<1> DEFINE d == db[p]
<1>0. db'[p] = d /\ job[p].pc \in {"books", "trades", "seed"}
  BY DEF FetchBooks, FetchTrades, FetchSeed
<1>1. PICK pc : Pay(p, pc) /\ \/ job[p].pc = "books" /\ pc = "trades"
                              \/ job[p].pc = "seed" /\ pc = "seeded"
                              \/ job[p].pc = "trades" /\ pc = "split"
                              \/ job[p].pc = "trades" /\ pc = "rows" /\ ~IsFull(Window(p))
  BY DEF FetchBooks, FetchTrades, FetchSeed
<1>2. CASE Goes(p, "idle")
  BY <1>0, <1>2, FailsAcquired
<1>3. CASE job'[p].pc = job[p].pc /\ job'[p].window = job[p].window /\ job'[p].temp = job[p].temp
  BY <1>0, <1>3, StaysAcquired
<1>4. CASE job'[p].pc = pc /\ job'[p].window = job[p].window
  <2>1. SoundData(d) /\ IsReady(d, job'[p]) /\ AtWork(d, job'[p]) /\ ArchiveIsWhole(d, job'[p])
    BY <1>1, <1>4 DEF Acquired, AtWork, ArchiveIsWhole, IsReady, RangePcs, ArchivePcs
  <2>2. pc = "rows" => \A w \in job[p].window : ~IsFull(w)
    <3> SUFFICES ASSUME pc = "rows" PROVE \A w \in job[p].window : ~IsFull(w)
      OBVIOUS
    <3>1. PICK w : job[p].window = {w}
      BY <1>1 DEF Acquired, AtWork
    <3>2. Window(p) = w
      BY <3>1 DEF Window
    <3> QED BY <1>1, <3>1, <3>2
  <2>3. RangeIsWhole(d, job'[p])
    BY <1>0, <1>1, <1>4, <2>2 DEF Acquired, RangeIsWhole
  <2> QED BY <1>0, <2>1, <2>3 DEF Acquired
<1> QED BY <1>1, <1>2, <1>3, <1>4, PayIs

(* The tables of a checkpoint after a step that replaced one of them.      *)
LEMMA TableIs ==
  ASSUME Shapes, NEW p \in Procs, NEW x
  PROVE  /\ db' = [db EXCEPT ![p].windows = x] =>
              /\ db'[p].windows = x /\ db'[p].source = db[p].source /\ db'[p].rows = db[p].rows
              /\ db'[p].objects = db[p].objects
         /\ db' = [db EXCEPT ![p].rows = x] =>
              /\ db'[p].rows = x /\ db'[p].source = db[p].source /\ db'[p].windows = db[p].windows
              /\ db'[p].objects = db[p].objects
         /\ db' = [db EXCEPT ![p].seeds = x] =>
              /\ db'[p].source = db[p].source /\ db'[p].windows = db[p].windows
              /\ db'[p].rows = db[p].rows /\ db'[p].objects = db[p].objects
<1>1. db[p] = Data(db[p])
  BY DEF Shapes
<1>2. ASSUME db' = [db EXCEPT ![p].windows = x]
      PROVE  db'[p] = [db[p] EXCEPT !.windows = x]
  BY <1>2 DEF Shapes
<1>3. ASSUME db' = [db EXCEPT ![p].rows = x]
      PROVE  db'[p] = [db[p] EXCEPT !.rows = x]
  BY <1>3 DEF Shapes
<1>4. ASSUME db' = [db EXCEPT ![p].seeds = x]
      PROVE  db'[p] = [db[p] EXCEPT !.seeds = x]
  BY <1>4 DEF Shapes
<1>5. /\ [db[p] EXCEPT !.windows = x] =
           [source |-> db[p].source, windows |-> x, rows |-> db[p].rows, seeds |-> db[p].seeds, objects |-> db[p].objects]
      /\ [db[p] EXCEPT !.rows = x] =
           [source |-> db[p].source, windows |-> db[p].windows, rows |-> x, seeds |-> db[p].seeds, objects |-> db[p].objects]
      /\ [db[p] EXCEPT !.seeds = x] =
           [source |-> db[p].source, windows |-> db[p].windows, rows |-> db[p].rows, seeds |-> x, objects |-> db[p].objects]
  BY <1>1, DataUpdates
<1> QED BY <1>2, <1>3, <1>4, <1>5

(* A window with another status, or other bounds within its own.           *)
LEMMA WindowUpdates ==
  ASSUME NEW w, IsWindow(w), NEW x
  PROVE  /\ [w EXCEPT !.status = x] =
              [token |-> w.token, from |-> w.from, to |-> w.to, root |-> w.root, depth |-> w.depth, status |-> x]
         /\ IsWindow([w EXCEPT !.status = x]) /\ [w EXCEPT !.status = x].status = x
         /\ [w EXCEPT !.status = x].root = w.root
<1>1. [w EXCEPT !.status = x] =
        [[token |-> w.token, from |-> w.from, to |-> w.to, root |-> w.root, depth |-> w.depth, status |-> w.status]
          EXCEPT !.status = x]
  BY DEF IsWindow
<1>2. [w EXCEPT !.status = x] =
        [token |-> w.token, from |-> w.from, to |-> w.to, root |-> w.root, depth |-> w.depth, status |-> x]
  BY <1>1
<1> DEFINE v == [w EXCEPT !.status = x]
<1>3. v.token = w.token /\ v.from = w.from /\ v.to = w.to /\ v.root = w.root /\ v.depth = w.depth /\ v.status = x
  BY <1>2
<1> HIDE DEF v
<1>4. IsWindow(v)
  <2>1. v = [token |-> v.token, from |-> v.from, to |-> v.to, root |-> v.root, depth |-> v.depth, status |-> v.status]
    BY <1>2, <1>3 DEF v
  <2>2. v.root \in Plan /\ v.token = v.root.token /\ v.root.from <= v.from /\ v.to <= v.root.to
    BY <1>3 DEF IsWindow
  <2>3. {v.from, v.to} \subseteq Int /\ v.depth \in Nat
    BY <1>3 DEF IsWindow
  <2> QED BY <2>1, <2>2, <2>3 DEF IsWindow
<1> QED BY <1>2, <1>3, <1>4 DEF v

(* The window a process works on.                                          *)
LEMMA WorkingWindow ==
  ASSUME NEW p \in Procs, Acquired(db[p], job[p]), job[p].pc \in {"split", "rows", "complete"}
  PROVE  /\ job[p].window = {Window(p)} /\ Window(p) \in OpenWindows(db[p]) /\ IsWindow(Window(p))
         /\ db[p].source = "range"
<1>1. PICK w \in OpenWindows(db[p]) : job[p].window = {w}
  BY DEF Acquired, AtWork
<1>2. Window(p) = w
  BY <1>1 DEF Window
<1> QED BY <1>1, <1>2 DEF Acquired, AtWork, SoundData, OpenWindows, RangePcs

(* A window gets another status: of the pending ones only it is left out.  *)
LEMMA SetIs ==
  ASSUME NEW p \in Procs, SoundData(db[p]), NEW w \in OpenWindows(db[p]), NEW x \in {"split", "complete"}, db[p].source = "range"
  PROVE  /\ \A v \in Set(p, w, x) : IsWindow(v)
         /\ IsFiniteSet(Set(p, w, x))
         /\ {v \in Set(p, w, x) : v.status = "pending"} = OpenWindows(db[p]) \ {w}
<1> DEFINE u == [w EXCEPT !.status = x]
           ws == db[p].windows \ {w}
<1>1. IsWindow(w) /\ \A v \in db[p].windows : IsWindow(v)
  BY DEF SoundData, OpenWindows
<1>2. IsWindow(u) /\ u.status = x
  BY <1>1, WindowUpdates
<1>3. Set(p, w, x) = ws \cup {u}
  BY DEF Set
<1> HIDE DEF u
<1>4. IsFiniteSet(ws)
  <2>1. ws \in SUBSET db[p].windows
    OBVIOUS
  <2> QED BY <2>1, FS_Subset DEF SoundData
<1>5. IsFiniteSet(ws \cup {u})
  BY <1>4, FS_AddElement
<1>6. {v \in ws \cup {u} : v.status = "pending"} = OpenWindows(db[p]) \ {w}
  BY <1>2 DEF OpenWindows
<1> QED BY <1>1, <1>2, <1>3, <1>5, <1>6

LEMMA MarkSplitAcquires ==
  ASSUME Shapes, NEW p \in Procs, MarkSplit(p), Acquired(db[p], job[p])
  PROVE  Acquired(db'[p], job'[p])
<1> DEFINE d == db[p]
           w == Window(p)
<1>0. job[p].pc = "split" /\ job[p].window = {w} /\ w \in OpenWindows(d) /\ IsWindow(w) /\ d.source = "range"
  BY WorkingWindow DEF MarkSplit
<1>1. CASE Goes(p, "idle") /\ db' = db
  BY <1>0, <1>1, FailsAcquired
<1>2. CASE /\ db' = [db EXCEPT ![p].windows = Set(p, w, "split")] /\ ~(w.to - w.from <= 1)
           /\ job' = [job EXCEPT ![p].pc = "halves"]
  <2>1. /\ db'[p].windows = Set(p, w, "split") /\ db'[p].source = d.source /\ db'[p].rows = d.rows
        /\ db'[p].objects = d.objects
    BY <1>2, TableIs
  <2>2. job'[p].pc = "halves" /\ job'[p].window = {w}
    BY <1>0, <1>2, PcIs
  <2>3. /\ \A v \in db'[p].windows : IsWindow(v)
        /\ IsFiniteSet(db'[p].windows)
        /\ OpenWindows(db'[p]) = OpenWindows(d) \ {w}
    BY <1>0, <2>1, SetIs DEF Acquired, OpenWindows
  <2>4. w.status = "pending" /\ w.from < w.to
    BY <1>0, <1>2 DEF OpenWindows, IsWindow
  <2> HIDE DEF w
  <2>5. SoundData(db'[p])
    BY <2>1, <2>3 DEF Acquired, SoundData
  <2>6. AtWork(db'[p], job'[p]) /\ ArchiveIsWhole(db'[p], job'[p]) /\ IsReady(db'[p], job'[p])
    BY <1>0, <2>1, <2>2, <2>4 DEF AtWork, ArchiveIsWhole, IsReady, RangePcs, ArchivePcs
  <2>7. RangeIsWhole(db'[p], job'[p])
    <3>1. ASSUME NEW v \in Plan, NEW i \in Within(v)
          PROVE  (\E u \in OpenWindows(db'[p]) : Holds(u, i)) \/ Holds(w, i) \/ IsStored(d.rows, i)
      BY <1>0, <2>3 DEF Acquired, RangeIsWhole
    <3> QED BY <2>1, <2>2, <3>1 DEF RangeIsWhole
  <2> QED BY <2>5, <2>6, <2>7 DEF Acquired
<1> QED BY <1>0, <1>1, <1>2 DEF MarkSplit, Fails

(* The halves of a window are windows of its root, and hold what it held.  *)
LEMMA HalvesAre ==
  ASSUME NEW w, IsWindow(w), w.from < w.to, w.status = "pending"
  PROVE  /\ IsFiniteSet(Halves(w))
         /\ \A v \in Halves(w) : IsWindow(v) /\ v.status = "pending"
         /\ \A i \in Evidence : Holds(w, i) => \E v \in Halves(w) : Holds(v, i)
<1> DEFINE mid == (w.from + w.to) \div 2
           Half(from, to) == [token |-> w.token, from |-> from, to |-> to, root |-> w.root, depth |-> w.depth + 1,
                              status |-> "pending"]
           u == Half(w.from, mid)
           v == Half(mid + 1, w.to)
<1>1. Halves(w) = {u, v}
  BY DEF Halves
<1>2. w.from \in Int /\ w.to \in Int /\ w.depth \in Nat
  BY DEF IsWindow
<1>3. mid \in Int /\ w.from <= mid /\ mid < w.to
  BY <1>2
<1> HIDE DEF mid
<1>7. /\ u.token = w.token /\ u.from = w.from /\ u.to = mid /\ u.root = w.root /\ u.depth = w.depth + 1 /\ u.status = "pending"
      /\ v.token = w.token /\ v.from = mid + 1 /\ v.to = w.to /\ v.root = w.root /\ v.depth = w.depth + 1 /\ v.status = "pending"
      /\ u = [token |-> u.token, from |-> u.from, to |-> u.to, root |-> u.root, depth |-> u.depth, status |-> u.status]
      /\ v = [token |-> v.token, from |-> v.from, to |-> v.to, root |-> v.root, depth |-> v.depth, status |-> v.status]
  OBVIOUS
<1> HIDE DEF u, v
<1>8. /\ w.root \in Plan /\ w.token = w.root.token /\ w.root.from <= w.from /\ w.to <= w.root.to
      /\ w.root.from \in Int /\ w.root.to \in Int
  BY WindowBounds DEF IsWindow
<1>9. IsWindow(u) /\ IsWindow(v)
  <2>1. w.root.from <= mid + 1 /\ mid <= w.root.to /\ w.depth + 1 \in Nat /\ mid + 1 \in Int
    BY <1>2, <1>3, <1>8
  <2> QED BY <1>2, <1>3, <1>7, <1>8, <2>1 DEF IsWindow
<1>10. ASSUME NEW i \in Evidence, Holds(w, i)
       PROVE  Holds(u, i) \/ Holds(v, i)
  <2>1. i.at \in Int
    BY EvidenceAssumption
  <2>2. i.at <= mid \/ mid + 1 <= i.at
    BY <1>3, <2>1
  <2> QED BY <1>7, <1>10, <2>2 DEF Holds
<1>11. IsFiniteSet({u, v})
  <2>1. IsFiniteSet({u}) /\ {u, v} = {u} \cup {v}
    BY FS_Singleton
  <2> QED BY <2>1, FS_AddElement
<1> QED BY <1>1, <1>7, <1>9, <1>10, <1>11

LEMMA HalvesAcquire ==
  ASSUME Shapes, NEW p \in Procs, InsertHalves(p), Acquired(db[p], job[p])
  PROVE  Acquired(db'[p], job'[p])
<1> DEFINE d == db[p]
<1>1. PICK w : IsWindow(w) /\ w.status = "pending" /\ w.from < w.to /\ job[p].window = {w}
  BY DEF InsertHalves, Acquired, AtWork
<1>2. Window(p) = w /\ d.source = "range" /\ job[p].pc = "halves"
  BY <1>1 DEF Window, InsertHalves, Acquired, AtWork, RangePcs
<1>3. /\ db'[p].windows = d.windows \cup Halves(w) /\ db'[p].source = d.source /\ db'[p].rows = d.rows
      /\ db'[p].objects = d.objects
  <2>1. db' = [db EXCEPT ![p].windows = db[p].windows \cup Halves(w)]
    BY <1>2 DEF InsertHalves
  <2> QED BY <2>1, TableIs
<1>4. job'[p].pc = "next"
  BY GoesIs DEF InsertHalves
<1>5. /\ IsFiniteSet(Halves(w))
      /\ \A v \in Halves(w) : IsWindow(v) /\ v.status = "pending"
      /\ \A i \in Evidence : Holds(w, i) => \E v \in Halves(w) : Holds(v, i)
  BY <1>1, HalvesAre
<1>6. IsFiniteSet(db'[p].windows)
  <2>1. IsFiniteSet(d.windows)
    BY <1>2 DEF Acquired, SoundData
  <2> QED BY <1>3, <1>5, <2>1, FS_Union
<1>7. SoundData(db'[p])
  BY <1>3, <1>5, <1>6 DEF Acquired, SoundData
<1>8. AtWork(db'[p], job'[p]) /\ ArchiveIsWhole(db'[p], job'[p]) /\ IsReady(db'[p], job'[p])
  BY <1>2, <1>3, <1>4 DEF AtWork, ArchiveIsWhole, IsReady, RangePcs, ArchivePcs
<1>9. ASSUME NEW v \in Plan, NEW i \in Within(v)
      PROVE  (\E u \in OpenWindows(db'[p]) : Holds(u, i)) \/ IsStored(d.rows, i)
  <2>1. (\E u \in OpenWindows(d) : Holds(u, i)) \/ Holds(w, i) \/ IsStored(d.rows, i)
    BY <1>1, <1>2 DEF Acquired, RangeIsWhole
  <2>2. i \in Evidence
    BY DEF Within
  <2> QED BY <1>3, <1>5, <2>1, <2>2 DEF OpenWindows
<1>10. RangeIsWhole(db'[p], job'[p])
  BY <1>3, <1>4, <1>9 DEF RangeIsWhole
<1> QED BY <1>7, <1>8, <1>10 DEF Acquired

LEMMA RowsAcquire ==
  ASSUME Shapes, NEW p \in Procs, InsertRows(p), Acquired(db[p], job[p])
  PROVE  Acquired(db'[p], job'[p])
<1> DEFINE d == db[p]
           w == Window(p)
<1>0. job[p].pc = "rows" /\ job[p].window = {w} /\ w \in OpenWindows(d) /\ IsWindow(w) /\ d.source = "range"
  BY WorkingWindow DEF InsertRows
<1>1. PICK some \in {Answers(w), Answer(w, "book")} :
        /\ db' = [db EXCEPT ![p].rows = @ \cup {RangeRow(w, i) : i \in some}]
        /\ job' = [job EXCEPT ![p].pc = IF some = Answers(w) THEN "complete" ELSE "rows"]
  BY DEF InsertRows
<1> HIDE DEF w
<1> DEFINE new == {RangeRow(w, i) : i \in some}
           pc  == IF some = Answers(w) THEN "complete" ELSE "rows"
<1>2. /\ db'[p].rows = d.rows \cup new /\ db'[p].source = d.source /\ db'[p].windows = d.windows
      /\ db'[p].objects = d.objects
  <2>1. db' = [db EXCEPT ![p].rows = db[p].rows \cup new]
    BY <1>1
  <2> HIDE DEF new
  <2> QED BY <2>1, TableIs
<1>3. job'[p].pc = pc /\ job'[p].window = {w}
  <2>1. job' = [job EXCEPT ![p].pc = pc]
    BY <1>1
  <2> HIDE DEF pc
  <2> QED BY <1>0, <2>1, PcIs
<1>4. some \subseteq Within(w)
  BY DEF Answers, Answer
<1>5. ASSUME NEW i \in some
      PROVE  LET r == RangeRow(w, i) IN
               /\ r \in new /\ r.id = i.id /\ r.token = i.token /\ r.kind = i.kind
               /\ r.window \in Plan /\ r.window.from <= r.at /\ r.at <= r.window.to
  <2> DEFINE r == RangeRow(w, i)
  <2>1. r \in new /\ r.id = i.id /\ r.token = i.token /\ r.kind = i.kind /\ r.at = i.at /\ r.window = w.root
    BY DEF RangeRow
  <2>2. w.root \in Plan /\ w.root.from <= w.from /\ w.to <= w.root.to /\ w.from \in Int /\ w.to \in Int
    BY <1>0 DEF IsWindow
  <2>3. w.root.from \in Int /\ w.root.to \in Int
    BY <2>2, WindowBounds
  <2>4. i.at \in Int /\ w.from <= i.at /\ i.at <= w.to
    BY <1>4, EvidenceAssumption DEF Within
  <2> HIDE DEF r
  <2>5. r.window.from <= r.at /\ r.at <= r.window.to
    BY <2>1, <2>2, <2>3, <2>4
  <2> QED BY <2>1, <2>2, <2>5 DEF r
<1>6. \A r \in new : r.window \in Plan /\ r.window.from <= r.at /\ r.at <= r.window.to
  BY <1>5
<1>7. \A i \in some : \E r \in new : r.id = i.id /\ r.token = i.token /\ r.kind = i.kind
  BY <1>5
<1> HIDE DEF new
<1>8. SoundData(db'[p]) /\ OpenWindows(db'[p]) = OpenWindows(d)
  BY <1>2, <1>6 DEF Acquired, SoundData, OpenWindows
<1>9. AtWork(db'[p], job'[p]) /\ ArchiveIsWhole(db'[p], job'[p]) /\ IsReady(db'[p], job'[p])
  BY <1>0, <1>2, <1>3, <1>8 DEF AtWork, ArchiveIsWhole, IsReady, RangePcs, ArchivePcs
<1>10. \A v \in Plan : \A i \in Within(v) : (\E u \in OpenWindows(db'[p]) : Holds(u, i)) \/ IsStored(db'[p].rows, i)
  <2>1. \A v \in Plan : \A i \in Within(v) : (\E u \in OpenWindows(d) : Holds(u, i)) \/ IsStored(d.rows, i)
    BY <1>0 DEF Acquired, RangeIsWhole
  <2> QED BY <1>2, <1>8, <2>1 DEF IsStored
<1>11. ~IsFull(w)
  BY <1>0 DEF Acquired, RangeIsWhole
<1>12. pc = "complete" => \A i \in Within(w) : IsStored(db'[p].rows, i)
  <2>1. pc = "complete" => some = Within(w)
    BY <1>11, NotFullIsWhole
  <2> QED BY <1>2, <1>7, <2>1 DEF IsStored
<1>13. RangeIsWhole(db'[p], job'[p])
  <2>1. \A v \in job'[p].window : v = w
    BY <1>3
  <2> HIDE DEF pc
  <2> QED BY <1>3, <1>10, <1>11, <1>12, <2>1 DEF RangeIsWhole
<1> QED BY <1>8, <1>9, <1>13 DEF Acquired

LEMMA CompleteAcquires ==
  ASSUME Shapes, NEW p \in Procs, CompleteWindow(p), Acquired(db[p], job[p])
  PROVE  Acquired(db'[p], job'[p])
<1> DEFINE d == db[p]
           w == Window(p)
<1>0. job[p].pc = "complete" /\ job[p].window = {w} /\ w \in OpenWindows(d) /\ IsWindow(w) /\ d.source = "range"
  BY WorkingWindow DEF CompleteWindow
<1>1. /\ db'[p].windows = Set(p, w, "complete") /\ db'[p].source = d.source /\ db'[p].rows = d.rows
      /\ db'[p].objects = d.objects
  BY TableIs DEF CompleteWindow
<1>2. job'[p].pc = "next"
  BY GoesIs DEF CompleteWindow
<1>3. /\ \A v \in db'[p].windows : IsWindow(v)
      /\ IsFiniteSet(db'[p].windows)
      /\ OpenWindows(db'[p]) = OpenWindows(d) \ {w}
  BY <1>0, <1>1, SetIs DEF Acquired, OpenWindows
<1> HIDE DEF w
<1>4. SoundData(db'[p])
  BY <1>1, <1>3 DEF Acquired, SoundData
<1>5. AtWork(db'[p], job'[p]) /\ ArchiveIsWhole(db'[p], job'[p]) /\ IsReady(db'[p], job'[p])
  BY <1>0, <1>1, <1>2 DEF AtWork, ArchiveIsWhole, IsReady, RangePcs, ArchivePcs
<1>6. ASSUME NEW v \in Plan, NEW i \in Within(v)
      PROVE  (\E u \in OpenWindows(db'[p]) : Holds(u, i)) \/ IsStored(d.rows, i)
  <2>1. (\E u \in OpenWindows(d) : Holds(u, i)) \/ IsStored(d.rows, i)
    BY <1>0 DEF Acquired, RangeIsWhole
  <2>2. Holds(w, i) => i \in Within(w)
    BY DEF Holds, Within
  <2>3. Holds(w, i) => IsStored(d.rows, i)
    BY <1>0, <2>2 DEF Acquired, RangeIsWhole
  <2> QED BY <1>3, <2>1, <2>3
<1>7. RangeIsWhole(db'[p], job'[p])
  BY <1>1, <1>2, <1>6 DEF RangeIsWhole
<1> QED BY <1>4, <1>5, <1>7 DEF Acquired

(* An hour with nothing left to seed or to fetch is followed by another,   *)
(* or by the end of the archive.                                           *)
LEMMA HourAcquires ==
  ASSUME Shapes, NEW p \in Procs, NextHour(p), Acquired(db[p], job[p])
  PROVE  Acquired(db'[p], job'[p])
<1> DEFINE h == Min(Undone(p))
<1>0. db'[p] = db[p] /\ job[p].pc = "hours" /\ db[p].source = "archive"
  BY DEF NextHour, Acquired, AtWork, ArchivePcs
<1>1. /\ job'[p].pc \in {"finish", "seed", "object"}
      /\ job'[p].pc = "finish" => HoursAreDone(db[p])
  <2>1. CASE Goes(p, "finish") /\ Undone(p) = {}
    BY <2>1, GoesIs DEF Undone, HoursAreDone
  <2>2. ASSUME NEW pc \in {"seed", "object"}, NEW t, job' = [job EXCEPT ![p] = At(pc, {}, h, t, {})]
        PROVE  job'[p].pc = pc
    <3> HIDE DEF h
    <3>1. job'[p] = At(pc, {}, h, t, {})
      BY <2>2 DEF Shapes
    <3> QED BY <3>1 DEF At
  <2>3. \/ Goes(p, "finish") /\ Undone(p) = {}
        \/ job' = [job EXCEPT ![p] = At("seed", {}, h, Min(Unseeded(p, h)), {})]
        \/ job' = [job EXCEPT ![p] = At("object", {}, h, 0, {})]
    BY DEF NextHour
  <2> HIDE DEF h
  <2> QED BY <2>1, <2>2, <2>3
<1> QED BY <1>0, <1>1 DEF Acquired, AtWork, RangeIsWhole, ArchiveIsWhole, IsReady, RangePcs, ArchivePcs

LEMMA SeedAcquires ==
  ASSUME Shapes, NEW p \in Procs, StoreSeed(p), Acquired(db[p], job[p])
  PROVE  Acquired(db'[p], job'[p])
<1>0. job[p].pc = "seeded" /\ db[p].source = "archive" /\ job'[p].pc = "hours"
  BY GoesIs DEF StoreSeed, Acquired, AtWork, ArchivePcs
<1>1. /\ db'[p].source = db[p].source /\ db'[p].windows = db[p].windows
      /\ db'[p].rows = db[p].rows /\ db'[p].objects = db[p].objects
  BY TableIs DEF StoreSeed
<1> QED
  BY <1>0, <1>1
  DEF Acquired, SoundData, AtWork, RangeIsWhole, ArchiveIsWhole, IsReady, HoursAreDone, RangePcs, ArchivePcs

(* An object that is there stores all its hour has within the windows.     *)
LEMMA ObjectAcquires ==
  ASSUME Shapes, NEW p \in Procs, FetchObject(p), Acquired(db[p], job[p])
  PROVE  Acquired(db'[p], job'[p])
<1> DEFINE d    == db[p]
           h    == job[p].hour
           rows == UNION {{ArchiveRow(p, w, i, h) : i \in InHour(h) \cap Within(w)} : w \in Plan}
<1>0. job[p].pc = "object" /\ d.source = "archive"
  BY DEF FetchObject, Acquired, AtWork, ArchivePcs
<1>1. CASE Goes(p, "idle") /\ db' = db
  BY <1>0, <1>1, FailsAcquired
<1>2. ASSUME NEW status, NEW some,
             \/ status = "complete" /\ some = rows
             \/ status = "missing" /\ some = {},
             db' = [db EXCEPT ![p] = WithObject(@, [hour |-> h, status |-> status], some)], Goes(p, "hours")
      PROVE  Acquired(db'[p], job'[p])
  <2> DEFINE o == [hour |-> h, status |-> status]
  <2>1. job'[p].pc = "hours"
    BY <1>2, GoesIs
  <2>2. /\ db'[p].source = "archive" /\ db'[p].windows = d.windows /\ db'[p].rows = d.rows \cup some
        /\ db'[p].objects = d.objects \cup {o}
    <3>1. db'[p] = WithObject(d, o, some)
      BY <1>2 DEF Shapes
    <3> HIDE DEF o
    <3> QED BY <1>0, <3>1 DEF WithObject
  <2>3. ASSUME NEW w \in Plan, NEW i \in InHour(h) \cap Within(w)
        PROVE  LET r == ArchiveRow(p, w, i, h) IN
                 /\ r \in rows /\ r.id = i.id /\ r.token = i.token /\ r.kind = i.kind
                 /\ r.window \in Plan /\ r.window.from <= r.at /\ r.at <= r.window.to
    <3> DEFINE r == ArchiveRow(p, w, i, h)
    <3>1. r \in rows
      OBVIOUS
    <3>2. r.id = i.id /\ r.token = i.token /\ r.kind = i.kind /\ r.at = i.at /\ r.window = w
      BY DEF ArchiveRow
    <3> HIDE DEF r, rows
    <3> QED BY <3>1, <3>2 DEF Within, r
  <2>4. \A r \in some : r.window \in Plan /\ r.window.from <= r.at /\ r.at <= r.window.to
    <3>1. \A r \in rows : \E w \in Plan : \E i \in InHour(h) \cap Within(w) : r = ArchiveRow(p, w, i, h)
      OBVIOUS
    <3> HIDE DEF rows
    <3> QED BY <1>2, <2>3, <3>1
  <2>5. ASSUME NEW w \in Plan, NEW i \in Within(w), Hour(i.at) = h, status = "complete"
        PROVE  IsStored(some, i)
    <3>1. i \in InHour(h) \cap Within(w)
      BY <2>5, WithinHours
    <3>2. \E r \in rows : r.id = i.id /\ r.token = i.token /\ r.kind = i.kind
      BY <2>3, <3>1
    <3> HIDE DEF rows
    <3> QED BY <1>2, <2>5, <3>2 DEF IsStored
  <2>6. o.hour = h /\ o.status = status
    OBVIOUS
  <2> HIDE DEF o, rows, h
  <2>7. SoundData(db'[p])
    BY <2>2, <2>4 DEF Acquired, SoundData
  <2>8. AtWork(db'[p], job'[p]) /\ IsReady(db'[p], job'[p]) /\ RangeIsWhole(db'[p], job'[p])
    BY <2>1, <2>2 DEF AtWork, IsReady, RangeIsWhole, RangePcs, ArchivePcs
  <2>9. ASSUME NEW w \in Plan, NEW i \in Within(w), NEW q \in db'[p].objects, q.hour = Hour(i.at)
        PROVE  q.status = "missing" \/ IsStored(db'[p].rows, i)
    <3>1. CASE q \in d.objects
      <4>1. q.status = "missing" \/ IsStored(d.rows, i)
        BY <1>0, <2>9, <3>1 DEF Acquired, ArchiveIsWhole
      <4> QED BY <2>2, <4>1 DEF IsStored
    <3>2. CASE q = o
      <4>1. status = "missing" \/ IsStored(some, i)
        BY <1>2, <2>5, <2>6, <2>9, <3>2
      <4> QED BY <2>2, <2>6, <3>2, <4>1 DEF IsStored
    <3> QED BY <2>2, <3>1, <3>2
  <2>10. HoursAreDone(db'[p]) \/ \A w \in db'[p].windows : w.status = "pending"
    <3>1. HoursAreDone(d) \/ \A w \in d.windows : w.status = "pending"
      BY <1>0 DEF Acquired, ArchiveIsWhole
    <3>2. HoursAreDone(d) => HoursAreDone(db'[p])
      BY <2>2 DEF HoursAreDone
    <3> QED BY <2>2, <3>1, <3>2
  <2>11. ArchiveIsWhole(db'[p], job'[p])
    BY <2>1, <2>2, <2>9, <2>10 DEF ArchiveIsWhole
  <2> QED BY <2>7, <2>8, <2>11 DEF Acquired
<1>3. \/ db' = [db EXCEPT ![p] = WithObject(@, [hour |-> h, status |-> "complete"], rows)] /\ Goes(p, "hours")
      \/ db' = [db EXCEPT ![p] = WithObject(@, [hour |-> h, status |-> "missing"], {})] /\ Goes(p, "hours")
      \/ Goes(p, "idle") /\ db' = db
  BY DEF FetchObject, Fails
<1> HIDE DEF rows, h
<1> QED BY <1>1, <1>2, <1>3

LEMMA FinishAcquires ==
  ASSUME Shapes, NEW p \in Procs, FinishWindows(p), Acquired(db[p], job[p])
  PROVE  Acquired(db'[p], job'[p])
<1> DEFINE d  == db[p]
           ws == {[w EXCEPT !.status = "complete"] : w \in d.windows}
<1>0. job[p].pc = "finish" /\ d.source = "archive" /\ job'[p].pc = "publish"
  BY GoesIs DEF FinishWindows, Acquired, AtWork, ArchivePcs
<1>1. /\ db'[p].windows = ws /\ db'[p].source = d.source /\ db'[p].rows = d.rows
      /\ db'[p].objects = d.objects
  <2>1. db' = [db EXCEPT ![p].windows = ws]
    BY DEF FinishWindows
  <2> HIDE DEF ws
  <2> QED BY <2>1, TableIs
<1>2. \A w \in ws : IsWindow(w)
  <2>1. ASSUME NEW w \in d.windows
        PROVE  IsWindow([w EXCEPT !.status = "complete"])
    <3>1. IsWindow(w)
      BY DEF Acquired, SoundData
    <3> QED BY <3>1, WindowUpdates
  <2> QED BY <2>1
<1>3. HoursAreDone(d) /\ HoursAreDone(db'[p])
  BY <1>0, <1>1 DEF Acquired, ArchiveIsWhole, HoursAreDone
<1> HIDE DEF ws
<1>4. SoundData(db'[p])
  BY <1>0, <1>1, <1>2 DEF Acquired, SoundData
<1>5. AtWork(db'[p], job'[p]) /\ IsReady(db'[p], job'[p]) /\ RangeIsWhole(db'[p], job'[p])
  BY <1>0, <1>1 DEF AtWork, IsReady, RangeIsWhole, RangePcs, ArchivePcs
<1>6. ArchiveIsWhole(db'[p], job'[p])
  BY <1>0, <1>1, <1>3 DEF Acquired, ArchiveIsWhole
<1> QED BY <1>4, <1>5, <1>6 DEF Acquired

----------------------------------------------------------------------------
(* What is published *)

(* A checkpoint of which all windows are done has all there is for the     *)
(* plan, save the hours whose object was missing.                          *)
LEMMA TablesAreWhole ==
  ASSUME NEW p \in Procs, Write(p), Acquired(db[p], job[p])
  PROVE  IsWhole(Tables(p))
<1> DEFINE d == db[p]
<1>0. Tables(p).rows = d.rows /\ Tables(p).missing = Missing(p)
  BY DEF Tables
<1>1. job[p].pc = "write" /\ Covered(p) /\ \A w \in d.windows : w.status \in {"complete", "split"}
  BY DEF Write, Acquired, IsReady
<1>2. OpenWindows(d) = {}
  BY <1>1 DEF OpenWindows
<1>3. ASSUME NEW w \in Plan, NEW i \in Within(w)
      PROVE  Hour(i.at) \in Missing(p) \/ IsStored(d.rows, i)
  <2>1. CASE d.source = "range"
    BY <1>1, <1>2, <2>1 DEF Acquired, RangeIsWhole
  <2>2. CASE d.source = "archive"
    <3>1. HoursAreDone(d)
      <4>1. \E v \in d.windows : v.status # "pending"
        BY <1>1 DEF Covered
      <4> QED BY <2>2, <4>1 DEF Acquired, ArchiveIsWhole
    <3>2. PICK o \in d.objects : o.hour = Hour(i.at)
      BY <3>1, WithinHours DEF HoursAreDone
    <3>3. o.status = "missing" \/ IsStored(d.rows, i)
      BY <2>2, <3>2 DEF Acquired, ArchiveIsWhole
    <3>4. o.status = "missing" => Hour(i.at) \in Missing(p)
      BY <3>2 DEF Missing
    <3> QED BY <3>3, <3>4
  <2> QED BY <1>1, <2>1, <2>2 DEF Acquired, AtWork, SoundData
<1> QED BY <1>0, <1>3 DEF IsWhole

LEMMA PublicationAcquires ==
  ASSUME Shapes, NEW p \in Procs, TakeLock(p) \/ Write(p) \/ Reject(p) \/ Install(p) \/ Unlock(p),
         Acquired(db[p], job[p])
  PROVE  Acquired(db'[p], job'[p])
<1> DEFINE d == db[p]
<1>0. db'[p] = d /\ job[p].pc \in {"publish", "write", "install", "cleanup"}
  BY DEF TakeLock, Write, Reject, Install, Unlock
<1>1. CASE Goes(p, "idle") \/ Goes(p, "cleanup")
  BY <1>0, <1>1, FailsAcquired
<1>2. CASE TakeLock(p) /\ Goes(p, "write")
  <2>1. job'[p].pc = "write" /\ job[p].pc = "publish" /\ Finished(p)
    BY <1>2, GoesIs DEF TakeLock, Fails, Goes, At
  <2> QED
    BY <1>0, <2>1 DEF Finished, Acquired, AtWork, RangeIsWhole, ArchiveIsWhole, IsReady, RangePcs, ArchivePcs
<1>3. CASE Write(p)
  <2>1. IsWhole(Tables(p))
    BY <1>3, TablesAreWhole
  <2>2. job'[p] = At("install", {}, 0, 0, {Tables(p)})
    BY <1>3 DEF Write, Shapes
  <2>3. job'[p].pc = "install" /\ job'[p].temp = {Tables(p)}
    BY <2>2 DEF At
  <2> QED
    BY <1>0, <2>1, <2>3 DEF Acquired, AtWork, RangeIsWhole, ArchiveIsWhole, IsReady, RangePcs, ArchivePcs
<1> QED BY <1>1, <1>2, <1>3 DEF TakeLock, Reject, Install, Unlock, Fails, AfterFailure

LEMMA StepAcquires ==
  ASSUME Shapes, NEW p \in Procs, Begins(p) \/ Step(p) \/ Crash(p), "torn" \notin Faults, Acquired(db[p], job[p])
  PROVE  Acquired(db'[p], job'[p])
<1>1. CASE Begins(p)
  BY <1>1, StartAcquires DEF Begins
<1>2. CASE Crash(p)
  <2>1. Goes(p, "idle") /\ job[p].pc # "halves" /\ db' = db
    BY <1>2 DEF Crash
  <2> QED BY <2>1, FailsAcquired
<1>3. CASE NextWindow(p) \/ FetchBooks(p) \/ FetchTrades(p) \/ FetchSeed(p)
  BY <1>3, NextWindowAcquires, FetchAcquires
<1>4. CASE MarkSplit(p) \/ InsertHalves(p) \/ InsertRows(p) \/ CompleteWindow(p)
  BY <1>4, MarkSplitAcquires, HalvesAcquire, RowsAcquire, CompleteAcquires
<1>5. CASE NextHour(p) \/ StoreSeed(p) \/ FetchObject(p) \/ FinishWindows(p)
  BY <1>5, HourAcquires, SeedAcquires, ObjectAcquires, FinishAcquires
<1>6. CASE TakeLock(p) \/ Write(p) \/ Reject(p) \/ Install(p) \/ Unlock(p)
  BY <1>6, PublicationAcquires
<1> QED BY <1>1, <1>2, <1>3, <1>4, <1>5, <1>6 DEF Step

(* The release is made of tables that are whole.                           *)
LEMMA ReleaseStep ==
  ASSUME Shapes, NEW p \in Procs, Begins(p) \/ Step(p) \/ Crash(p), Acquired(db[p], job[p]),
         release.exists => IsWhole(release)
  PROVE  release'.exists => IsWhole(release')
<1>1. CASE Install(p)
  <2>1. PICK t : job[p].temp = {t} /\ IsWhole(t)
    BY <1>1 DEF Install, Acquired, IsReady
  <2>2. release' \in {t, release}
    BY <1>1, <2>1 DEF Install
  <2> QED BY <2>1, <2>2
<1>2. CASE release' = release
  BY <1>2
<1>3. ASSUME ~Install(p) PROVE release' = release
  <2>1. CASE Begins(p) \/ Crash(p)
    BY <2>1 DEF Begins, Start, Crash
  <2>2. CASE NextWindow(p) \/ FetchBooks(p) \/ FetchTrades(p) \/ MarkSplit(p) \/ InsertHalves(p) \/ InsertRows(p) \/ CompleteWindow(p)
    BY <2>2 DEF NextWindow, FetchBooks, FetchTrades, MarkSplit, InsertHalves, InsertRows, CompleteWindow
  <2>3. CASE NextHour(p) \/ FetchSeed(p) \/ StoreSeed(p) \/ FetchObject(p) \/ FinishWindows(p)
    BY <2>3 DEF NextHour, FetchSeed, StoreSeed, FetchObject, FinishWindows
  <2>4. CASE TakeLock(p) \/ Write(p) \/ Reject(p) \/ Unlock(p)
    BY <2>4 DEF TakeLock, Write, Reject, Unlock
  <2> QED BY <1>3, <2>1, <2>2, <2>3, <2>4 DEF Step
<1> QED BY <1>1, <1>2, <1>3

Acquisitions ==
  /\ \A p \in Procs : Acquired(db[p], job[p])
  /\ release.exists => IsWhole(release)
  /\ late \subseteq LateHours

LEMMA AcquisitionsStep ==
  ASSUME "torn" \notin Faults
  PROVE  Shapes /\ Books /\ Acquisitions /\ [Next]_vars => Acquisitions'
<1> SUFFICES ASSUME Shapes, Books, Acquisitions, [Next]_vars PROVE Acquisitions'
  OBVIOUS
<1>1. ASSUME NEW p \in Procs, Begins(p) \/ Step(p) \/ Crash(p)
      PROVE  Acquisitions'
  <2>1. Acquired(db'[p], job'[p])
    BY <1>1, StepAcquires DEF Acquisitions
  <2>2. release'.exists => IsWhole(release')
    BY <1>1, ReleaseStep DEF Acquisitions
  <2>3. ASSUME NEW q \in Procs \ {p}
        PROVE  job'[q] = job[q] /\ db'[q] = db[q]
    <3>1. Stores(p)
      BY <1>1, StepStores
    <3>2. \E pcs : MovesTo(p, pcs)
      BY <1>1, StepMoves
    <3> QED BY <3>1, <3>2 DEF Stores, MovesTo
  <2>4. late' = late
    <3>1. CASE Begins(p) \/ Crash(p)
      BY <3>1 DEF Begins, Start, Crash, outside
    <3>2. CASE NextWindow(p) \/ FetchBooks(p) \/ FetchTrades(p) \/ MarkSplit(p) \/ InsertHalves(p) \/ InsertRows(p) \/ CompleteWindow(p)
      BY <3>2 DEF NextWindow, FetchBooks, FetchTrades, MarkSplit, InsertHalves, InsertRows, CompleteWindow, outside
    <3>3. CASE NextHour(p) \/ FetchSeed(p) \/ StoreSeed(p) \/ FetchObject(p) \/ FinishWindows(p)
      BY <3>3 DEF NextHour, FetchSeed, StoreSeed, FetchObject, FinishWindows, outside
    <3>4. CASE TakeLock(p) \/ Write(p) \/ Reject(p) \/ Install(p) \/ Unlock(p)
      BY <3>4 DEF TakeLock, Write, Reject, Install, Unlock, outside
    <3> QED BY <1>1, <3>1, <3>2, <3>3, <3>4 DEF Step
  <2>5. ASSUME NEW q \in Procs
        PROVE  Acquired(db'[q], job'[q])
    <3>1. CASE q = p
      BY <2>1, <3>1
    <3>2. CASE q # p
      BY <2>3, <3>2 DEF Acquisitions
    <3> QED BY <3>1, <3>2
  <2> QED BY <2>2, <2>4, <2>5 DEF Acquisitions
<1>2. CASE Elsewhere \/ UNCHANGED vars \/ \E h \in LateHours : ObjectAppears(h)
  <2>1. UNCHANGED <<job, db, release>> /\ late' \subseteq late
    BY <1>2 DEF Elsewhere, ObjectAppears, vars, outside
  <2> QED BY <2>1 DEF Acquisitions
<1> QED BY <1>1, <1>2 DEF Next, Begins

LEMMA AcquisitionsInit == Init => Acquisitions
BY InitAcquired DEF Init, Acquisitions, NoRelease

LEMMA AcquisitionsHold ==
  Accounts /\ Books /\ Acquisitions /\ OnePublisher => ArchiveIsTrue
<1> SUFFICES ASSUME Accounts, Books, Acquisitions, OnePublisher PROVE ArchiveIsTrue
  OBVIOUS
<1>1. TypeOK
  <2>1. ASSUME NEW p \in Procs
        PROVE  /\ db[p].source \in {"none", "range", "archive"} /\ \A w \in db[p].windows : w.root \in Plan
               /\ \A r \in db[p].rows : r.window \in Plan /\ r.window.from <= r.at /\ r.at <= r.window.to
    BY DEF Acquisitions, Acquired, SoundData, IsWindow
  <2>2. used \in 0..Budget /\ late \subseteq LateHours
    BY ExecutionAssumption DEF Accounts, Acquisitions
  <2> QED BY <2>1, <2>2 DEF TypeOK
<1>2. BooksAreTrue
  BY DEF Books, RowsAreTrue, BooksAreTrue
<1>3. ReleaseIsWhole
  BY DEF Acquisitions, IsWhole, IsStored, ReleaseIsWhole
<1> QED BY <1>1, <1>2, <1>3, PlanIsOnePartition DEF ArchiveIsTrue

(* A release has all the evidence there is for its plan, save the hours it *)
(* declares missing: a window that is split is followed by its halves, one *)
(* that is stored was answered in full, and an hour whose object is there  *)
(* is stored with it, for any legs, evidence, limits, failures and         *)
(* crashes, save one between the mark of a split and its halves.           *)
THEOREM ArchivesAreTrue ==
  ASSUME "torn" \notin Faults
  PROVE  Spec => []ArchiveIsTrue
<1>1. Init => Accounts
  BY ExecutionAssumption DEF Init, Accounts
<1> QED
  BY <1>1, AccountsStep, BooksInit, BooksStep, LockStep, AcquisitionsInit, AcquisitionsStep, AcquisitionsHold,
     PTL DEF Spec
=============================================================================
