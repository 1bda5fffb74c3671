---------------------------- MODULE StageExecution ----------------------------
(***************************************************************************)
(* The stage-execution release: a plan of windows around the decisions of  *)
(* a report, the paid evidence acquired for them, by ranges or from the    *)
(* hourly archive, and its publication in an immutable directory.          *)
(*                                                                         *)
(* Each process has a checkpoint of its own; processes share the ledger of *)
(* the month and the release directory.  The evidence is historical and    *)
(* does not change, but an object of the archive may appear late.  A book  *)
(* is the set of the changes that led to it; instants are numbers, and an  *)
(* hour is HourLength of them.                                             *)
(***************************************************************************)
EXTENDS Integers, FiniteSets, FiniteSetsExt

CONSTANTS
  Procs,         \* processes, each with its checkpoint
  Legs,          \* records of a token and a decision instant
  Padding,       \* window_seconds
  Evidence,      \* books and trades: records of kind, token, id and instant
  HourLength,
  LateHours,     \* hours whose object appears late, or never
  Limit,         \* PMXT_MAX_RANGE_SNAPSHOTS
  Budget,        \* request_budget
  Retries,       \* bound: four in the code
  MaxElsewhere,  \* bound: reservations of other jobs
  MaxCrashes,
  Faults         \* subset of {"transient", "refused", "torn"}

ASSUME ExecutionAssumption ==
  /\ {Padding, HourLength, Limit} \subseteq Nat \ {0}
  /\ {Budget, Retries, MaxElsewhere, MaxCrashes} \subseteq Nat
  /\ Faults \subseteq {"transient", "refused", "torn"}
  /\ \A i \in Evidence : i.at \in Nat
  /\ \A i, j \in Evidence : i.kind = "book" /\ j.kind = "book" /\ i.token = j.token /\ i.at = j.at => i = j

ASSUME LegsAssumption == IsFiniteSet(Legs) /\ \A l \in Legs : l.token \in Nat /\ l.at \in Nat

ASSUME EvidenceAssumption ==
  IsFiniteSet(Evidence) /\ Evidence \subseteq [kind : {"book", "trade"}, token : Nat, id : Nat, at : Nat]

VARIABLES
  used, elsewhere,  \* the ledger of the month, and what other jobs reserved of it
  late,          \* hours whose object is not there yet
  db,            \* checkpoints: source, windows, rows, seeds and objects
  job,           \* what each process is doing
  sent,          \* history: requests the processes have sent
  lock,          \* the publication lock directory
  release,       \* the release directory
  crashes

outside == <<late, elsewhere>>
vars    == <<used, outside, db, job, sent, lock, release, crashes>>

----------------------------------------------------------------------------
(* The plan *)

Tokens == {l.token : l \in Legs}

From(l) == l.at - Padding
Until(l) == l.at + Padding

OfToken(t) == {l \in Legs : l.token = t}

(* Two legs of a token that touch share a window. *)
Apart(l, k) == Until(k) < From(l)

(* Legs in the order of their instants are added to a window until one is  *)
(* apart from all before it.                                               *)
Opens(l) == \A k \in OfToken(l.token) : From(k) < From(l) => Apart(l, k)

Closing(l) ==
  LET rest   == {k \in OfToken(l.token) : From(k) >= From(l)}
      opened == {k \in rest : Opens(k) /\ From(k) > From(l)}
  IN Max({Until(k) : k \in {r \in rest : \A n \in opened : From(r) < From(n)}})

Plan == {[token |-> l.token, from |-> From(l), to |-> Closing(l)] : l \in {k \in Legs : Opens(k)}}

Hour(at) == at \div HourLength

(* The tokens and windows of an hour of the archive. *)
HoursOf(w) == Hour(w.from)..Hour(w.to)

Hours == UNION {HoursOf(w) : w \in Plan}

TokensOf(h) == {w.token : w \in {v \in Plan : h \in HoursOf(v)}}

Within(w) == {i \in Evidence : i.token = w.token /\ w.from <= i.at /\ i.at <= w.to}

(* The book after a change: every change of the token so far. *)
BookAt(t, at, id) ==
  {i.id : i \in {e \in Evidence : e.kind = "book" /\ e.token = t /\ (e.at < at \/ (e.at = at /\ e.id <= id))}}

----------------------------------------------------------------------------
(* States *)

NoWindows == [source |-> "none", windows |-> {}, rows |-> {}, seeds |-> {}, objects |-> {}]
Root(w) == [token |-> w.token, from |-> w.from, to |-> w.to, root |-> w, depth |-> 0, status |-> "pending"]

(* A checkpoint as it is begun: all windows of the plan are to be done.    *)
Checkpoint(source) ==
  [source |-> source, windows |-> {Root(w) : w \in Plan}, rows |-> {}, seeds |-> {}, objects |-> {}]

(* What a process is doing: its next step, the window, or the hour and the *)
(* token, that it is for, its retries and what it has written.             *)
At(pc, window, hour, token, temp) ==
  [pc |-> pc, window |-> window, hour |-> hour, token |-> token, retry |-> 0, temp |-> temp]

Idle == At("idle", {}, 0, 0, {})

NoRelease == [exists |-> FALSE, source |-> "none", rows |-> {}, missing |-> {}]

Init ==
  /\ used = 0 /\ elsewhere = 0 /\ late = LateHours
  /\ db = [p \in Procs |-> NoWindows] /\ job = [p \in Procs |-> Idle] /\ sent = 0
  /\ lock = FALSE /\ release = NoRelease /\ crashes = 0

Begun(p) == db[p].source # "none"
Goes(p, pc) == job' = [job EXCEPT ![p] = At(pc, {}, 0, 0, {})]

(* The minimum of requests a plan needs has to be within its budget. *)
Minimum(source) ==
  IF source = "range" THEN 2 * Cardinality(Plan) ELSE MapThenSumSet(LAMBDA h : Cardinality(TokensOf(h)), Hours)

(* Nothing is paid for when the release exists or is being published; a    *)
(* checkpoint belongs to one source.                                       *)
Start(p, source) ==
  /\ job[p].pc = "idle" /\ ~release.exists /\ ~lock
  /\ Minimum(source) <= Budget /\ db[p].source \in {"none", source}
  /\ db' = IF Begun(p) THEN db ELSE [db EXCEPT ![p] = Checkpoint(source)]
  /\ Goes(p, IF source = "range" THEN "next" ELSE "hours")
  /\ UNCHANGED <<used, outside, sent, lock, release, crashes>>

Fails(p) == Goes(p, "idle")

----------------------------------------------------------------------------
(* Paid requests *)

HasCredit == used < Budget

FirstOnly(p) == IF job[p].retry = 0 THEN 1 ELSE 0

(* A retry costs what a first attempt costs. *)
Cost(p) == 1

(* A process goes on with its window or its seed. *)
GoesOn(p, pc) == At(pc, job[p].window, job[p].hour, job[p].token, {})

(* Reserved in the ledger, then sent; a transient failure is reserved and  *)
(* sent again.                                                             *)
Pay(p, next) ==
  IF ~HasCredit THEN Fails(p) /\ UNCHANGED <<used, sent>>
  ELSE /\ used' = used + Cost(p) /\ sent' = sent + 1
       /\ \/ job' = [job EXCEPT ![p] = GoesOn(p, next)]
          \/ /\ "transient" \in Faults
             /\ IF job[p].retry < Retries THEN job' = [job EXCEPT ![p].retry = @ + 1] ELSE Fails(p)
          \/ "refused" \in Faults /\ Fails(p)

Elsewhere ==
  /\ elsewhere < MaxElsewhere /\ used < Budget
  /\ elsewhere' = elsewhere + 1 /\ used' = used + 1
  /\ UNCHANGED <<late, db, job, sent, lock, release, crashes>>

----------------------------------------------------------------------------
(* Range source *)

Before(v, w) ==
  \/ v.depth < w.depth
  \/ v.depth = w.depth /\ v.token < w.token
  \/ v.depth = w.depth /\ v.token = w.token /\ v.from <= w.from

Pending(p) == {w \in db[p].windows : w.status = "pending"}

NextWindow(p) ==
  /\ job[p].pc = "next"
  /\ IF Pending(p) = {} THEN Goes(p, "publish")
     ELSE LET first == CHOOSE w \in Pending(p) : \A v \in Pending(p) : Before(w, v)
          IN job' = [job EXCEPT ![p] = At("books", {first}, 0, 0, {})]
  /\ UNCHANGED <<used, outside, db, sent, lock, release, crashes>>

Window(p) == CHOOSE w \in job[p].window : TRUE

(* The first Limit books, or trades, of a window. *)
Answer(w, kind) ==
  LET items == {i \in Within(w) : i.kind = kind}
  IN {i \in items : Cardinality({j \in items : j.at < i.at \/ (j.at = i.at /\ j.id < i.id)}) < Limit}

Answers(w) == Answer(w, "book") \cup Answer(w, "trade")

(* Limit books or Limit trades may have left out others. *)
IsFull(w) == \E kind \in {"book", "trade"} : Cardinality(Answer(w, kind)) = Limit

FetchBooks(p) ==
  /\ job[p].pc = "books"
  /\ Pay(p, "trades")
  /\ UNCHANGED <<outside, db, lock, release, crashes>>

FetchTrades(p) ==
  /\ job[p].pc = "trades"
  /\ Pay(p, IF IsFull(Window(p)) THEN "split" ELSE "rows")
  /\ UNCHANGED <<outside, db, lock, release, crashes>>

Set(p, w, status) == (db[p].windows \ {w}) \cup {[w EXCEPT !.status = status]}

(* The window is marked as split, and its halves follow in statements of   *)
(* their own.                                                              *)
MarkSplit(p) ==
  LET w == Window(p)
  IN /\ job[p].pc = "split"
     /\ IF w.to - w.from <= 1 THEN Fails(p) /\ UNCHANGED db
        ELSE /\ db' = [db EXCEPT ![p].windows = Set(p, w, "split")]
             /\ job' = [job EXCEPT ![p].pc = "halves"]
     /\ UNCHANGED <<used, outside, sent, lock, release, crashes>>

Halves(w) ==
  LET mid == (w.from + w.to) \div 2
      Half(from, to) == [token |-> w.token, from |-> from, to |-> to, root |-> w.root, depth |-> w.depth + 1,
                         status |-> "pending"]
  IN {Half(w.from, mid), Half(mid + 1, w.to)}

InsertHalves(p) ==
  /\ job[p].pc = "halves"
  /\ db' = [db EXCEPT ![p].windows = @ \cup Halves(Window(p))]
  /\ Goes(p, "next")
  /\ UNCHANGED <<used, outside, sent, lock, release, crashes>>

RangeRow(w, i) ==
  [kind |-> i.kind, token |-> i.token, id |-> i.id, at |-> i.at, window |-> w.root,
   book |-> IF i.kind = "book" THEN BookAt(i.token, i.at, i.id) ELSE {}]

(* Rows are inserted one by one, so a crash may leave some of them behind; *)
(* what is there already stays.                                            *)
InsertRows(p) ==
  /\ job[p].pc = "rows"
  /\ \E some \in {Answers(Window(p)), Answer(Window(p), "book")} :
       /\ db' = [db EXCEPT ![p].rows = @ \cup {RangeRow(Window(p), i) : i \in some}]
       /\ job' = [job EXCEPT ![p].pc = IF some = Answers(Window(p)) THEN "complete" ELSE "rows"]
  /\ UNCHANGED <<used, outside, sent, lock, release, crashes>>

CompleteWindow(p) ==
  /\ job[p].pc = "complete"
  /\ db' = [db EXCEPT ![p].windows = Set(p, Window(p), "complete")]
  /\ Goes(p, "next")
  /\ UNCHANGED <<used, outside, sent, lock, release, crashes>>

----------------------------------------------------------------------------
(* Archive source *)

Undone(p) == {h \in Hours : ~\E o \in db[p].objects : o.hour = h}

Unseeded(p, h) == {t \in TokensOf(h) : ~\E s \in db[p].seeds : s.hour = h /\ s.token = t}

(* Hour by hour: what an hour still needs is a seed of each of its tokens, *)
(* then its object.                                                        *)
NextHour(p) ==
  LET h == Min(Undone(p))
  IN /\ job[p].pc = "hours"
     /\ IF Undone(p) = {} THEN Goes(p, "finish")
        ELSE IF Unseeded(p, h) # {}
             THEN job' = [job EXCEPT ![p] = At("seed", {}, h, Min(Unseeded(p, h)), {})]
             ELSE job' = [job EXCEPT ![p] = At("object", {}, h, 0, {})]
     /\ UNCHANGED <<used, outside, db, sent, lock, release, crashes>>

FetchSeed(p) ==
  /\ job[p].pc = "seed"
  /\ Pay(p, "seeded")
  /\ UNCHANGED <<outside, db, lock, release, crashes>>

SeedOfHour(t, h) == {i.id : i \in {e \in Evidence : e.kind = "book" /\ e.token = t /\ e.at < (h + 1) * HourLength}}

(* The book as an hour began. *)
SeedAt(t, h) == {i.id : i \in {e \in Evidence : e.kind = "book" /\ e.token = t /\ e.at < h * HourLength}}

StoreSeed(p) ==
  /\ job[p].pc = "seeded"
  /\ db' = [db EXCEPT ![p].seeds = @ \cup {[hour |-> job[p].hour, token |-> job[p].token,
                                            book |-> SeedAt(job[p].token, job[p].hour)]}]
  /\ Goes(p, "hours")
  /\ UNCHANGED <<used, outside, sent, lock, release, crashes>>

Seed(p, t, h) == (CHOOSE s \in db[p].seeds : s.hour = h /\ s.token = t).book

InHour(h) == {i \in Evidence : Hour(i.at) = h /\ i.token \in TokensOf(h)}

(* A book of the archive: the seed of its hour and the changes since.      *)
Rebuilt(p, i, h) ==
  Seed(p, i.token, h)
    \cup {e.id : e \in {f \in InHour(h) : f.kind = "book" /\ f.token = i.token /\ (f.at < i.at \/ (f.at = i.at /\ f.id <= i.id))}}

ArchiveRow(p, w, i, h) ==
  [kind |-> i.kind, token |-> i.token, id |-> i.id, at |-> i.at, window |-> w,
   book |-> IF i.kind = "book" THEN Rebuilt(p, i, h) ELSE {}]

WithObject(d, object, rows) ==
  [source |-> d.source, windows |-> d.windows, rows |-> d.rows \cup rows, seeds |-> d.seeds,
   objects |-> d.objects \cup {object}]

(* An object is downloaded to a temporary file, checked and processed in   *)
(* one transaction; one that is not there is missing for good.             *)
FetchObject(p) ==
  LET h == job[p].hour
      rows == UNION {{ArchiveRow(p, w, i, h) : i \in InHour(h) \cap Within(w)} : w \in Plan}
  IN /\ job[p].pc = "object"
     /\ \/ /\ h \notin late
           /\ db' = [db EXCEPT ![p] = WithObject(@, [hour |-> h, status |-> "complete"], rows)]
           /\ Goes(p, "hours")
        \/ /\ h \in late
           /\ db' = [db EXCEPT ![p] = WithObject(@, [hour |-> h, status |-> "missing"], {})]
           /\ Goes(p, "hours")
        \/ "refused" \in Faults /\ Fails(p) /\ UNCHANGED db
     /\ UNCHANGED <<used, outside, sent, lock, release, crashes>>

(* When every hour is done, so is every window. *)
FinishWindows(p) ==
  /\ job[p].pc = "finish"
  /\ db' = [db EXCEPT ![p].windows = {[w EXCEPT !.status = "complete"] : w \in @}]
  /\ Goes(p, "publish")
  /\ UNCHANGED <<used, outside, sent, lock, release, crashes>>

ObjectAppears(h) ==
  /\ h \in late /\ late' = late \ {h}
  /\ UNCHANGED <<used, elsewhere, db, job, sent, lock, release, crashes>>

----------------------------------------------------------------------------
(* Publication *)

IsFree == ~release.exists

(* Another process's lock is left alone. *)
LeaveLock == UNCHANGED lock

Finished(p) == \A w \in db[p].windows : w.status \in {"complete", "split"}

(* The lock directory is made, or was there. *)
TakeLock(p) ==
  /\ job[p].pc = "publish"
  /\ IF ~Finished(p) \/ ~IsFree THEN Fails(p) /\ UNCHANGED lock
     ELSE IF lock THEN Fails(p) /\ LeaveLock
     ELSE lock' = TRUE /\ Goes(p, "write")
  /\ UNCHANGED <<used, outside, db, sent, release, crashes>>

KeepsLock == "idle"

AfterFailure == "cleanup"

Missing(p) == {o.hour : o \in {q \in db[p].objects : q.status = "missing"}}

(* Every window of the plan is covered by windows that are done. *)
Covered(p) == \A w \in Plan : \E v \in db[p].windows : v.root = w

Tables(p) == [exists |-> TRUE, source |-> db[p].source, rows |-> db[p].rows, missing |-> Missing(p)]

(* The tables are written to a temporary directory and validated there.    *)
Write(p) ==
  /\ job[p].pc = "write" /\ IsFree /\ Covered(p)
  /\ job' = [job EXCEPT ![p] = At("install", {}, 0, 0, {Tables(p)})]
  /\ UNCHANGED <<used, outside, db, sent, lock, release, crashes>>

Reject(p) ==
  /\ job[p].pc = "write"
  /\ Goes(p, AfterFailure)
  /\ UNCHANGED <<used, outside, db, sent, lock, release, crashes>>

Install(p) ==
  /\ job[p].pc = "install"
  /\ release' = IF IsFree THEN CHOOSE r \in job[p].temp : TRUE ELSE release
  /\ Goes(p, "cleanup")
  /\ UNCHANGED <<used, outside, db, sent, lock, crashes>>

(* However it ended, the lock that was taken is removed. *)
Unlock(p) ==
  /\ job[p].pc = "cleanup"
  /\ lock' = FALSE /\ Goes(p, "idle")
  /\ UNCHANGED <<used, outside, db, sent, release, crashes>>

Crash(p) ==
  /\ crashes < MaxCrashes /\ job[p].pc # "idle" /\ (job[p].pc = "halves" => "torn" \in Faults)
  /\ crashes' = crashes + 1 /\ Goes(p, "idle")
  /\ UNCHANGED <<used, outside, db, sent, lock, release>>

Step(p) ==
  \/ NextWindow(p) \/ FetchBooks(p) \/ FetchTrades(p) \/ MarkSplit(p) \/ InsertHalves(p)
  \/ InsertRows(p) \/ CompleteWindow(p)
  \/ NextHour(p) \/ FetchSeed(p) \/ StoreSeed(p) \/ FetchObject(p) \/ FinishWindows(p)
  \/ TakeLock(p) \/ Write(p) \/ Reject(p) \/ Install(p) \/ Unlock(p)

Next ==
  \/ \E p \in Procs : (\E source \in {"range", "archive"} : Start(p, source)) \/ Step(p) \/ Crash(p)
  \/ Elsewhere \/ \E h \in LateHours : ObjectAppears(h)

Spec == Init /\ [][Next]_vars /\ \A p \in Procs : WF_vars(Step(p))

----------------------------------------------------------------------------
(* Properties *)

Publishing(p) == job[p].pc \in {"write", "install", "cleanup"}

TypeOK ==
  /\ used \in 0..Budget /\ late \subseteq LateHours
  /\ \A p \in Procs :
       /\ db[p].source \in {"none", "range", "archive"} /\ \A w \in db[p].windows : w.root \in Plan
       /\ \A r \in db[p].rows : r.window \in Plan /\ r.window.from <= r.at /\ r.at <= r.window.to

(* Every leg is in one window of the plan, and no instant of a token is in *)
(* two: the archive stops at an event with two windows.                    *)
PlanIsAPartition ==
  /\ \A l \in Legs : Cardinality({w \in Plan : w.token = l.token /\ w.from <= From(l) /\ Until(l) <= w.to}) = 1
  /\ \A v, w \in Plan : v # w /\ v.token = w.token => v.to < w.from \/ w.to < v.from

(* All processes and the jobs elsewhere together send no more requests     *)
(* than the month has credits.                                             *)
NeverOverspent == elsewhere + sent <= Budget

(* A book of the archive is the true one of its instant, though it is      *)
(* rebuilt from the seed of its hour and the hour before may be missing.   *)
BooksAreTrue ==
  \A p \in Procs : \A r \in db[p].rows : r.kind = "book" => r.book = BookAt(r.token, r.at, r.id)

(* A release has all the evidence there is for its plan, save the hours it *)
(* declares missing, however often its acquisition was split and resumed.  *)
ReleaseIsWhole ==
  release.exists =>
    \A w \in Plan : \A i \in Within(w) :
      Hour(i.at) \in release.missing \/ \E r \in release.rows : r.id = i.id /\ r.token = i.token /\ r.kind = i.kind

(* One process at a time publishes, and what it holds is its own lock.     *)
OnePublisher ==
  /\ \A p, q \in Procs : Publishing(p) /\ Publishing(q) => p = q
  /\ \A p \in Procs : Publishing(p) => lock

(* Without a crash the lock goes away again: no failure keeps it.          *)
LockIsReleased == lock ~> (~lock \/ crashes > 0)

(* The archive is the evidence: a plan that covers every leg once, books    *)
(* rebuilt as they were, all of it in the release, written by one process.  *)
ArchiveIsTrue == TypeOK /\ PlanIsAPartition /\ BooksAreTrue /\ ReleaseIsWhole /\ OnePublisher
=============================================================================
