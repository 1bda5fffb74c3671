--------------------------- MODULE OrderBookCapture ---------------------------
(***************************************************************************)
(* PMXT captures of a match: the order-book scan and the trade scan that   *)
(* follows it, their adaptive windows, the marts dbt builds from the       *)
(* latest published scans and the portrait bundle exported from them.     *)
(*                                                                         *)
(* The provider answers a range with at most Limit items, so a full answer *)
(* proves nothing and its range is split.  Requests are paid: each has to  *)
(* be reserved in a counter of the month.  One process at a time has the   *)
(* warehouse; a crash leaves its lease behind.  A snapshot or a trade is a *)
(* record of its token, its identity and its instant.                      *)
(***************************************************************************)
EXTENDS Integers, FiniteSets, FiniteSetsExt

CONSTANTS
  MaxScans,      \* bound: order-book scans ever begun
  Owners,        \* run identifiers of the processes
  Tokens,        \* tokens of the approved targets
  Span,          \* a target's window is 0..Span
  Limit,         \* PMXT_MAX_RANGE_SNAPSHOTS
  FirstListed,   \* what the provider holds at first, by kind
  Changes,       \* bound: what it may take back and what it may add
  Budget,        \* monthly_credit_budget
  Retries,       \* transient_retries
  MaxMonths, MaxChanges, MaxCrashes,   \* bounds
  Faults         \* subset of {"transient", "limited", "malformed", "gamma"}

Kinds == {"book", "trade"}

(* What the provider may hold for the targets. *)
Items == [token : Tokens, id : Nat, at : 0..Span]

ASSUME CaptureAssumption ==
  /\ {MaxScans, Limit, Budget, Retries, MaxMonths, MaxChanges, MaxCrashes} \subseteq Nat
  /\ Span \in Nat \ {0} /\ Tokens \subseteq Nat
  /\ FirstListed \in [Kinds -> SUBSET Items] /\ \A k \in Kinds : IsFiniteSet(FirstListed[k])
  /\ \A c \in Changes : c.kind \in Kinds /\ c.new \subseteq Items /\ IsFiniteSet(c.new)
  /\ "none" \notin Owners
  /\ Faults \subseteq {"transient", "limited", "malformed", "gamma"}

VARIABLES
  listed,        \* what the provider holds, by kind
  changes, month, crashes,
  used,          \* pmxt_api_attempts of the month
  runs,          \* scan runs, by kind and scan
  windows,       \* scan windows, by kind and scan
  raw,           \* match_order_book_snapshots and match_trades, by scan
  mart,          \* the two portrait marts
  bundle,        \* the bundle exported last
  job,           \* the process that has the warehouse
  unpaid,        \* history: kinds with a request that was not reserved
  steady         \* history: items listed ever since a scan began

provider == <<listed, changes, month, crashes>>
scans    == <<runs, windows, raw>>
vars     == <<provider, used, scans, mart, bundle, job, unpaid, steady>>

ScanIds == 1..MaxScans

NewRun == [status |-> "none", owner |-> "none", live |-> FALSE, finished |-> 0, count |-> 0]
(* A run whose status or lease changes, and what a process is doing when   *)
(* it has no window: its next step and the scan it is for.                 *)
With(run, status, owner, live) ==
  [status |-> status, owner |-> owner, live |-> live, finished |-> run.finished, count |-> run.count]

At(pc, kind, owner, scan, reason) ==
  [pc |-> pc, kind |-> kind, owner |-> owner, scan |-> scan, window |-> {}, retry |-> 0,
   answer |-> {}, paid |-> FALSE, reason |-> reason]

Idle   == At("idle", "book", "none", 0, "none")
NoMart == [book |-> 0, states |-> {}, trade |-> 0, trades |-> {}]
NoBundle == [scan |-> 0, states |-> {}, trades |-> {}]

Init ==
  /\ listed = FirstListed /\ changes = 0 /\ month = 1 /\ crashes = 0 /\ used = 0
  /\ runs = [k \in Kinds |-> [s \in ScanIds |-> NewRun]]
  /\ windows = [k \in Kinds |-> [s \in ScanIds |-> {}]]
  /\ raw = [k \in Kinds |-> [s \in ScanIds |-> {}]]
  /\ mart = NoMart /\ bundle = NoBundle /\ job = Idle /\ unpaid = {}
  /\ steady = [k \in Kinds |-> [s \in ScanIds |-> {}]]

----------------------------------------------------------------------------
(* The provider *)

(* The place of an item in the answer it came with. *)
Place(answer, i) == Cardinality({j \in answer : j.at < i.at \/ (j.at = i.at /\ j.id < i.id)})

(* The first Limit items of a range. *)
Answer(k, w) ==
  LET items == {i \in listed[k] : i.token = w.token /\ w.from <= i.at /\ i.at <= w.to}
  IN {i \in items : Place(items, i) < Limit}

(* It adds an item, or corrects the instant of one: a change that matters  *)
(* does so for the next request.                                           *)
Change ==
  /\ job.pc = "request" /\ changes < MaxChanges /\ changes' = changes + 1
  /\ \E c \in Changes :
       c.kind = job.kind /\ listed' = [listed EXCEPT ![c.kind] = (@ \ c.gone) \cup c.new]
  /\ steady' = [k \in Kinds |-> [s \in ScanIds |->
                  IF runs[k][s].status = "published" THEN steady[k][s] ELSE steady[k][s] \cap listed'[k]]]
  /\ UNCHANGED <<month, crashes, used, scans, mart, bundle, job, unpaid>>

(* A month ends; its end matters when the counter was used up.             *)
NewMonth ==
  /\ used = Budget /\ month < MaxMonths /\ month' = month + 1 /\ used' = 0
  /\ UNCHANGED <<listed, changes, crashes, scans, mart, bundle, job, unpaid, steady>>

----------------------------------------------------------------------------
(* Acquiring a scan *)

Published(k) == {s \in ScanIds : runs[k][s].status = "published"}

Latest(k) == CHOOSE s \in Published(k) : \A r \in Published(k) : runs[k][r].finished <= runs[k][s].finished

Resumable == {s \in ScanIds : runs["book"][s].status \in {"running", "paused", "failed"}}

Unused == {s \in ScanIds : runs["book"][s].status = "none"}

Roots == {[token |-> t, from |-> 0, to |-> Span, depth |-> 0, status |-> "pending", seen |-> {}] : t \in Tokens}

WhoeverOwnsIt(s, o) == TRUE

(* No other run's lease on the scan is alive. *)
FreeOrOwn(s, o) == LET r == runs["book"][s] IN ~r.live \/ r.owner = o

(* Without force, a published scan is all there is to do; otherwise the    *)
(* scan begun last goes on, unless another run's lease on it is alive.     *)
Begin(k, o, s) ==
  /\ runs' = [runs EXCEPT ![k][s] = With(@, "running", IF k = "book" THEN o ELSE @.owner, k = "book")]
  /\ IF runs[k][s].status = "none"
     THEN windows' = [windows EXCEPT ![k][s] = Roots] /\ steady' = [steady EXCEPT ![k][s] = listed[k]]
     ELSE UNCHANGED <<windows, steady>>
  /\ job' = At("next", k, o, s, "none")
  /\ UNCHANGED <<provider, used, raw, mart, bundle, unpaid>>

StartBooks(o, force) ==
  /\ job.pc = "idle"
  /\ \/ ~force /\ Published("book") = {} /\ Resumable # {}
        /\ FreeOrOwn(Max(Resumable), o) /\ Begin("book", o, Max(Resumable))
     \/ (force \/ Published("book") \cup Resumable = {}) /\ Unused # {} /\ Begin("book", o, Min(Unused))

TradesDone(s) == s \in Published("trade")

(* Trades are for the order-book scan published last.                      *)
StartTrades ==
  /\ job.pc = "idle" /\ Published("book") # {} /\ ~TradesDone(Latest("book"))
  /\ Begin("trade", "none", Latest("book"))

(* A lease runs out. *)
Expire(s) ==
  /\ runs["book"][s].live
  /\ runs' = [runs EXCEPT !["book"][s] = With(@, @.status, @.owner, FALSE)]
  /\ UNCHANGED <<provider, used, windows, raw, mart, bundle, job, unpaid, steady>>

Run == runs[job.kind][job.scan]

(* Each checkpoint of an order-book scan needs its lease; trades have none.*)
HasLease == job.kind = "trade" \/ (Run.status = "running" /\ Run.owner = job.owner /\ Run.live)

(* A checkpoint renews the lease. *)
Renew(status) ==
  runs' = [runs EXCEPT ![job.kind][job.scan] = With(@, status, @.owner, job.kind = "book")]

GoesOn == At("next", job.kind, job.owner, job.scan, "none")

Stop(reason) == At("stop", job.kind, job.owner, job.scan, reason)

(* The targets of an order-book scan are compared with Gamma's first.      *)
GammaDrift ==
  /\ "gamma" \in Faults /\ job.pc = "next" /\ job.kind = "book"
  /\ job' = Stop("failed")
  /\ UNCHANGED <<provider, used, scans, mart, bundle, unpaid, steady>>

LeaseLost ==
  /\ job.pc \in {"next", "reserve", "split", "complete", "publish"} /\ ~HasLease
  /\ job' = Stop("failed")
  /\ UNCHANGED <<provider, used, scans, mart, bundle, unpaid, steady>>

----------------------------------------------------------------------------
(* Windows *)

Pending == {w \in windows[job.kind][job.scan] : w.status = "pending"}

Before(v, w) ==
  \/ v.depth < w.depth
  \/ v.depth = w.depth /\ v.token < w.token
  \/ v.depth = w.depth /\ v.token = w.token /\ v.from <= w.from

NextWindow ==
  /\ job.pc = "next"
  /\ job' = IF Pending = {} THEN [job EXCEPT !.pc = "publish"]
            ELSE [job EXCEPT !.pc = "reserve", !.retry = 0,
                             !.window = {CHOOSE w \in Pending : \A v \in Pending : Before(w, v)}]
  /\ UNCHANGED <<provider, used, scans, mart, bundle, unpaid, steady>>

Window == CHOOSE w \in job.window : TRUE

HasCredit == used < Budget

(* A request is reserved before it is sent; a reservation renews the lease.*)
Reserve ==
  /\ job.pc = "reserve" /\ HasLease
  /\ IF ~HasCredit
     THEN job' = Stop("paused") /\ UNCHANGED <<used, runs>>
     ELSE /\ used' = used + 1
          /\ Renew("running")
          /\ job' = [job EXCEPT !.pc = "request", !.paid = TRUE]
  /\ UNCHANGED <<provider, windows, raw, mart, bundle, unpaid, steady>>

Unreserved(k) == "request"

(* Where a transient failure leads: an order-book attempt is reserved anew,*)
(* one for trades is repeated.                                             *)
RetryAt(k) == IF k = "book" THEN "reserve" ELSE "request"

OverLimit(answer) == Cardinality(answer) > Limit

(* An answer of Limit items may have left out others.                      *)
IsFull(answer) == Cardinality(answer) = Limit

Request ==
  LET answer == Answer(job.kind, Window)
  IN /\ job.pc = "request"
     /\ unpaid' = IF job.paid THEN unpaid ELSE unpaid \cup {job.kind}
     /\ \/ job' = IF IsFull(answer) THEN [job EXCEPT !.pc = "split", !.paid = FALSE, !.retry = 0]
                  ELSE [job EXCEPT !.pc = IF answer = {} THEN "complete" ELSE "rows", !.paid = FALSE,
                                   !.retry = 0, !.answer = answer]
        \/ /\ "transient" \in Faults
           /\ job' = IF job.retry < Retries THEN [job EXCEPT !.pc = RetryAt(job.kind), !.retry = @ + 1, !.paid = FALSE]
                     ELSE Stop("failed")
        \/ "limited" \in Faults /\ job.retry = Retries /\ job' = Stop("paused")
        \/ "malformed" \in Faults /\ job' = Stop("failed")
     /\ UNCHANGED <<provider, used, scans, mart, bundle, steady>>

(* The halves share their boundary. *)
Part(w, from, to) ==
  [token |-> w.token, from |-> from, to |-> to, depth |-> w.depth + 1, status |-> "pending", seen |-> {}]

Halves(w) == LET mid == (w.from + w.to) \div 2 IN {Part(w, w.from, mid), Part(w, mid, w.to)}

(* A window and its halves change together; one of two instants is not split. *)
Split ==
  /\ job.pc = "split" /\ HasLease
  /\ IF Window.to - Window.from <= 1
     THEN job' = Stop("failed") /\ UNCHANGED <<windows, runs>>
     ELSE /\ windows' = [windows EXCEPT ![job.kind][job.scan] =
                           (@ \ job.window) \cup {[Window EXCEPT !.status = "split"]}
                             \cup {h \in Halves(Window) : ~\E v \in @ : v.token = h.token /\ v.from = h.from /\ v.to = h.to}]
          /\ Renew(Run.status)
          /\ job' = GoesOn
  /\ UNCHANGED <<provider, used, raw, mart, bundle, unpaid, steady>>

Row(i) == [item |-> i, place |-> Place(job.answer, i)]

(* Snapshots are merged in one statement, the later answer replacing the   *)
(* rows of an earlier one, before the window is checkpointed.              *)
MergeBooks ==
  /\ job.pc = "rows" /\ job.kind = "book"
  /\ raw' = [raw EXCEPT !["book"][job.scan] =
               {r \in @ : r.item \notin job.answer} \cup {Row(i) : i \in job.answer}]
  /\ job' = [job EXCEPT !.pc = "complete"]
  /\ UNCHANGED <<provider, used, runs, windows, mart, bundle, unpaid, steady>>

(* Trades are inserted one by one; one that contradicts what is stored     *)
(* under its identity ends the scan.                                       *)
InsertTrade ==
  LET missing == {i \in job.answer : ~\E r \in raw["trade"][job.scan] : r.item = i}
      next    == CHOOSE i \in missing : \A j \in missing : i.at < j.at \/ (i.at = j.at /\ i.id <= j.id)
      stored  == {r.item : r \in raw["trade"][job.scan]}
  IN /\ job.pc = "rows" /\ job.kind = "trade"
     /\ IF missing = {} THEN job' = [job EXCEPT !.pc = "complete"] /\ UNCHANGED raw
        ELSE IF \E i \in stored : i.token = next.token /\ i.id = next.id
             THEN job' = Stop("failed") /\ UNCHANGED raw
             ELSE raw' = [raw EXCEPT !["trade"][job.scan] = @ \cup {[item |-> next, place |-> 0]}]
                  /\ UNCHANGED job
     /\ UNCHANGED <<provider, used, runs, windows, mart, bundle, unpaid, steady>>

CompleteWindow ==
  /\ job.pc = "complete" /\ HasLease
  /\ windows' = [windows EXCEPT ![job.kind][job.scan] =
                   (@ \ job.window)
                     \cup {[Window EXCEPT !.status = IF job.answer = {} THEN "empty" ELSE "loaded", !.seen = job.answer]}]
  /\ Renew(Run.status)
  /\ job' = GoesOn
  /\ UNCHANGED <<provider, used, raw, mart, bundle, unpaid, steady>>

----------------------------------------------------------------------------
(* Publication *)

Rows(k, s) == {r.item : r \in raw[k][s]}

Seen(k, s) == UNION {w.seen : w \in windows[k][s]}

(* Two snapshots of one instant had the same place in their answers.       *)
Contradicts(s) ==
  \E p, q \in raw["book"][s] :
    p.item # q.item /\ p.item.token = q.item.token /\ p.item.at = q.item.at /\ p.place = q.place

EveryToken(s) == {i.token : i \in Rows("book", s)} = Tokens

(* What is stored is what the windows saw, of every token. *)
IsSound(k, s) ==
  IF k = "book" THEN ~Contradicts(s) /\ EveryToken(s) /\ Rows(k, s) = Seen(k, s) ELSE Rows(k, s) # {}

Finished(k) == Cardinality(Published(k)) + 1

Publish ==
  LET k == job.kind s == job.scan
  IN /\ job.pc = "publish" /\ HasLease
     /\ IF IsSound(k, s)
        THEN /\ runs' = [runs EXCEPT ![k][s] = [status |-> "published", owner |-> "none", live |-> FALSE,
                                               finished |-> Finished(k), count |-> Cardinality(raw[k][s])]]
             /\ job' = Idle
        ELSE job' = Stop("failed") /\ UNCHANGED runs
     /\ UNCHANGED <<provider, used, windows, raw, mart, bundle, unpaid, steady>>

(* Paused or failed, the run is marked and its own lease is given back.    *)
SetStatus ==
  /\ job.pc = "stop"
  /\ runs' = IF job.kind = "trade" \/ Run.owner = job.owner
             THEN [runs EXCEPT ![job.kind][job.scan] = With(@, job.reason, "none", FALSE)]
             ELSE runs
  /\ job' = Idle
  /\ UNCHANGED <<provider, used, windows, raw, mart, bundle, unpaid, steady>>

Crash ==
  /\ crashes < MaxCrashes /\ job.pc # "idle"
  /\ crashes' = crashes + 1 /\ job' = Idle
  /\ UNCHANGED <<listed, changes, month, used, scans, mart, bundle, unpaid, steady>>

----------------------------------------------------------------------------
(* Marts and bundle *)

(* dbt builds the order-book mart, and the mart of trades once there are   *)
(* some: each from the scan of its own kind that was published last.       *)
BuildMart ==
  /\ job.pc = "idle" /\ Published("book") # {}
  /\ mart' = [mart EXCEPT !.book = Latest("book"), !.states = Rows("book", Latest("book"))]
  /\ UNCHANGED <<provider, used, scans, bundle, job, unpaid, steady>>

BuildTrades ==
  /\ job.pc = "idle" /\ Published("trade") # {}
  /\ runs["trade"][Latest("trade")].count = Cardinality(raw["trade"][Latest("trade")])
  /\ mart' = [mart EXCEPT !.trade = Latest("trade"), !.trades = Rows("trade", Latest("trade"))]
  /\ UNCHANGED <<provider, used, scans, bundle, job, unpaid, steady>>

(* The trades in the mart are the ones the published run counted.          *)
TradesAgree(s) ==
  (IF mart.trade = s THEN Cardinality(mart.trades) ELSE 0) = runs["trade"][s].count

(* The scan of the mart is published with its trades. *)
Resolved == mart.book \in Published("book") /\ mart.book \in Published("trade")

(* A bundle is named by its content and joins both marts on the scan.      *)
Export ==
  /\ job.pc = "idle" /\ Resolved
  /\ TradesAgree(mart.book)
  /\ bundle' = [scan |-> mart.book, states |-> mart.states, trades |-> mart.trades]
  /\ UNCHANGED <<provider, used, scans, mart, job, unpaid, steady>>

----------------------------------------------------------------------------
Job ==
  \/ GammaDrift \/ LeaseLost \/ NextWindow \/ Reserve \/ Request \/ Split
  \/ MergeBooks \/ InsertTrade \/ CompleteWindow \/ Publish \/ SetStatus

Next ==
  \/ \E o \in Owners : \E force \in BOOLEAN : StartBooks(o, force)
  \/ StartTrades
  \/ \E s \in ScanIds : Expire(s)
  \/ Job \/ Crash \/ BuildMart \/ BuildTrades \/ Export
  \/ Change \/ NewMonth

Spec == Init /\ [][Next]_vars

----------------------------------------------------------------------------
(* Properties *)

TypeOK ==
  /\ used \in 0..Budget
  /\ \A k \in Kinds : \A s \in ScanIds :
       /\ runs[k][s].status \in {"none", "running", "paused", "failed", "published"}
       /\ runs[k][s].live => k = "book" /\ runs[k][s].status = "running" /\ runs[k][s].owner \in Owners
       /\ \A w \in windows[k][s] : w.from < w.to /\ (w.seen # {} <=> w.status = "loaded")

(* A published scan has every item that was there all along, though each   *)
(* answer is cut off at Limit and the scan may have been resumed often.    *)
NothingMissed ==
  \A k \in Kinds : \A s \in Published(k) : steady[k][s] \subseteq Rows(k, s)

(* A published order-book scan holds nothing but what its windows saw: rows *)
(* a crash left before a checkpoint and a replay did not return block it.  *)
PublishedIsExact ==
  \A s \in Published("book") : Rows("book", s) = Seen("book", s)

(* A scan that is published is final, whoever starts whatever later.       *)
PublishedIsFinal ==
  [][\A k \in Kinds : \A s \in Published(k) :
       runs'[k][s] = runs[k][s] /\ windows'[k][s] = windows[k][s] /\ raw'[k][s] = raw[k][s]]_vars

(* No order-book request goes out that the counter of the month had not    *)
(* paid for, retries included.                                             *)
BooksArePaid == "book" \notin unpaid

(* A bundle shows one capture: books and trades of the same scan, all of   *)
(* them, however many scans there are and whichever mart was built last.   *)
BundleIsOneCapture ==
  bundle # NoBundle =>
    bundle.states = Rows("book", bundle.scan) /\ bundle.trades = Rows("trade", bundle.scan)

(* A run never works on a scan while another run's lease on it is alive.   *)
LeaseIsExclusive ==
  [][\A s \in ScanIds :
       LET r == runs["book"][s]
       IN r.live /\ runs'["book"][s].live => runs'["book"][s].owner = r.owner]_vars

(* What is published and bundled is what the source held: nothing missed by *)
(* a cut-off answer, nothing left over from a crash, and books and trades   *)
(* of the same capture.                                                     *)
ScansAreTrue == TypeOK /\ NothingMissed /\ PublishedIsExact /\ BundleIsOneCapture

(* Runs keep out of each other's scans, while they work on them and after   *)
(* they have published.                                                     *)
ScansAreGuarded == PublishedIsFinal /\ LeaseIsExclusive
=============================================================================
