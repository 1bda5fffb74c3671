------------------------ MODULE OrderBookCaptureProofs ------------------------
(***************************************************************************)
(* Every order-book request is paid for, runs keep out of each other's     *)
(* scans, and what a scan publishes is what the provider held: whatever    *)
(* the provider's limit, the lengths of the windows and the number of      *)
(* scans, tokens and crashes.                                              *)
(***************************************************************************)
EXTENDS OrderBookCapture, FiniteSetTheorems, WellFoundedInduction, TLAPS

Statuses == {"none", "running", "paused", "failed", "published"}

RunRows == [status : Statuses, owner : Owners \cup {"none"}, live : BOOLEAN,
            finished : 0..MaxScans + 1, count : Nat]

WindowRows == [token : Tokens, from : Nat, to : Nat, depth : Nat,
               status : {"pending", "split", "loaded", "empty"}, seen : SUBSET Items]

RawRows == [item : Items, place : Nat]

WithWindow == {"reserve", "request", "split", "rows", "complete"}

Jobs == [pc : WithWindow \cup {"idle", "next", "publish", "stop"}, kind : Kinds,
         owner : Owners \cup {"none"}, scan : 0..MaxScans, window : SUBSET WindowRows, retry : Nat,
         answer : SUBSET Items, paid : BOOLEAN, reason : {"none", "paused", "failed"}]

Tables ==
  /\ runs \in [Kinds -> [ScanIds -> RunRows]]
  /\ windows \in [Kinds -> [ScanIds -> SUBSET WindowRows]]
  /\ raw \in [Kinds -> [ScanIds -> SUBSET RawRows]]
  /\ \A k \in Kinds : \A s \in ScanIds : IsFiniteSet(raw[k][s])

Provider ==
  /\ listed \in [Kinds -> SUBSET Items] /\ \A k \in Kinds : IsFiniteSet(listed[k])
  /\ steady \in [Kinds -> [ScanIds -> SUBSET Items]]

Shapes ==
  /\ used \in 0..Budget /\ Tables /\ Provider /\ job \in Jobs /\ IsFiniteSet(job.answer)
  /\ mart = [book |-> mart.book, states |-> mart.states, trade |-> mart.trade, trades |-> mart.trades]
  /\ bundle = [scan |-> bundle.scan, states |-> bundle.states, trades |-> bundle.trades]

----------------------------------------------------------------------------
(* The job works at a scan that is not published, and has one window of it *)
(* that is still to be done.                                               *)
JobIsOpen ==
  job.pc # "idle" =>
    /\ job.scan \in ScanIds /\ Run.status \in {"running", "paused", "failed"}
    /\ job.kind = "book" => job.owner \in Owners
    /\ job.pc = "stop" => job.reason # "none"

JobHasWindow == job.pc \in WithWindow => \E w \in Pending : job.window = {w}

(* A lease is that of a run that is under way.                             *)
LeasesAreLive ==
  \A k \in Kinds : \A s \in ScanIds :
    runs[k][s].live => k = "book" /\ runs[k][s].status = "running" /\ runs[k][s].owner \in Owners

RequestIsPaid == job.pc = "request" /\ job.kind = "book" => job.paid

In(i, w) == i.token = w.token /\ w.from <= i.at /\ i.at <= w.to

Inside(u, v) == u.token = v.token /\ v.from <= u.from /\ u.to <= v.to

IsDone(w) == w.status \in {"loaded", "empty"}

(* A window accounts for an item if one inside it, not split itself, has   *)
(* the item in its range, and has seen it once it is done.                 *)
Accounts(ws, v, i) ==
  \E u \in ws : Inside(u, v) /\ In(i, u) /\ u.status # "split" /\ (IsDone(u) => i \in u.seen)

WindowsAreSound(ws) ==
  \A w \in ws : w.from < w.to /\ (w.seen # {} <=> w.status = "loaded")

(* The windows of a scan that has begun account for all that was there all *)
(* along, and what they have seen is stored.                               *)
WindowsAreWhole(k, s) ==
  /\ WindowsAreSound(windows[k][s]) /\ Seen(k, s) \subseteq Rows(k, s)
  /\ runs[k][s].status # "none" =>
       /\ \A t \in Tokens : \E w \in windows[k][s] : w.token = t /\ w.from = 0 /\ w.to = Span
       /\ \A v \in windows[k][s] : \A i \in steady[k][s] : In(i, v) => Accounts(windows[k][s], v, i)
  /\ runs[k][s].status \in {"running", "paused", "failed"} => steady[k][s] \subseteq listed[k]

(* An answer that is not split has what was there all along in its window. *)
AnswerIsWhole ==
  /\ job.pc \in {"rows", "complete"} =>
       \A i \in steady[job.kind][job.scan] : \A w \in job.window : In(i, w) => i \in job.answer
  /\ job.pc = "complete" => job.answer \subseteq Rows(job.kind, job.scan)
  /\ job.pc = "publish" => Pending = {}

(* A published trade scan has trades, and has counted them.                *)
PublishedIsCounted ==
  \A s \in Published("trade") :
    Rows("trade", s) # {} /\ runs["trade"][s].count = Cardinality(raw["trade"][s])

(* A mart that was built shows a published scan, and so does a bundle.     *)
MartsAreTrue ==
  /\ mart.book = 0 \/ (mart.book \in Published("book") /\ mart.states = Rows("book", mart.book))
  /\ mart.trade = 0 \/ (mart.trade \in Published("trade") /\ mart.trades = Rows("trade", mart.trade))
  /\ bundle = NoBundle \/ bundle.scan \in Published("book") \cap Published("trade")

Truths == PublishedIsCounted /\ MartsAreTrue /\ NothingMissed /\ PublishedIsExact /\ BundleIsOneCapture

ScansAreWhole == \A k \in Kinds : \A s \in ScanIds : WindowsAreWhole(k, s)

InvB == ScansAreWhole /\ AnswerIsWhole /\ Truths

InvA == Shapes /\ JobIsOpen /\ JobHasWindow /\ LeasesAreLive /\ RequestIsPaid /\ BooksArePaid

PublishedStays ==
  \A k \in Kinds : \A s \in Published(k) :
    runs'[k][s] = runs[k][s] /\ windows'[k][s] = windows[k][s] /\ raw'[k][s] = raw[k][s]

LeaseStays ==
  \A s \in ScanIds :
    runs["book"][s].live /\ runs'["book"][s].live => runs'["book"][s].owner = runs["book"][s].owner

----------------------------------------------------------------------------
(* Tables with an entry for each kind and scan *)

(* One run, the windows or the rows of one scan change, and nothing else.  *)
RunBecomes(k, s, r) ==
  /\ runs' \in [Kinds -> [ScanIds -> RunRows]] /\ runs'[k][s] = r
  /\ \A j \in Kinds : \A q \in ScanIds : j # k \/ q # s => runs'[j][q] = runs[j][q]

WindowsBecome(k, s, ws) ==
  /\ windows' \in [Kinds -> [ScanIds -> SUBSET WindowRows]] /\ windows'[k][s] = ws
  /\ \A j \in Kinds : \A q \in ScanIds : j # k \/ q # s => windows'[j][q] = windows[j][q]

RowsBecome(k, s, rows) ==
  /\ raw' \in [Kinds -> [ScanIds -> SUBSET RawRows]] /\ raw'[k][s] = rows
  /\ \A j \in Kinds : \A q \in ScanIds : j # k \/ q # s => raw'[j][q] = raw[j][q]

LEMMA PutRun ==
  ASSUME Tables, NEW k \in Kinds, NEW s \in ScanIds, NEW r \in RunRows, runs' = [runs EXCEPT ![k][s] = r]
  PROVE  RunBecomes(k, s, r)
BY DEF Tables, RunBecomes

LEMMA PutWindows ==
  ASSUME Tables, NEW k \in Kinds, NEW s \in ScanIds, NEW ws \in SUBSET WindowRows,
         windows' = [windows EXCEPT ![k][s] = ws]
  PROVE  WindowsBecome(k, s, ws)
BY DEF Tables, WindowsBecome

LEMMA PutRows ==
  ASSUME Tables, NEW k \in Kinds, NEW s \in ScanIds, NEW rows \in SUBSET RawRows,
         raw' = [raw EXCEPT ![k][s] = rows]
  PROVE  RowsBecome(k, s, rows)
BY DEF Tables, RowsBecome

----------------------------------------------------------------------------
(* Arithmetic of scans *)

LEMMA Smallest ==
  ASSUME NEW S \in SUBSET Nat, S # {}
  PROVE  \E x \in S : \A y \in S : x <= y
<1> DEFINE R == StrictSubsetOrdering(Nat)
           T == {0..x : x \in S}
<1>1. \A x, y \in Nat : y < x => <<0..y, 0..x>> \in R
  <2> TAKE x, y \in Nat
  <2> HAVE y < x
  <2>1. 0..y \in SUBSET Nat /\ 0..x \in SUBSET Nat /\ 0..y \subseteq 0..x
    OBVIOUS
  <2>2. x \in 0..x /\ x \notin 0..y
    OBVIOUS
  <2>3. 0..y # 0..x
    BY <2>2
  <2> QED BY <2>1, <2>3 DEF StrictSubsetOrdering
<1>2. T \subseteq FiniteSubsetsOf(Nat) /\ T # {}
  <2>1. \A x \in S : 0..x \in FiniteSubsetsOf(Nat)
    <3> TAKE x \in S
    <3>1. IsFiniteSet(0..x)
      BY FS_Interval
    <3>2. 0..x \in SUBSET Nat
      OBVIOUS
    <3> QED BY <3>1, <3>2 DEF FiniteSubsetsOf
  <2> QED BY <2>1
<1>3. \E t \in T : \A u \in T : ~(<<u, t>> \in R)
  <2> HIDE DEF R, T
  <2>1. IsWellFoundedOn(R, FiniteSubsetsOf(Nat))
    BY FS_StrictSubsetOrderingWellFounded DEF R
  <2> QED BY <1>2, <2>1, WFMin
<1> HIDE DEF R
<1>4. PICK x \in S : \A y \in S : ~(<<0..y, 0..x>> \in R)
  <2>1. \A x \in S : 0..x \in T
    OBVIOUS
  <2>2. PICK t \in T : \A u \in T : ~(<<u, t>> \in R)
    BY <1>3
  <2>3. PICK x \in S : t = 0..x
    BY <2>2
  <2> QED BY <2>1, <2>2, <2>3
<1>5. \A y \in S : x <= y
  <2> TAKE y \in S
  <2>1. x \in Nat /\ y \in Nat /\ ~(y < x)
    BY <1>1, <1>4
  <2> QED BY <2>1
<1> QED BY <1>5


LEMMA MinIs ==
  ASSUME NEW S \in SUBSET Nat, S # {}
  PROVE  Min(S) \in S /\ \A y \in S : Min(S) <= y
BY Smallest DEF Min

LEMMA MaxIs ==
  ASSUME NEW n \in Nat, NEW S \in SUBSET 1..n, S # {}
  PROVE  Max(S) \in S /\ \A y \in S : y <= Max(S)
<1> DEFINE T == {n - x : x \in S}
<1>1. T \in SUBSET Nat /\ T # {}
  <2>1. \A x \in S : n - x \in Nat
    OBVIOUS
  <2> QED BY <2>1
<1>2. PICK t \in T : \A u \in T : t <= u
  <2> HIDE DEF T
  <2> QED BY <1>1, Smallest
<1>3. PICK x \in S : t = n - x
  BY <1>2
<1>4. \A y \in S : y <= x
  <2> TAKE y \in S
  <2>1. n - y \in T
    OBVIOUS
  <2>2. n - x <= n - y
    BY <1>2, <1>3, <2>1
  <2> QED BY <2>2
<1>5. \E z \in S : \A y \in S : z >= y
  BY <1>4
<1>6. Max(S) \in S /\ \A y \in S : Max(S) >= y
  BY <1>5 DEF Max
<1> QED BY <1>6

LEMMA CutOffIsFull ==
  ASSUME NEW items \in SUBSET Items, IsFiniteSet(items), \A i, j \in items : i.token = j.token,
         NEW z \in items, Place(items, z) >= Limit
  PROVE  Cardinality({i \in items : Place(items, i) < Limit}) = Limit
<1> DEFINE Earlier(x) == {j \in items : j.at < x.at \/ (j.at = x.at /\ j.id < x.id)}
           first == {i \in items : Place(items, i) < Limit}
<1>0. Limit \in Nat /\ \A x \in items : x \in Items /\ x.at \in Int /\ x.id \in Int
  BY CaptureAssumption DEF Items
<1>1. \A x \in items : IsFiniteSet(Earlier(x)) /\ Place(items, x) \in Nat /\ Place(items, x) = Cardinality(Earlier(x))
  <2> TAKE x \in items
  <2>1. Earlier(x) \in SUBSET items
    OBVIOUS
  <2>2. IsFiniteSet(Earlier(x)) /\ Cardinality(Earlier(x)) \in Nat
    BY <2>1, FS_Subset, FS_CardinalityType
  <2> QED BY <2>2 DEF Place
<1>2. \A x \in items : \A y \in Earlier(x) : Place(items, y) < Place(items, x)
  <2> TAKE x \in items
  <2> TAKE y \in Earlier(x)
  <2>1. Earlier(y) \subseteq Earlier(x) /\ y \notin Earlier(y) /\ y \in items
    BY <1>0
  <2>2. Earlier(y) \in SUBSET Earlier(x) /\ Earlier(y) # Earlier(x)
    BY <2>1
  <2> HIDE DEF Earlier
  <2>3. Cardinality(Earlier(y)) <= Cardinality(Earlier(x)) /\ Cardinality(Earlier(y)) # Cardinality(Earlier(x))
    BY <1>1, <2>2, FS_Subset
  <2> QED BY <1>1, <2>1, <2>3
<1>3. \A x, y \in items : Place(items, x) = Place(items, y) => x = y
  <2> TAKE x, y \in items
  <2> HAVE Place(items, x) = Place(items, y)
  <2>1. x \notin Earlier(y) /\ y \notin Earlier(x)
    <3> HIDE DEF Earlier
    <3> QED BY <1>1, <1>2
  <2>2. x.at = y.at /\ x.id = y.id /\ x.token = y.token
    BY <1>0, <2>1
  <2>3. x = [token |-> x.token, id |-> x.id, at |-> x.at] /\ y = [token |-> y.token, id |-> y.id, at |-> y.at]
    BY <1>0 DEF Items
  <2> QED BY <2>2, <2>3
<1>4. IsFiniteSet(first) /\ Cardinality(first) \in Nat
  <2>1. first \in SUBSET items
    OBVIOUS
  <2> QED BY <2>1, FS_Subset, FS_CardinalityType
<1>5. Cardinality(first) <= Limit
  <2> DEFINE f == [i \in first |-> Place(items, i)]
  <2>1. f \in [first -> 0..Limit - 1]
    <3>1. ASSUME NEW i \in first PROVE Place(items, i) \in 0..Limit - 1
      <4>1. Place(items, i) \in Nat /\ Place(items, i) < Limit
        BY <1>1
      <4> QED BY <1>0, <4>1
    <3> HIDE DEF first
    <3> QED BY <3>1
  <2>2. \A x, y \in first : f[x] = f[y] => x = y
    BY <1>3
  <2>3. f \in Injection(first, 0..Limit - 1)
    <3> HIDE DEF f, first
    <3> QED BY <2>1, <2>2 DEF Injection, IsInjective
  <2>4. IsFiniteSet(0..Limit - 1) /\ Cardinality(0..Limit - 1) = Limit
    BY <1>0, FS_Interval
  <2> HIDE DEF f, first
  <2> QED BY <2>3, <2>4, FS_Injection
<1>6. Limit <= Cardinality(first)
  <2> DEFINE late == {n \in Nat : n >= Limit /\ \E x \in items : n = Place(items, x)}
  <2>1. late \in SUBSET Nat /\ late # {}
    BY <1>1
  <2>2. PICK n \in late : \A m \in late : n <= m
    <3> HIDE DEF late
    <3> QED BY <2>1, Smallest
  <2>3. PICK x \in items : n = Place(items, x)
    BY <2>2
  <2>4. n \in Nat /\ n >= Limit
    BY <2>2
  <2>5. Earlier(x) \in SUBSET first
    <3> SUFFICES ASSUME NEW y \in Earlier(x) PROVE y \in first
      OBVIOUS
    <3>1. y \in items /\ Place(items, y) \in Nat /\ Place(items, y) < n
      BY <1>1, <1>2, <2>3
    <3>2. Place(items, y) \notin late
      BY <2>2, <2>4, <3>1
    <3> QED BY <1>0, <3>1, <3>2
  <2>6. Cardinality(Earlier(x)) <= Cardinality(first)
    <3> HIDE DEF first, Earlier
    <3> QED BY <1>4, <2>5, FS_Subset
  <2>7. n = Cardinality(Earlier(x))
    BY <1>1, <2>3
  <2> HIDE DEF first, Earlier, late
  <2> QED BY <1>0, <1>4, <2>4, <2>6, <2>7
<1> HIDE DEF first
<1>7. Cardinality(first) = Limit
  BY <1>0, <1>4, <1>5, <1>6
<1> QED BY <1>7 DEF first

----------------------------------------------------------------------------
(* Leases, payments and what is published *)

LEMMA InitIsGuarded == Init => InvA
<1> SUFFICES ASSUME Init PROVE InvA
  OBVIOUS
<1>1. NewRun \in RunRows
  BY CaptureAssumption DEF NewRun, RunRows, Statuses
<1>2. Tables
  BY <1>1, FS_EmptySet DEF Init, Tables
<1>3. Provider
  <2>1. FirstListed \in [Kinds -> SUBSET Items] /\ \A k \in Kinds : IsFiniteSet(FirstListed[k])
    BY CaptureAssumption
  <2> QED BY <2>1 DEF Init, Provider
<1>4. job \in Jobs /\ IsFiniteSet(job.answer) /\ job.pc = "idle"
  BY CaptureAssumption, FS_EmptySet DEF Init, Idle, At, Jobs, Kinds
<1>5. used \in 0..Budget
  BY CaptureAssumption DEF Init
<1>6. Shapes
  BY <1>2, <1>3, <1>4, <1>5 DEF Init, Shapes, NoMart, NoBundle
<1>7. LeasesAreLive
  BY DEF Init, LeasesAreLive, NewRun
<1>8. BooksArePaid
  BY DEF Init, BooksArePaid
<1> QED
  BY <1>4, <1>6, <1>7, <1>8 DEF InvA, JobIsOpen, JobHasWindow, WithWindow, RequestIsPaid

LEMMA TablesStay ==
  ASSUME InvA, UNCHANGED <<runs, windows, raw>>
  PROVE  Tables' /\ LeasesAreLive' /\ PublishedStays /\ LeaseStays
BY DEF InvA, Shapes, Tables, LeasesAreLive, PublishedStays, LeaseStays

(* A job between two windows of the same scan, or none.                    *)
LEMMA JobMovesOn ==
  ASSUME InvA, UNCHANGED <<runs, windows, raw>>,
         \/ job' = Idle
         \/ job.pc # "idle" /\ job' = GoesOn
         \/ job.pc # "idle" /\ \E reason \in {"paused", "failed"} : job' = Stop(reason)
  PROVE  job' \in Jobs /\ IsFiniteSet(job'.answer) /\ JobIsOpen' /\ JobHasWindow' /\ RequestIsPaid'
<1>1. PICK pc \in {"idle", "next", "stop"}, kind \in Kinds, owner \in Owners \cup {"none"}, scan \in 0..MaxScans,
           reason \in {"none", "paused", "failed"} :
        /\ job' = At(pc, kind, owner, scan, reason)
        /\ pc # "idle" => kind = job.kind /\ owner = job.owner /\ scan = job.scan /\ job.pc # "idle"
        /\ pc = "stop" => reason # "none"
  BY CaptureAssumption DEF InvA, Shapes, Jobs, Idle, GoesOn, Stop, Kinds
<1>2. job' \in Jobs /\ job'.answer = {} /\ job'.pc = pc /\ job'.reason = reason
      /\ job'.kind = kind /\ job'.scan = scan /\ job'.owner = owner
  BY <1>1 DEF Jobs, At
<1>3. JobIsOpen'
  BY <1>1, <1>2 DEF InvA, JobIsOpen, Run
<1>4. JobHasWindow' /\ RequestIsPaid'
  BY <1>2 DEF JobHasWindow, RequestIsPaid, WithWindow
<1> QED BY <1>2, <1>3, <1>4, FS_EmptySet

LEMMA StopSteps ==
  ASSUME InvA, GammaDrift \/ LeaseLost \/ Crash
  PROVE  InvA' /\ PublishedStays /\ LeaseStays
<1>1. UNCHANGED <<runs, windows, raw, used, listed, steady, mart, bundle, unpaid>>
  BY DEF GammaDrift, LeaseLost, Crash, provider, scans
<1>2. job.pc # "idle" /\ (job' = Stop("failed") \/ job' = Idle)
  BY DEF GammaDrift, LeaseLost, Crash
<1>3. Tables' /\ LeasesAreLive' /\ PublishedStays /\ LeaseStays
  BY <1>1, TablesStay
<1>4. job' \in Jobs /\ IsFiniteSet(job'.answer) /\ JobIsOpen' /\ JobHasWindow' /\ RequestIsPaid'
  BY <1>1, <1>2, JobMovesOn
<1>5. Shapes'
  BY <1>1, <1>3, <1>4 DEF InvA, Shapes, Provider
<1> QED BY <1>1, <1>3, <1>4, <1>5 DEF InvA, BooksArePaid

LEMMA ProviderSteps ==
  ASSUME InvA, Change \/ NewMonth
  PROVE  InvA' /\ PublishedStays /\ LeaseStays
<1>1. UNCHANGED <<runs, windows, raw, job, mart, bundle, unpaid>>
  BY DEF Change, NewMonth, scans
<1>2. Tables' /\ LeasesAreLive' /\ PublishedStays /\ LeaseStays
  BY <1>1, TablesStay
<1>3. Provider'
  <2>1. CASE NewMonth
    BY <2>1 DEF NewMonth, InvA, Shapes, Provider
  <2>2. CASE Change
    <3>1. PICK c \in Changes : listed' = [listed EXCEPT ![c.kind] = (@ \ c.gone) \cup c.new]
      BY <2>2 DEF Change
    <3>2. c.kind \in Kinds /\ c.new \in SUBSET Items /\ IsFiniteSet(c.new)
      BY CaptureAssumption
    <3>3. listed \in [Kinds -> SUBSET Items] /\ \A k \in Kinds : IsFiniteSet(listed[k])
      BY DEF InvA, Shapes, Provider
    <3>4. IsFiniteSet((listed[c.kind] \ c.gone) \cup c.new)
      BY <3>2, <3>3, FS_Difference, FS_Union
    <3>5. listed' \in [Kinds -> SUBSET Items] /\ \A k \in Kinds : IsFiniteSet(listed'[k])
      BY <3>1, <3>2, <3>3, <3>4
    <3>6. steady' \in [Kinds -> [ScanIds -> SUBSET Items]]
      BY <2>2 DEF Change, InvA, Shapes, Provider
    <3> QED BY <3>5, <3>6 DEF Provider
  <2> QED BY <2>1, <2>2
<1>4. used' \in 0..Budget
  BY CaptureAssumption DEF Change, NewMonth, InvA, Shapes
<1>5. Shapes'
  BY <1>1, <1>2, <1>3, <1>4 DEF InvA, Shapes
<1> QED
  BY <1>1, <1>2, <1>5 DEF InvA, JobIsOpen, JobHasWindow, RequestIsPaid, BooksArePaid, Run, Pending

LEMMA MartSteps ==
  ASSUME InvA, BuildMart \/ BuildTrades \/ Export
  PROVE  InvA' /\ PublishedStays /\ LeaseStays
<1>1. UNCHANGED <<runs, windows, raw, job, used, listed, steady, unpaid>>
  BY DEF BuildMart, BuildTrades, Export, provider, scans
<1>2. Tables' /\ LeasesAreLive' /\ PublishedStays /\ LeaseStays
  BY <1>1, TablesStay
<1>3. Shapes'
  BY <1>1, <1>2 DEF InvA, Shapes, Provider, BuildMart, BuildTrades, Export
<1> QED
  BY <1>1, <1>2, <1>3 DEF InvA, JobIsOpen, JobHasWindow, RequestIsPaid, BooksArePaid, Run, Pending

LEMMA FirstIsThere ==
  ASSUME NEW ws \in SUBSET WindowRows, ws # {}
  PROVE  (CHOOSE w \in ws : \A v \in ws : Before(w, v)) \in ws
<1>0. \A w \in ws : w.depth \in Nat /\ w.token \in Nat /\ w.from \in Nat
  BY CaptureAssumption DEF WindowRows
<1>1. PICK a \in ws : \A v \in ws : a.depth <= v.depth
  <2> DEFINE S == {w.depth : w \in ws}
  <2>1. S \in SUBSET Nat /\ S # {}
    BY <1>0
  <2>2. PICK d \in S : \A e \in S : d <= e
    <3> HIDE DEF S
    <3> QED BY <2>1, Smallest
  <2> QED BY <2>2
<1>2. PICK b \in ws : b.depth = a.depth /\ \A v \in ws : v.depth = a.depth => b.token <= v.token
  <2> DEFINE S == {w.token : w \in {v \in ws : v.depth = a.depth}}
  <2>1. S \in SUBSET Nat /\ S # {}
    BY <1>0
  <2>2. PICK d \in S : \A e \in S : d <= e
    <3> HIDE DEF S
    <3> QED BY <2>1, Smallest
  <2> QED BY <2>2
<1>3. PICK c \in ws : /\ c.depth = a.depth /\ c.token = b.token
                      /\ \A v \in ws : v.depth = a.depth /\ v.token = b.token => c.from <= v.from
  <2> DEFINE S == {w.from : w \in {v \in ws : v.depth = a.depth /\ v.token = b.token}}
  <2>1. S \in SUBSET Nat /\ S # {}
    BY <1>0, <1>2
  <2>2. PICK d \in S : \A e \in S : d <= e
    <3> HIDE DEF S
    <3> QED BY <2>1, Smallest
  <2> QED BY <2>2
<1>4. \A v \in ws : Before(c, v)
  BY <1>0, <1>1, <1>2, <1>3 DEF Before
<1> QED BY <1>4

(* A job with a window has exactly one, of its scan and still to be done.  *)
LEMMA WindowIs ==
  ASSUME InvA, job.pc \in WithWindow
  PROVE  job.window = {Window} /\ Window \in Pending /\ Window \in WindowRows
<1>1. PICK w \in Pending : job.window = {w}
  BY DEF InvA, JobHasWindow
<1>2. Window = w
  BY <1>1 DEF Window
<1>3. job.window \subseteq WindowRows
  BY DEF InvA, Shapes, Jobs
<1> QED BY <1>1, <1>2, <1>3

LEMMA NextWindowStep ==
  ASSUME InvA, NextWindow
  PROVE  InvA' /\ PublishedStays /\ LeaseStays
<1>1. UNCHANGED <<runs, windows, raw, used, listed, steady, mart, bundle, unpaid>>
  BY DEF NextWindow, provider, scans
<1>2. Tables' /\ LeasesAreLive' /\ PublishedStays /\ LeaseStays
  BY <1>1, TablesStay
<1>3. job \in Jobs /\ job.scan \in ScanIds /\ Pending \in SUBSET WindowRows
  <2>1. job \in Jobs /\ job.scan \in ScanIds
    BY DEF NextWindow, InvA, Shapes, JobIsOpen
  <2> QED BY <2>1 DEF InvA, Shapes, Tables, Jobs, Pending
<1>4. /\ job' \in Jobs /\ job'.kind = job.kind /\ job'.scan = job.scan /\ job'.owner = job.owner
      /\ job'.answer = job.answer
      /\ (job'.pc = "publish" \/ (job'.pc = "reserve" /\ \E w \in Pending : job'.window = {w}))
  <2>1. CASE Pending = {}
    BY <1>3, <2>1 DEF NextWindow, Jobs
  <2>2. CASE Pending # {}
    <3> DEFINE w == CHOOSE w \in Pending : \A v \in Pending : Before(w, v)
    <3>1. w \in Pending
      BY <1>3, <2>2, FirstIsThere
    <3>2. job' = [job EXCEPT !.pc = "reserve", !.retry = 0, !.window = {w}]
      BY <2>2 DEF NextWindow
    <3> HIDE DEF w
    <3>3. w \in WindowRows
      BY <1>3, <3>1
    <3> QED BY <1>3, <3>1, <3>2, <3>3 DEF Jobs, WithWindow
  <2> QED BY <2>1, <2>2
<1>5. JobIsOpen'
  BY <1>1, <1>4 DEF NextWindow, InvA, JobIsOpen, Run
<1>6. JobHasWindow' /\ RequestIsPaid'
  BY <1>1, <1>4 DEF JobHasWindow, RequestIsPaid, WithWindow, Pending
<1>7. Shapes'
  BY <1>1, <1>2, <1>4 DEF InvA, Shapes, Provider
<1> QED BY <1>1, <1>2, <1>5, <1>6, <1>7 DEF InvA, BooksArePaid

LEMMA RequestStep ==
  ASSUME InvA, Request
  PROVE  InvA' /\ PublishedStays /\ LeaseStays
<1>1. UNCHANGED <<runs, windows, raw, used, listed, steady, mart, bundle>> /\ job.pc = "request"
  BY DEF Request, provider, scans
<1>2. Tables' /\ LeasesAreLive' /\ PublishedStays /\ LeaseStays
  BY <1>1, TablesStay
<1>3. job \in Jobs /\ IsFiniteSet(job.answer)
  BY DEF InvA, Shapes
<1>4. Answer(job.kind, Window) \in SUBSET Items /\ IsFiniteSet(Answer(job.kind, Window))
  <2>1. listed[job.kind] \in SUBSET Items /\ IsFiniteSet(listed[job.kind])
    BY <1>3 DEF InvA, Shapes, Provider, Jobs
  <2>2. Answer(job.kind, Window) \in SUBSET listed[job.kind]
    BY DEF Answer
  <2> QED BY <2>1, <2>2, FS_Subset
<1>5. /\ job' \in Jobs /\ IsFiniteSet(job'.answer)
      /\ JobIsOpen' /\ JobHasWindow' /\ RequestIsPaid'
  <2>1. CASE job' = Stop("failed") \/ job' = Stop("paused")
    BY <1>1, <2>1, JobMovesOn
  <2>2. CASE \E pc \in WithWindow, a \in {job.answer, Answer(job.kind, Window)}, n \in Nat :
               /\ job' = [job EXCEPT !.pc = pc, !.paid = FALSE, !.retry = n, !.answer = a]
               /\ pc = "request" => job.kind # "book"
    <3>1. PICK pc \in WithWindow, a \in {job.answer, Answer(job.kind, Window)}, n \in Nat :
               /\ job' = [job EXCEPT !.pc = pc, !.paid = FALSE, !.retry = n, !.answer = a]
               /\ pc = "request" => job.kind # "book"
      BY <2>2
    <3>2. /\ job' \in Jobs /\ job'.answer = a /\ job'.pc = pc /\ job'.kind = job.kind /\ job'.scan = job.scan
          /\ job'.owner = job.owner /\ job'.window = job.window
      BY <1>3, <1>4, <3>1 DEF Jobs
    <3>3. IsFiniteSet(job'.answer)
      BY <1>3, <1>4, <3>2
    <3>4. JobIsOpen'
      BY <1>1, <3>2 DEF InvA, JobIsOpen, Run, WithWindow
    <3>5. JobHasWindow'
      BY <1>1, <3>2 DEF InvA, JobHasWindow, Pending, WithWindow
    <3>6. RequestIsPaid'
      BY <3>1, <3>2 DEF RequestIsPaid
    <3> QED BY <3>2, <3>3, <3>4, <3>5, <3>6
  <2>3. job.retry \in Nat /\ job = [job EXCEPT !.answer = job.answer]
    BY <1>3 DEF Jobs
  <2>4. RetryAt(job.kind) \in WithWindow /\ (RetryAt(job.kind) = "request" => job.kind # "book")
    BY DEF RetryAt, WithWindow
  <2> QED
    <3> DEFINE ans == Answer(job.kind, Window)
    <3>1. CASE job' = IF IsFull(ans) THEN [job EXCEPT !.pc = "split", !.paid = FALSE, !.retry = 0]
                ELSE [job EXCEPT !.pc = IF ans = {} THEN "complete" ELSE "rows", !.paid = FALSE,
                                 !.retry = 0, !.answer = ans]
      <4>1. CASE IsFull(ans)
        <5>1. job' = [job EXCEPT !.pc = "split", !.paid = FALSE, !.retry = 0, !.answer = job.answer]
          BY <1>3, <3>1, <4>1 DEF Jobs
        <5> QED BY <2>2, <5>1 DEF WithWindow
      <4>2. CASE ~IsFull(ans)
        BY <2>2, <3>1, <4>2 DEF WithWindow
      <4> QED BY <4>1, <4>2
    <3>2. CASE job' = IF job.retry < Retries THEN [job EXCEPT !.pc = RetryAt(job.kind), !.retry = @ + 1, !.paid = FALSE]
                      ELSE Stop("failed")
      <4>1. CASE job.retry < Retries
        <5>1. job' = [job EXCEPT !.pc = RetryAt(job.kind), !.paid = FALSE, !.retry = job.retry + 1, !.answer = job.answer]
          BY <1>3, <3>2, <4>1 DEF Jobs
        <5> DEFINE pc == RetryAt(job.kind)
                   n  == job.retry + 1
        <5>2. pc \in WithWindow /\ n \in Nat /\ (pc = "request" => job.kind # "book")
          BY <2>3, <2>4
        <5>3. job' = [job EXCEPT !.pc = pc, !.paid = FALSE, !.retry = n, !.answer = job.answer]
          BY <5>1
        <5> HIDE DEF pc, n
        <5> QED BY <2>2, <5>2, <5>3
      <4>2. CASE ~(job.retry < Retries)
        BY <2>1, <3>2, <4>2
      <4> QED BY <4>1, <4>2
    <3> QED BY <2>1, <3>1, <3>2 DEF Request
<1>6. BooksArePaid' /\ unpaid' \subseteq unpaid \cup {job.kind}
  BY <1>1 DEF Request, InvA, RequestIsPaid, BooksArePaid
<1>7. Shapes'
  BY <1>1, <1>2, <1>5 DEF InvA, Shapes, Provider
<1> QED BY <1>2, <1>5, <1>6, <1>7 DEF InvA

(* A step that changes only one run, which is not published, and keeps to  *)
(* its lease.                                                              *)
LEMMA RunStep ==
  ASSUME InvA, NEW k \in Kinds, NEW s \in ScanIds, NEW r \in RunRows, RunBecomes(k, s, r),
         runs[k][s].status # "published",
         r.live => k = "book" /\ r.status = "running" /\ r.owner \in Owners,
         k = "book" /\ r.live /\ runs[k][s].live => r.owner = runs[k][s].owner
  PROVE  /\ LeasesAreLive' /\ LeaseStays
         /\ \A j \in Kinds : \A q \in Published(j) : runs'[j][q] = runs[j][q] /\ (j # k \/ q # s)
<1>1. /\ runs'[k][s] = r
      /\ \A j \in Kinds : \A q \in ScanIds : j # k \/ q # s => runs'[j][q] = runs[j][q]
  BY DEF RunBecomes
<1>2. LeasesAreLive'
  BY <1>1 DEF InvA, LeasesAreLive
<1>3. LeaseStays
  <2> SUFFICES ASSUME NEW q \in ScanIds, runs["book"][q].live, runs'["book"][q].live
               PROVE  runs'["book"][q].owner = runs["book"][q].owner
    BY DEF LeaseStays
  <2>1. "book" \in Kinds
    BY DEF Kinds
  <2>2. CASE k = "book" /\ q = s
    BY <1>1, <2>2
  <2>3. CASE ~(k = "book" /\ q = s)
    BY <1>1, <2>1, <2>3
  <2> QED BY <2>2, <2>3
<1>4. \A j \in Kinds : \A q \in Published(j) : runs'[j][q] = runs[j][q] /\ (j # k \/ q # s)
  BY <1>1 DEF Published
<1> QED BY <1>2, <1>3, <1>4

LEMMA ExpireStep ==
  ASSUME InvA, NEW s \in ScanIds, Expire(s)
  PROVE  InvA' /\ PublishedStays /\ LeaseStays
<1> DEFINE run == runs["book"][s]
           r   == With(run, run.status, run.owner, FALSE)
<1>1. UNCHANGED <<windows, raw, used, listed, steady, job, mart, bundle, unpaid>> /\ "book" \in Kinds
  BY DEF Expire, provider, Kinds
<1>2. run \in RunRows /\ run.status = "running"
  BY <1>1 DEF Expire, InvA, Shapes, Tables, LeasesAreLive
<1>3. r \in RunRows /\ r.live = FALSE /\ r.status = run.status
  <2> HIDE DEF run
  <2>1. run.status \in Statuses /\ run.owner \in Owners \cup {"none"}
    BY <1>2 DEF RunRows
  <2> QED BY <1>2, <2>1 DEF With, RunRows
<1>4. RunBecomes("book", s, r)
  <2>1. runs' = [runs EXCEPT !["book"][s] = r]
    BY DEF Expire
  <2> HIDE DEF r
  <2> QED BY <1>1, <1>3, <2>1, PutRun DEF InvA, Shapes
<1>5. run.status # "published"
  BY <1>2
<1> HIDE DEF r
<1>6. /\ LeasesAreLive' /\ LeaseStays
      /\ \A j \in Kinds : \A q \in Published(j) : runs'[j][q] = runs[j][q]
  BY <1>1, <1>2, <1>3, <1>4, <1>5, RunStep
<1>7. Shapes'
  BY <1>1, <1>4 DEF InvA, Shapes, Tables, Provider, RunBecomes
<1>8. JobIsOpen'
  <2> SUFFICES ASSUME job.pc # "idle" PROVE JobIsOpen'
    BY <1>1 DEF JobIsOpen
  <2>1. job.scan \in ScanIds /\ job.kind \in Kinds
    BY DEF InvA, Shapes, Jobs, JobIsOpen
  <2>2. runs'[job.kind][job.scan].status = runs[job.kind][job.scan].status
    BY <1>3, <1>4, <2>1 DEF RunBecomes
  <2> QED BY <1>1, <2>2 DEF InvA, JobIsOpen, Run
<1>9. PublishedStays
  BY <1>1, <1>6 DEF PublishedStays
<1> QED
  BY <1>1, <1>6, <1>7, <1>8, <1>9 DEF InvA, JobHasWindow, RequestIsPaid, BooksArePaid, Pending

(* A checkpoint of the job: it has its lease, and keeps it.                *)
LEMMA RenewRun ==
  ASSUME InvA, job.pc # "idle", HasLease, NEW status \in {Run.status, "running"}, Renew(status)
  PROVE  /\ \E r \in RunRows : /\ RunBecomes(job.kind, job.scan, r)
                               /\ r.status \in {Run.status, "running"} /\ r.count = Run.count
         /\ LeasesAreLive' /\ LeaseStays
         /\ \A j \in Kinds : \A q \in Published(j) :
              runs'[j][q] = runs[j][q] /\ (j # job.kind \/ q # job.scan)
<1> DEFINE r == With(Run, status, Run.owner, job.kind = "book")
<1>1. job.kind \in Kinds /\ job.scan \in ScanIds
  BY DEF InvA, Shapes, Jobs, JobIsOpen
<1>2. Run \in RunRows /\ Run.status \in {"running", "paused", "failed"} /\ Run = runs[job.kind][job.scan]
  BY <1>1 DEF InvA, Shapes, Tables, JobIsOpen, Run
<1>3. /\ r \in RunRows /\ r.status = status /\ r.owner = Run.owner /\ r.count = Run.count
      /\ r.live = (job.kind = "book")
  BY <1>2 DEF With, RunRows, Statuses
<1>4. RunBecomes(job.kind, job.scan, r)
  <2>1. runs' = [runs EXCEPT ![job.kind][job.scan] = r]
    BY <1>2 DEF Renew
  <2> HIDE DEF r
  <2> QED BY <1>1, <1>3, <2>1, PutRun DEF InvA, Shapes
<1>5. job.kind = "book" => Run.status = "running" /\ Run.owner \in Owners
  BY <1>2 DEF HasLease, InvA, JobIsOpen
<1>6. r.live => job.kind = "book" /\ r.status = "running" /\ r.owner \in Owners
  BY <1>3, <1>5
<1>7. runs[job.kind][job.scan].status # "published"
      /\ (job.kind = "book" /\ r.live /\ runs[job.kind][job.scan].live => r.owner = runs[job.kind][job.scan].owner)
  BY <1>2, <1>3
<1> HIDE DEF r
<1> QED BY <1>1, <1>2, <1>3, <1>4, <1>6, <1>7, RunStep

LEMMA ReserveStep ==
  ASSUME InvA, Reserve
  PROVE  InvA' /\ PublishedStays /\ LeaseStays
<1>1. /\ UNCHANGED <<windows, raw, listed, steady, mart, bundle, unpaid>>
      /\ job.pc = "reserve" /\ HasLease /\ job \in Jobs /\ IsFiniteSet(job.answer)
  BY DEF Reserve, provider, InvA, Shapes
<1>2. CASE ~HasCredit
  <2>1. UNCHANGED <<runs, used>> /\ job' = Stop("paused")
    BY <1>2 DEF Reserve
  <2>2. Tables' /\ LeasesAreLive' /\ PublishedStays /\ LeaseStays
    BY <1>1, <2>1, TablesStay
  <2>3. job' \in Jobs /\ IsFiniteSet(job'.answer) /\ JobIsOpen' /\ JobHasWindow' /\ RequestIsPaid'
    BY <1>1, <2>1, JobMovesOn
  <2>4. Shapes'
    BY <1>1, <2>1, <2>2, <2>3 DEF InvA, Shapes, Provider
  <2> QED BY <1>1, <2>2, <2>3, <2>4 DEF InvA, BooksArePaid
<1>3. CASE HasCredit
  <2>1. used' = used + 1 /\ Renew("running") /\ job' = [job EXCEPT !.pc = "request", !.paid = TRUE]
    BY <1>3 DEF Reserve
  <2>2. /\ job' \in Jobs /\ job'.pc = "request" /\ job'.paid /\ job'.kind = job.kind /\ job'.scan = job.scan
        /\ job'.window = job.window /\ job'.owner = job.owner /\ job'.answer = job.answer
    BY <1>1, <2>1 DEF Jobs, WithWindow
  <2>3. PICK r \in RunRows : RunBecomes(job.kind, job.scan, r) /\ r.status \in {Run.status, "running"}
    BY <1>1, <2>1, RenewRun
  <2>4. /\ LeasesAreLive' /\ LeaseStays
        /\ \A j \in Kinds : \A q \in Published(j) : runs'[j][q] = runs[j][q]
    BY <1>1, <2>1, RenewRun
  <2>5. PublishedStays
    BY <1>1, <2>4 DEF PublishedStays
  <2>6. used' \in 0..Budget
    BY CaptureAssumption, <1>3, <2>1 DEF HasCredit, InvA, Shapes
  <2>7. Shapes'
    BY <1>1, <2>2, <2>3, <2>6 DEF InvA, Shapes, Tables, Provider, RunBecomes
  <2>8. JobIsOpen' /\ JobHasWindow'
    BY <1>1, <2>2, <2>3 DEF InvA, JobIsOpen, JobHasWindow, Run, RunBecomes, WithWindow, Pending
  <2> QED BY <1>1, <2>2, <2>4, <2>5, <2>7, <2>8 DEF InvA, RequestIsPaid, BooksArePaid
<1> QED BY <1>2, <1>3

(* The halves of a window are shorter, and cover it.                       *)
LEMMA HalvesAre ==
  ASSUME NEW w \in WindowRows, w.to - w.from > 1
  PROVE  \E mid \in Nat :
           /\ w.from < mid /\ mid < w.to
           /\ Halves(w) = {Part(w, w.from, mid), Part(w, mid, w.to)} /\ Halves(w) \subseteq WindowRows
<1> DEFINE mid == (w.from + w.to) \div 2
<1>1. w.from \in Nat /\ w.to \in Nat /\ w.depth \in Nat /\ w.token \in Tokens
  BY DEF WindowRows
<1>2. mid \in Nat /\ w.from < mid /\ mid < w.to
  BY <1>1
<1>3. Halves(w) = {Part(w, w.from, mid), Part(w, mid, w.to)}
  BY DEF Halves
<1> HIDE DEF mid
<1>4. Part(w, w.from, mid) \in WindowRows /\ Part(w, mid, w.to) \in WindowRows
  BY <1>1, <1>2 DEF Part, WindowRows
<1> QED BY <1>2, <1>3, <1>4

(* The windows of the scan after the job's own is split or done.           *)
Divided(ws) ==
  (ws \ job.window) \cup {[Window EXCEPT !.status = "split"]}
    \cup {h \in Halves(Window) : ~\E v \in ws : v.token = h.token /\ v.from = h.from /\ v.to = h.to}

Settled == [Window EXCEPT !.status = IF job.answer = {} THEN "empty" ELSE "loaded", !.seen = job.answer]

LEMMA SplitIs ==
  ASSUME InvA, Split
  PROVE  /\ InvA' /\ PublishedStays /\ LeaseStays
         /\ UNCHANGED <<raw, listed, steady, mart, bundle>>
         /\ \/ UNCHANGED <<runs, windows>> /\ job' = Stop("failed")
            \/ /\ Window.to - Window.from > 1 /\ job' = GoesOn
               /\ \E r \in RunRows : RunBecomes(job.kind, job.scan, r) /\ r.status \in {Run.status, "running"}
               /\ WindowsBecome(job.kind, job.scan, Divided(windows[job.kind][job.scan]))
<1>1. /\ UNCHANGED <<used, raw, listed, steady, mart, bundle, unpaid>>
      /\ job.pc = "split" /\ HasLease /\ job \in Jobs /\ job.scan \in ScanIds /\ job.kind \in Kinds
  BY DEF Split, provider, InvA, Shapes, JobIsOpen, Jobs
<1>2. job.window = {Window} /\ Window \in Pending /\ Window \in WindowRows
  BY <1>1, WindowIs DEF WithWindow
<1>3. CASE Window.to - Window.from <= 1
  <2>1. UNCHANGED <<runs, windows>> /\ job' = Stop("failed")
    BY <1>3 DEF Split
  <2>2. Tables' /\ LeasesAreLive' /\ PublishedStays /\ LeaseStays
    BY <1>1, <2>1, TablesStay
  <2>3. job' \in Jobs /\ IsFiniteSet(job'.answer) /\ JobIsOpen' /\ JobHasWindow' /\ RequestIsPaid'
    BY <1>1, <2>1, JobMovesOn
  <2>4. Shapes'
    BY <1>1, <2>1, <2>2, <2>3 DEF InvA, Shapes, Provider
  <2> QED BY <1>1, <2>1, <2>2, <2>3, <2>4 DEF InvA, BooksArePaid
<1>4. CASE ~(Window.to - Window.from <= 1)
  <2> DEFINE ws == windows[job.kind][job.scan]
             split == [Window EXCEPT !.status = "split"]
  <2>1. Window.to - Window.from > 1
    BY <1>2, <1>4 DEF WindowRows
  <2>2. Renew(Run.status) /\ job' = GoesOn /\ windows' = [windows EXCEPT ![job.kind][job.scan] = Divided(ws)]
    BY <1>4 DEF Split, Divided
  <2>3. Divided(ws) \in SUBSET WindowRows
    <3>1. ws \in SUBSET WindowRows
      BY <1>1 DEF InvA, Shapes, Tables
    <3>2. split \in WindowRows
      BY <1>2 DEF WindowRows
    <3>3. Halves(Window) \in SUBSET WindowRows
      BY <1>2, <2>1, HalvesAre
    <3> QED BY <3>1, <3>2, <3>3 DEF Divided
  <2>4. WindowsBecome(job.kind, job.scan, Divided(ws))
    <3> HIDE DEF ws
    <3> QED BY <1>1, <2>2, <2>3, PutWindows DEF InvA, Shapes
  <2>5. PICK r \in RunRows : RunBecomes(job.kind, job.scan, r) /\ r.status \in {Run.status, "running"}
    BY <1>1, <2>2, RenewRun
  <2>6. /\ LeasesAreLive' /\ LeaseStays
        /\ \A j \in Kinds : \A q \in Published(j) :
             runs'[j][q] = runs[j][q] /\ (j # job.kind \/ q # job.scan)
    BY <1>1, <2>2, RenewRun
  <2>7. PublishedStays
    BY <1>1, <2>4, <2>6 DEF PublishedStays, WindowsBecome, Published
  <2>8. job' \in Jobs /\ job'.answer = {} /\ job'.pc = "next" /\ job'.kind = job.kind
        /\ job'.scan = job.scan /\ job'.owner = job.owner
    BY <1>1, <2>2 DEF GoesOn, At, Jobs
  <2>9. Shapes'
    BY <1>1, <2>4, <2>5, <2>8, FS_EmptySet DEF InvA, Shapes, Tables, Provider, RunBecomes, WindowsBecome
  <2>10. JobIsOpen' /\ JobHasWindow' /\ RequestIsPaid'
    BY <1>1, <2>5, <2>8 DEF InvA, JobIsOpen, JobHasWindow, RequestIsPaid, Run, RunBecomes, WithWindow
  <2>11. InvA' /\ PublishedStays /\ LeaseStays
    BY <1>1, <2>6, <2>7, <2>9, <2>10 DEF InvA, BooksArePaid
  <2>12. \E t \in RunRows : RunBecomes(job.kind, job.scan, t) /\ t.status \in {Run.status, "running"}
    BY <2>5
  <2> QED BY <1>1, <2>1, <2>2, <2>4, <2>11, <2>12
<1> QED BY <1>3, <1>4

LEMMA CompleteIs ==
  ASSUME InvA, CompleteWindow
  PROVE  /\ InvA' /\ PublishedStays /\ LeaseStays
         /\ UNCHANGED <<raw, listed, steady, mart, bundle>> /\ job' = GoesOn
         /\ \E r \in RunRows : RunBecomes(job.kind, job.scan, r) /\ r.status \in {Run.status, "running"}
         /\ WindowsBecome(job.kind, job.scan, (windows[job.kind][job.scan] \ {Window}) \cup {Settled})
<1>1. /\ UNCHANGED <<used, raw, listed, steady, mart, bundle, unpaid>>
      /\ job.pc = "complete" /\ HasLease /\ job \in Jobs /\ job.scan \in ScanIds /\ job.kind \in Kinds
  BY DEF CompleteWindow, provider, InvA, Shapes, JobIsOpen, Jobs
<1>2. job.window = {Window} /\ Window \in Pending /\ Window \in WindowRows
  BY <1>1, WindowIs DEF WithWindow
<1> DEFINE ws == windows[job.kind][job.scan]
           new == (ws \ {Window}) \cup {Settled}
<1>3. Renew(Run.status) /\ job' = GoesOn /\ windows' = [windows EXCEPT ![job.kind][job.scan] = new]
  BY <1>2 DEF CompleteWindow, Settled
<1>4. new \in SUBSET WindowRows
  <2>1. ws \in SUBSET WindowRows
    BY <1>1 DEF InvA, Shapes, Tables
  <2>2. Settled \in WindowRows
    BY <1>1, <1>2 DEF Settled, WindowRows, Jobs
  <2> QED BY <2>1, <2>2
<1>5. WindowsBecome(job.kind, job.scan, new)
  <2> HIDE DEF new
  <2> QED BY <1>1, <1>3, <1>4, PutWindows DEF InvA, Shapes
<1>6. PICK r \in RunRows : RunBecomes(job.kind, job.scan, r) /\ r.status \in {Run.status, "running"}
  BY <1>1, <1>3, RenewRun
<1>7. /\ LeasesAreLive' /\ LeaseStays
      /\ \A j \in Kinds : \A q \in Published(j) : runs'[j][q] = runs[j][q] /\ (j # job.kind \/ q # job.scan)
  BY <1>1, <1>3, RenewRun
<1>8. PublishedStays
  BY <1>1, <1>5, <1>7 DEF PublishedStays, WindowsBecome, Published
<1>9. job' \in Jobs /\ job'.answer = {} /\ job'.pc = "next" /\ job'.kind = job.kind
      /\ job'.scan = job.scan /\ job'.owner = job.owner
  BY <1>1, <1>3 DEF GoesOn, At, Jobs
<1>10. Shapes'
  BY <1>1, <1>5, <1>6, <1>9, FS_EmptySet DEF InvA, Shapes, Tables, Provider, RunBecomes, WindowsBecome
<1>11. JobIsOpen' /\ JobHasWindow' /\ RequestIsPaid'
  BY <1>1, <1>6, <1>9 DEF InvA, JobIsOpen, JobHasWindow, RequestIsPaid, Run, RunBecomes, WithWindow
<1>12. InvA' /\ PublishedStays /\ LeaseStays
  BY <1>1, <1>7, <1>8, <1>10, <1>11 DEF InvA, BooksArePaid
<1>13. \E t \in RunRows : RunBecomes(job.kind, job.scan, t) /\ t.status \in {Run.status, "running"}
  BY <1>6
<1> QED BY <1>1, <1>3, <1>5, <1>12, <1>13

LEMMA EarliestIsThere ==
  ASSUME NEW is \in SUBSET Items, is # {}
  PROVE  (CHOOSE i \in is : \A j \in is : i.at < j.at \/ (i.at = j.at /\ i.id <= j.id)) \in is
<1>0. \A i \in is : i.at \in Nat /\ i.id \in Nat
  BY CaptureAssumption DEF Items
<1>1. PICK a \in is : \A j \in is : a.at <= j.at
  <2> DEFINE S == {i.at : i \in is}
  <2>1. S \in SUBSET Nat /\ S # {}
    BY <1>0
  <2>2. PICK d \in S : \A e \in S : d <= e
    <3> HIDE DEF S
    <3> QED BY <2>1, Smallest
  <2> QED BY <2>2
<1>2. PICK b \in is : b.at = a.at /\ \A j \in is : j.at = a.at => b.id <= j.id
  <2> DEFINE S == {i.id : i \in {j \in is : j.at = a.at}}
  <2>1. S \in SUBSET Nat /\ S # {}
    BY <1>0
  <2>2. PICK d \in S : \A e \in S : d <= e
    <3> HIDE DEF S
    <3> QED BY <2>1, Smallest
  <2> QED BY <2>2
<1>3. \A j \in is : b.at < j.at \/ (b.at = j.at /\ b.id <= j.id)
  BY <1>0, <1>1, <1>2
<1> QED BY <1>3

(* Only the rows of the job's scan change, and they stay finitely many.    *)
LEMMA RowsStep ==
  ASSUME InvA, job.pc = "rows", NEW rows \in SUBSET RawRows, IsFiniteSet(rows),
         RowsBecome(job.kind, job.scan, rows), UNCHANGED <<runs, windows>>
  PROVE  Tables' /\ LeasesAreLive' /\ PublishedStays /\ LeaseStays
<1>1. Tables'
  <2>1. \A k \in Kinds : \A s \in ScanIds : IsFiniteSet(raw'[k][s])
    <3> SUFFICES ASSUME NEW k \in Kinds, NEW s \in ScanIds PROVE IsFiniteSet(raw'[k][s])
      OBVIOUS
    <3>1. IsFiniteSet(raw[k][s])
      BY DEF InvA, Shapes, Tables
    <3>2. CASE k = job.kind /\ s = job.scan
      BY <3>2 DEF RowsBecome
    <3>3. CASE ~(k = job.kind /\ s = job.scan)
      BY <3>1, <3>3 DEF RowsBecome
    <3> QED BY <3>2, <3>3
  <2> QED BY <2>1 DEF InvA, Shapes, Tables, RowsBecome
<1>2. LeasesAreLive' /\ LeaseStays
  BY DEF InvA, LeasesAreLive, LeaseStays
<1>3. PublishedStays
  <2>1. Run.status # "published" /\ job.kind \in Kinds /\ job.scan \in ScanIds
    BY DEF InvA, Shapes, Jobs, JobIsOpen
  <2> QED BY <2>1 DEF PublishedStays, RowsBecome, Published, Run
<1> QED BY <1>1, <1>2, <1>3

LEMMA MergeIs ==
  ASSUME InvA, MergeBooks
  PROVE  /\ InvA' /\ PublishedStays /\ LeaseStays
         /\ UNCHANGED <<runs, windows, listed, steady, mart, bundle>>
         /\ job.pc = "rows" /\ job' = [job EXCEPT !.pc = "complete"]
         /\ RowsBecome(job.kind, job.scan, {r \in raw[job.kind][job.scan] : r.item \notin job.answer}
                                             \cup {Row(i) : i \in job.answer})
<1>1. /\ UNCHANGED <<used, runs, windows, listed, steady, mart, bundle, unpaid>>
      /\ job.pc = "rows" /\ job.kind = "book" /\ job.kind \in Kinds /\ job.scan \in ScanIds
      /\ job \in Jobs /\ IsFiniteSet(job.answer)
  BY DEF MergeBooks, provider, InvA, Shapes, JobIsOpen, Jobs
<1> DEFINE old  == {r \in raw[job.kind][job.scan] : r.item \notin job.answer}
           new  == {Row(i) : i \in job.answer}
           rows == old \cup new
<1>2. \A i \in job.answer : Row(i) \in RawRows
  <2> TAKE i \in job.answer
  <2>1. Place(job.answer, i) \in Nat
    <3> DEFINE S == {j \in job.answer : j.at < i.at \/ (j.at = i.at /\ j.id < i.id)}
    <3>1. S \in SUBSET job.answer
      OBVIOUS
    <3>2. IsFiniteSet(S)
      BY <1>1, <3>1, FS_Subset
    <3>3. Cardinality(S) \in Nat
      BY <3>2, FS_CardinalityType
    <3> QED BY <3>3 DEF Place
  <2>2. i \in Items
    BY <1>1 DEF Jobs
  <2> QED BY <2>1, <2>2 DEF Row, RawRows
<1>3. IsFiniteSet(new)
  <2> DEFINE f == [i \in job.answer |-> Row(i)]
  <2>1. f \in [job.answer -> new] /\ \A r \in new : \E i \in job.answer : f[i] = r
    OBVIOUS
  <2> HIDE DEF f, new
  <2>2. f \in Surjection(job.answer, new)
    BY <2>1 DEF Surjection
  <2> QED BY <1>1, <2>2, FS_Surjection
<1>4. raw[job.kind][job.scan] \in SUBSET RawRows /\ IsFiniteSet(raw[job.kind][job.scan])
  BY <1>1 DEF InvA, Shapes, Tables
<1>5. old \in SUBSET RawRows /\ IsFiniteSet(old)
  <2>1. old \in SUBSET raw[job.kind][job.scan]
    OBVIOUS
  <2> HIDE DEF old
  <2> QED BY <1>4, <2>1, FS_Subset
<1>6. rows \in SUBSET RawRows /\ IsFiniteSet(rows)
  <2>1. new \in SUBSET RawRows
    BY <1>2
  <2> HIDE DEF old, new
  <2> QED BY <1>3, <1>5, <2>1, FS_Union
<1>7. raw' = [raw EXCEPT ![job.kind][job.scan] = rows] /\ job' = [job EXCEPT !.pc = "complete"]
  BY <1>1 DEF MergeBooks
<1>8. RowsBecome(job.kind, job.scan, rows)
  <2> HIDE DEF rows
  <2> QED BY <1>1, <1>6, <1>7, PutRows DEF InvA, Shapes
<1>9. Tables' /\ LeasesAreLive' /\ PublishedStays /\ LeaseStays
  <2> HIDE DEF rows
  <2> QED BY <1>1, <1>6, <1>8, RowsStep
<1>10. /\ job' \in Jobs /\ job'.pc = "complete" /\ job'.kind = job.kind /\ job'.scan = job.scan
       /\ job'.owner = job.owner /\ job'.window = job.window /\ job'.answer = job.answer
  BY <1>1, <1>7 DEF Jobs, WithWindow
<1>11. Shapes'
  BY <1>1, <1>9, <1>10 DEF InvA, Shapes, Provider
<1>12. JobIsOpen' /\ JobHasWindow' /\ RequestIsPaid'
  BY <1>1, <1>10 DEF InvA, JobIsOpen, JobHasWindow, RequestIsPaid, Run, WithWindow, Pending
<1> QED BY <1>1, <1>7, <1>8, <1>9, <1>11, <1>12 DEF InvA, BooksArePaid

LEMMA InsertIs ==
  ASSUME InvA, InsertTrade
  PROVE  /\ InvA' /\ PublishedStays /\ LeaseStays
         /\ UNCHANGED <<runs, windows, listed, steady, mart, bundle>>
         /\ job.pc = "rows" /\ job.kind = "trade"
         /\ \/ /\ job.answer \subseteq Rows("trade", job.scan)
               /\ UNCHANGED raw /\ job' = [job EXCEPT !.pc = "complete"]
            \/ UNCHANGED raw /\ job' = Stop("failed")
            \/ /\ UNCHANGED job
               /\ \E r \in RawRows : RowsBecome("trade", job.scan, raw["trade"][job.scan] \cup {r})
<1>1. /\ UNCHANGED <<used, runs, windows, listed, steady, mart, bundle, unpaid>>
      /\ job.pc = "rows" /\ job.kind = "trade" /\ job.kind \in Kinds /\ job.scan \in ScanIds
      /\ job \in Jobs /\ IsFiniteSet(job.answer)
  BY DEF InsertTrade, provider, InvA, Shapes, JobIsOpen, Jobs
<1> DEFINE missing == {i \in job.answer : ~\E r \in raw["trade"][job.scan] : r.item = i}
           next    == CHOOSE i \in missing : \A j \in missing : i.at < j.at \/ (i.at = j.at /\ i.id <= j.id)
<1>2. CASE missing = {}
  <2>1. UNCHANGED raw /\ job' = [job EXCEPT !.pc = "complete"]
    BY <1>2 DEF InsertTrade
  <2>2. job.answer \subseteq Rows("trade", job.scan)
    BY <1>2 DEF Rows
  <2>3. Tables' /\ LeasesAreLive' /\ PublishedStays /\ LeaseStays
    BY <1>1, <2>1, TablesStay
  <2>4. /\ job' \in Jobs /\ job'.pc = "complete" /\ job'.kind = job.kind /\ job'.scan = job.scan
        /\ job'.owner = job.owner /\ job'.window = job.window /\ job'.answer = job.answer
    BY <1>1, <2>1 DEF Jobs, WithWindow
  <2>5. Shapes'
    BY <1>1, <2>3, <2>4 DEF InvA, Shapes, Provider
  <2>6. JobIsOpen' /\ JobHasWindow' /\ RequestIsPaid'
    BY <1>1, <2>4 DEF InvA, JobIsOpen, JobHasWindow, RequestIsPaid, Run, WithWindow, Pending
  <2> QED BY <1>1, <2>1, <2>2, <2>3, <2>5, <2>6 DEF InvA, BooksArePaid
<1>3. CASE missing # {} /\ job' = Stop("failed") /\ UNCHANGED raw
  <2>1. Tables' /\ LeasesAreLive' /\ PublishedStays /\ LeaseStays
    BY <1>1, <1>3, TablesStay
  <2>2. job' \in Jobs /\ IsFiniteSet(job'.answer) /\ JobIsOpen' /\ JobHasWindow' /\ RequestIsPaid'
    BY <1>1, <1>3, JobMovesOn
  <2>3. Shapes'
    BY <1>1, <2>1, <2>2 DEF InvA, Shapes, Provider
  <2> QED BY <1>1, <1>3, <2>1, <2>2, <2>3 DEF InvA, BooksArePaid
<1>4. CASE /\ missing # {} /\ UNCHANGED job
           /\ raw' = [raw EXCEPT !["trade"][job.scan] = @ \cup {[item |-> next, place |-> 0]}]
  <2>1. next \in Items
    <3>1. missing \in SUBSET Items
      BY <1>1 DEF Jobs
    <3> HIDE DEF missing
    <3>2. next \in missing
      BY <1>4, <3>1, EarliestIsThere
    <3> QED BY <3>1, <3>2
  <2> DEFINE row  == [item |-> next, place |-> 0]
             rows == raw["trade"][job.scan] \cup {row}
  <2>2. row \in RawRows
    <3> HIDE DEF next
    <3> QED BY <2>1 DEF RawRows
  <2>3. raw' = [raw EXCEPT !["trade"][job.scan] = rows]
    BY <1>4
  <2> HIDE DEF row
  <2>4. rows \in SUBSET RawRows /\ IsFiniteSet(rows)
    <3>1. raw["trade"][job.scan] \in SUBSET RawRows /\ IsFiniteSet(raw["trade"][job.scan])
      BY <1>1 DEF InvA, Shapes, Tables
    <3> QED BY <2>2, <3>1, FS_AddElement
  <2>5. RowsBecome(job.kind, job.scan, rows)
    <3>1. raw' = [raw EXCEPT ![job.kind][job.scan] = rows]
      BY <1>1, <2>3
    <3> HIDE DEF rows
    <3> QED BY <1>1, <2>4, <3>1, PutRows DEF InvA, Shapes
  <2>6. Tables' /\ LeasesAreLive' /\ PublishedStays /\ LeaseStays
    <3> HIDE DEF rows
    <3> QED BY <1>1, <2>4, <2>5, RowsStep
  <2>7. Shapes'
    BY <1>1, <1>4, <2>6 DEF InvA, Shapes, Provider
  <2>8. JobIsOpen' /\ JobHasWindow' /\ RequestIsPaid'
    BY <1>1, <1>4 DEF InvA, JobIsOpen, JobHasWindow, RequestIsPaid, Run, Pending
  <2>9. \E r \in RawRows : RowsBecome("trade", job.scan, raw["trade"][job.scan] \cup {r})
    BY <1>1, <2>2, <2>5
  <2> QED BY <1>1, <1>4, <2>6, <2>7, <2>8, <2>9 DEF InvA, BooksArePaid
<1> QED
  <2>1. CASE missing # {} /\ \E i \in {r.item : r \in raw["trade"][job.scan]} : i.token = next.token /\ i.id = next.id
    BY <1>3, <2>1 DEF InsertTrade
  <2>2. CASE missing # {} /\ ~\E i \in {r.item : r \in raw["trade"][job.scan]} : i.token = next.token /\ i.id = next.id
    BY <1>4, <2>2 DEF InsertTrade
  <2> HIDE DEF missing, next
  <2> QED BY <1>2, <2>1, <2>2

LEMMA ScansAreFinite ==
  ASSUME NEW S \in SUBSET ScanIds
  PROVE  IsFiniteSet(S) /\ Cardinality(S) \in Nat /\ Cardinality(S) <= MaxScans
<1>1. MaxScans \in Nat
  BY CaptureAssumption
<1>2. IsFiniteSet(ScanIds) /\ Cardinality(ScanIds) = MaxScans
  BY <1>1, FS_Interval DEF ScanIds
<1>3. IsFiniteSet(S) /\ Cardinality(S) <= Cardinality(ScanIds)
  BY <1>2, FS_Subset
<1> QED BY <1>2, <1>3, FS_CardinalityType

LEMMA PublishIs ==
  ASSUME InvA, Publish
  PROVE  /\ InvA' /\ PublishedStays /\ LeaseStays
         /\ UNCHANGED <<raw, windows, listed, steady, mart, bundle>> /\ job.pc = "publish"
         /\ \/ UNCHANGED runs /\ job' = Stop("failed")
            \/ /\ IsSound(job.kind, job.scan) /\ job' = Idle
               /\ \E r \in RunRows : /\ RunBecomes(job.kind, job.scan, r) /\ r.status = "published"
                                     /\ r.count = Cardinality(raw[job.kind][job.scan])
<1>1. /\ UNCHANGED <<used, raw, windows, listed, steady, mart, bundle, unpaid>>
      /\ job.pc = "publish" /\ job \in Jobs /\ job.scan \in ScanIds /\ job.kind \in Kinds
  BY DEF Publish, provider, InvA, Shapes, JobIsOpen, Jobs
<1>2. CASE ~IsSound(job.kind, job.scan)
  <2>1. UNCHANGED runs /\ job' = Stop("failed")
    BY <1>2 DEF Publish
  <2>2. Tables' /\ LeasesAreLive' /\ PublishedStays /\ LeaseStays
    BY <1>1, <2>1, TablesStay
  <2>3. job' \in Jobs /\ IsFiniteSet(job'.answer) /\ JobIsOpen' /\ JobHasWindow' /\ RequestIsPaid'
    BY <1>1, <2>1, JobMovesOn
  <2>4. Shapes'
    BY <1>1, <2>1, <2>2, <2>3 DEF InvA, Shapes, Provider
  <2> QED BY <1>1, <2>1, <2>2, <2>3, <2>4 DEF InvA, BooksArePaid
<1>3. CASE IsSound(job.kind, job.scan)
  <2> DEFINE r == [status |-> "published", owner |-> "none", live |-> FALSE,
                   finished |-> Finished(job.kind), count |-> Cardinality(raw[job.kind][job.scan])]
  <2>1. runs' = [runs EXCEPT ![job.kind][job.scan] = r] /\ job' = Idle
    BY <1>3 DEF Publish
  <2>2. r \in RunRows
    <3>1. Cardinality(raw[job.kind][job.scan]) \in Nat
      BY <1>1, FS_CardinalityType DEF InvA, Shapes, Tables
    <3>2. Published(job.kind) \in SUBSET ScanIds
      BY DEF Published
    <3>3. Finished(job.kind) \in 0..MaxScans + 1
      BY CaptureAssumption, <3>2, ScansAreFinite DEF Finished
    <3> QED BY <3>1, <3>3 DEF RunRows, Statuses
  <2>3. r.status = "published" /\ r.live = FALSE /\ r.count = Cardinality(raw[job.kind][job.scan])
    OBVIOUS
  <2> HIDE DEF r
  <2>4. RunBecomes(job.kind, job.scan, r)
    BY <1>1, <2>1, <2>2, PutRun DEF InvA, Shapes
  <2>5. runs[job.kind][job.scan].status # "published"
    BY <1>1 DEF InvA, JobIsOpen, Run
  <2>6. /\ LeasesAreLive' /\ LeaseStays
        /\ \A j \in Kinds : \A q \in Published(j) :
             runs'[j][q] = runs[j][q] /\ (j # job.kind \/ q # job.scan)
    BY <1>1, <2>2, <2>3, <2>4, <2>5, RunStep
  <2>7. PublishedStays
    BY <1>1, <2>6 DEF PublishedStays
  <2>8. job' \in Jobs /\ job'.answer = {} /\ job'.pc = "idle"
    BY CaptureAssumption, <2>1 DEF Idle, At, Jobs, Kinds
  <2>9. Shapes'
    BY <1>1, <2>4, <2>8, FS_EmptySet DEF InvA, Shapes, Tables, Provider, RunBecomes
  <2>10. JobIsOpen' /\ JobHasWindow' /\ RequestIsPaid'
    BY <2>8 DEF JobIsOpen, JobHasWindow, RequestIsPaid, WithWindow
  <2>11. InvA' /\ PublishedStays /\ LeaseStays
    BY <1>1, <2>6, <2>7, <2>9, <2>10 DEF InvA, BooksArePaid
  <2> QED BY <1>1, <1>3, <2>1, <2>2, <2>3, <2>4, <2>11
<1> QED BY <1>2, <1>3

LEMMA SetStatusIs ==
  ASSUME InvA, SetStatus
  PROVE  /\ InvA' /\ PublishedStays /\ LeaseStays
         /\ UNCHANGED <<raw, windows, listed, steady, mart, bundle>> /\ job.pc = "stop" /\ job' = Idle
         /\ \/ UNCHANGED runs
            \/ \E r \in RunRows : RunBecomes(job.kind, job.scan, r) /\ r.status \in {"paused", "failed"}
<1>1. /\ UNCHANGED <<used, raw, windows, listed, steady, mart, bundle, unpaid>>
      /\ job.pc = "stop" /\ job' = Idle /\ job \in Jobs /\ job.scan \in ScanIds /\ job.kind \in Kinds
      /\ job.reason \in {"paused", "failed"}
  BY DEF SetStatus, provider, InvA, Shapes, JobIsOpen, Jobs
<1>2. job' \in Jobs /\ job'.answer = {} /\ job'.pc = "idle"
  BY CaptureAssumption, <1>1 DEF Idle, At, Jobs, Kinds
<1>3. JobIsOpen' /\ JobHasWindow' /\ RequestIsPaid'
  BY <1>2 DEF JobIsOpen, JobHasWindow, RequestIsPaid, WithWindow
<1>4. CASE UNCHANGED runs
  <2>1. Tables' /\ LeasesAreLive' /\ PublishedStays /\ LeaseStays
    BY <1>1, <1>4, TablesStay
  <2>2. Shapes'
    BY <1>1, <1>2, <2>1, FS_EmptySet DEF InvA, Shapes, Provider
  <2> QED BY <1>1, <1>3, <1>4, <2>1, <2>2 DEF InvA, BooksArePaid
<1>5. CASE runs' = [runs EXCEPT ![job.kind][job.scan] = With(@, job.reason, "none", FALSE)]
  <2> DEFINE r == With(Run, job.reason, "none", FALSE)
  <2>1. runs' = [runs EXCEPT ![job.kind][job.scan] = r]
    BY <1>5 DEF Run
  <2>2. Run \in RunRows
    BY <1>1 DEF InvA, Shapes, Tables, Run
  <2>3. r \in RunRows /\ r.status \in {"paused", "failed"} /\ r.live = FALSE
    BY <1>1, <2>2 DEF With, RunRows, Statuses
  <2> HIDE DEF r
  <2>4. RunBecomes(job.kind, job.scan, r)
    BY <1>1, <2>1, <2>3, PutRun DEF InvA, Shapes
  <2>5. runs[job.kind][job.scan].status # "published"
    BY <1>1 DEF InvA, JobIsOpen, Run
  <2>6. /\ LeasesAreLive' /\ LeaseStays
        /\ \A j \in Kinds : \A q \in Published(j) :
             runs'[j][q] = runs[j][q] /\ (j # job.kind \/ q # job.scan)
    BY <1>1, <2>3, <2>4, <2>5, RunStep
  <2>7. PublishedStays
    BY <1>1, <2>6 DEF PublishedStays
  <2>8. Shapes'
    BY <1>1, <1>2, <2>4, FS_EmptySet DEF InvA, Shapes, Tables, Provider, RunBecomes
  <2>9. InvA' /\ PublishedStays /\ LeaseStays
    BY <1>1, <1>3, <2>6, <2>7, <2>8 DEF InvA, BooksArePaid
  <2> QED BY <1>1, <2>3, <2>4, <2>9
<1> QED BY <1>4, <1>5 DEF SetStatus

LEMMA LatestIs ==
  ASSUME Tables, NEW k \in Kinds, Published(k) # {}
  PROVE  Latest(k) \in Published(k)
<1> DEFINE n == MaxScans + 1
           S == {n - runs[k][s].finished : s \in Published(k)}
<1>0. n \in Nat /\ \A s \in Published(k) : runs[k][s].finished \in 0..n
  BY CaptureAssumption DEF Tables, Published, RunRows
<1>1. S \in SUBSET Nat /\ S # {}
  <2>1. \A s \in Published(k) : n - runs[k][s].finished \in Nat
    BY <1>0
  <2> HIDE DEF n
  <2> QED BY <2>1
<1>2. PICK x \in S : \A y \in S : x <= y
  <2> HIDE DEF S
  <2> QED BY <1>1, Smallest
<1>3. PICK s \in Published(k) : x = n - runs[k][s].finished
  BY <1>2
<1>4. \A r \in Published(k) : runs[k][r].finished <= runs[k][s].finished
  <2> TAKE r \in Published(k)
  <2>1. n - runs[k][r].finished \in S
    OBVIOUS
  <2>2. n - runs[k][s].finished <= n - runs[k][r].finished
    BY <1>2, <1>3, <2>1
  <2> HIDE DEF n
  <2> QED BY <1>0, <2>2
<1> QED BY <1>4 DEF Latest

LEMMA BeginIs ==
  ASSUME InvA, job.pc = "idle", NEW k \in Kinds, NEW s \in ScanIds, NEW o \in Owners \cup {"none"},
         k = "book" => o \in Owners, runs[k][s].status # "published",
         k = "book" /\ runs[k][s].live => runs[k][s].owner = o, Begin(k, o, s)
  PROVE  /\ InvA' /\ PublishedStays /\ LeaseStays
         /\ UNCHANGED <<raw, listed, mart, bundle>> /\ job'.pc = "next"
         /\ \E r \in RunRows : RunBecomes(k, s, r) /\ r.status = "running"
         /\ \/ runs[k][s].status # "none" /\ UNCHANGED <<windows, steady>>
            \/ /\ WindowsBecome(k, s, Roots) /\ steady' = [steady EXCEPT ![k][s] = listed[k]]
<1> DEFINE run == runs[k][s]
           r   == With(run, "running", IF k = "book" THEN o ELSE run.owner, k = "book")
<1>1. UNCHANGED <<used, raw, listed, mart, bundle, unpaid>> /\ job' = At("next", k, o, s, "none")
  BY DEF Begin, provider
<1>2. run \in RunRows
  BY DEF InvA, Shapes, Tables
<1>3. /\ r \in RunRows /\ r.status = "running" /\ (r.live => k = "book" /\ r.owner = o)
  BY <1>2 DEF With, RunRows, Statuses
<1>4. RunBecomes(k, s, r)
  <2>1. runs' = [runs EXCEPT ![k][s] = r]
    BY DEF Begin
  <2> HIDE DEF r
  <2> QED BY <1>3, <2>1, PutRun DEF InvA, Shapes
<1> HIDE DEF r
<1>5. /\ LeasesAreLive' /\ LeaseStays
      /\ \A j \in Kinds : \A q \in Published(j) : runs'[j][q] = runs[j][q] /\ (j # k \/ q # s)
  BY <1>3, <1>4, RunStep
<1>6. \/ run.status # "none" /\ UNCHANGED <<windows, steady>>
      \/ WindowsBecome(k, s, Roots) /\ steady' = [steady EXCEPT ![k][s] = listed[k]]
  <2>1. Roots \in SUBSET WindowRows
    BY CaptureAssumption DEF Roots, WindowRows
  <2>2. CASE run.status = "none"
    <3>1. windows' = [windows EXCEPT ![k][s] = Roots] /\ steady' = [steady EXCEPT ![k][s] = listed[k]]
      BY <2>2 DEF Begin
    <3> QED BY <2>1, <3>1, PutWindows DEF InvA, Shapes
  <2>3. CASE run.status # "none"
    BY <2>3 DEF Begin
  <2> QED BY <2>2, <2>3
<1>7. windows' \in [Kinds -> [ScanIds -> SUBSET WindowRows]] /\ steady' \in [Kinds -> [ScanIds -> SUBSET Items]]
      /\ \A j \in Kinds : \A q \in Published(j) : windows'[j][q] = windows[j][q]
  <2>1. /\ windows \in [Kinds -> [ScanIds -> SUBSET WindowRows]] /\ steady \in [Kinds -> [ScanIds -> SUBSET Items]]
        /\ listed[k] \in SUBSET Items
    BY DEF InvA, Shapes, Tables, Provider
  <2>2. CASE UNCHANGED <<windows, steady>>
    BY <2>1, <2>2
  <2>3. CASE WindowsBecome(k, s, Roots) /\ steady' = [steady EXCEPT ![k][s] = listed[k]]
    BY <1>5, <2>1, <2>3 DEF WindowsBecome, Published
  <2> QED BY <1>6, <2>2, <2>3
<1>8. PublishedStays
  BY <1>1, <1>5, <1>7 DEF PublishedStays
<1>9. /\ job' \in Jobs /\ job'.answer = {} /\ job'.pc = "next" /\ job'.kind = k /\ job'.scan = s /\ job'.owner = o
  BY CaptureAssumption, <1>1 DEF At, Jobs, ScanIds
<1>10. Shapes'
  BY <1>1, <1>4, <1>7, <1>9, FS_EmptySet DEF InvA, Shapes, Tables, Provider, RunBecomes
<1>11. JobIsOpen' /\ JobHasWindow' /\ RequestIsPaid'
  BY <1>3, <1>4, <1>9 DEF JobIsOpen, JobHasWindow, RequestIsPaid, Run, RunBecomes, WithWindow
<1>12. InvA' /\ PublishedStays /\ LeaseStays
  BY <1>1, <1>5, <1>8, <1>10, <1>11 DEF InvA, BooksArePaid
<1> QED BY <1>1, <1>3, <1>4, <1>6, <1>9, <1>12

LEMMA StartIs ==
  ASSUME InvA, StartTrades \/ \E o \in Owners : \E force \in BOOLEAN : StartBooks(o, force)
  PROVE  /\ InvA' /\ PublishedStays /\ LeaseStays
         /\ UNCHANGED <<raw, listed, mart, bundle>> /\ job'.pc = "next"
         /\ \E k \in Kinds, s \in ScanIds :
              /\ runs[k][s].status # "published"
              /\ \E r \in RunRows : RunBecomes(k, s, r) /\ r.status = "running"
              /\ \/ runs[k][s].status # "none" /\ UNCHANGED <<windows, steady>>
                 \/ /\ WindowsBecome(k, s, Roots) /\ steady' = [steady EXCEPT ![k][s] = listed[k]]
<1>1. PICK k \in Kinds, s \in ScanIds, o \in Owners \cup {"none"} :
        /\ job.pc = "idle" /\ (k = "book" => o \in Owners) /\ runs[k][s].status # "published"
        /\ k = "book" /\ runs[k][s].live => runs[k][s].owner = o
        /\ Begin(k, o, s)
  <2>1. "book" \in Kinds /\ "trade" \in Kinds /\ MaxScans \in Nat
    BY CaptureAssumption DEF Kinds
  <2>2. CASE StartTrades
    <3>1. Latest("book") \in ScanIds
      BY <2>1, <2>2, LatestIs DEF StartTrades, InvA, Shapes, Published
    <3>2. runs["trade"][Latest("book")].status # "published"
      BY <2>2, <3>1 DEF StartTrades, TradesDone, Published
    <3> QED BY <2>1, <2>2, <3>1, <3>2 DEF StartTrades
  <2>3. CASE \E o \in Owners : \E force \in BOOLEAN : StartBooks(o, force)
    <3>1. PICK o \in Owners, force \in BOOLEAN : StartBooks(o, force)
      BY <2>3
    <3>2. CASE Resumable # {} /\ FreeOrOwn(Max(Resumable), o) /\ Begin("book", o, Max(Resumable))
      <4>1. Resumable \in SUBSET 1..MaxScans
        BY DEF Resumable, ScanIds
      <4>2. Max(Resumable) \in Resumable
        BY <2>1, <3>2, <4>1, MaxIs
      <4>3. Max(Resumable) \in ScanIds /\ runs["book"][Max(Resumable)].status # "published"
        BY <4>2 DEF Resumable
      <4> QED BY <2>1, <3>1, <3>2, <4>3 DEF FreeOrOwn, StartBooks
    <3>3. CASE Unused # {} /\ Begin("book", o, Min(Unused))
      <4>1. Unused \in SUBSET Nat
        BY DEF Unused, ScanIds
      <4>2. Min(Unused) \in Unused
        BY <3>3, <4>1, MinIs
      <4>3. Min(Unused) \in ScanIds /\ runs["book"][Min(Unused)].status = "none"
        BY <4>2 DEF Unused
      <4>4. ~runs["book"][Min(Unused)].live
        BY <2>1, <4>3 DEF InvA, LeasesAreLive
      <4> QED BY <2>1, <3>1, <3>3, <4>3, <4>4 DEF StartBooks
    <3> QED BY <3>1, <3>2, <3>3 DEF StartBooks
  <2> QED BY <2>2, <2>3
<1>2. /\ InvA' /\ PublishedStays /\ LeaseStays
      /\ UNCHANGED <<raw, listed, mart, bundle>> /\ job'.pc = "next"
      /\ \E r \in RunRows : RunBecomes(k, s, r) /\ r.status = "running"
      /\ \/ runs[k][s].status # "none" /\ UNCHANGED <<windows, steady>>
         \/ /\ WindowsBecome(k, s, Roots) /\ steady' = [steady EXCEPT ![k][s] = listed[k]]
  BY <1>1, BeginIs
<1> QED BY <1>1, <1>2

LEMMA StutterStep ==
  ASSUME InvA, UNCHANGED vars
  PROVE  InvA' /\ PublishedStays /\ LeaseStays
<1>1. UNCHANGED <<runs, windows, raw, used, listed, steady, job, mart, bundle, unpaid>>
  BY DEF vars, provider, scans
<1>2. Tables' /\ LeasesAreLive' /\ PublishedStays /\ LeaseStays
  BY <1>1, TablesStay
<1>3. Shapes'
  BY <1>1, <1>2 DEF InvA, Shapes, Provider
<1> QED
  BY <1>1, <1>2, <1>3 DEF InvA, JobIsOpen, JobHasWindow, RequestIsPaid, BooksArePaid, Run, Pending

LEMMA StepIsGuarded == InvA /\ [Next]_vars => InvA' /\ PublishedStays /\ LeaseStays
<1> SUFFICES ASSUME InvA, [Next]_vars PROVE InvA' /\ PublishedStays /\ LeaseStays
  OBVIOUS
<1>1. CASE StartTrades \/ \E o \in Owners : \E force \in BOOLEAN : StartBooks(o, force)
  BY <1>1, StartIs
<1>2. CASE \E s \in ScanIds : Expire(s)
  BY <1>2, ExpireStep
<1>3. CASE GammaDrift \/ LeaseLost \/ Crash
  BY <1>3, StopSteps
<1>4. CASE NextWindow
  BY <1>4, NextWindowStep
<1>5. CASE Reserve
  BY <1>5, ReserveStep
<1>6. CASE Request
  BY <1>6, RequestStep
<1>7. CASE Split
  BY <1>7, SplitIs
<1>8. CASE MergeBooks
  BY <1>8, MergeIs
<1>9. CASE InsertTrade
  BY <1>9, InsertIs
<1>10. CASE CompleteWindow
  BY <1>10, CompleteIs
<1>11. CASE Publish
  BY <1>11, PublishIs
<1>12. CASE SetStatus
  BY <1>12, SetStatusIs
<1>13. CASE BuildMart \/ BuildTrades \/ Export
  BY <1>13, MartSteps
<1>14. CASE Change \/ NewMonth
  BY <1>14, ProviderSteps
<1>15. CASE UNCHANGED vars
  BY <1>15, StutterStep
<1> QED
  BY <1>1, <1>2, <1>3, <1>4, <1>5, <1>6, <1>7, <1>8, <1>9, <1>10, <1>11, <1>12, <1>13, <1>14, <1>15
     DEF Next, Job

LEMMA ScansStayGuarded == Spec => []InvA
BY InitIsGuarded, StepIsGuarded, PTL DEF Spec

(* Every order-book request of every run is paid for by the counter of its *)
(* month: reserve_api_attempt runs before each attempt, whatever the       *)
(* number of retries, of runs and of crashes between the two.              *)
THEOREM BooksAreAlwaysPaid == Spec => []BooksArePaid
<1>1. InvA => BooksArePaid
  BY DEF InvA
<1> QED BY <1>1, ScansStayGuarded, PTL

(* What a scan has published is never changed, by whichever process, and   *)
(* a run that takes over a lease waits until it has run out.               *)
THEOREM ScansKeepApart == Spec => ScansAreGuarded
<1>1. InvA /\ [Next]_vars => PublishedStays /\ LeaseStays
  BY StepIsGuarded
<1>2. PublishedStays => \A k \in Kinds : \A s \in Published(k) :
        runs'[k][s] = runs[k][s] /\ windows'[k][s] = windows[k][s] /\ raw'[k][s] = raw[k][s]
  BY DEF PublishedStays
<1>3. LeaseStays => \A s \in ScanIds :
        LET r == runs["book"][s]
        IN r.live /\ runs'["book"][s].live => runs'["book"][s].owner = r.owner
  BY DEF LeaseStays
<1>4. Spec => PublishedIsFinal
  BY <1>1, <1>2, ScansStayGuarded, PTL DEF Spec, PublishedIsFinal
<1>5. Spec => LeaseIsExclusive
  BY <1>1, <1>3, ScansStayGuarded, PTL DEF Spec, LeaseIsExclusive
<1> QED BY <1>4, <1>5 DEF ScansAreGuarded

----------------------------------------------------------------------------
(* What a scan publishes *)

Open == {"running", "paused", "failed"}

(* The windows of a scan stay whole as long as they are the same, no row   *)
(* is lost and no item becomes steady.                                     *)
LEMMA WholeStays ==
  ASSUME NEW k \in Kinds, NEW s \in ScanIds, WindowsAreWhole(k, s),
         windows'[k][s] = windows[k][s], Rows(k, s) \subseteq Rows(k, s)', steady'[k][s] \subseteq steady[k][s],
         runs'[k][s].status # "none" => runs[k][s].status # "none",
         runs'[k][s].status \in Open =>
           (runs[k][s].status \in Open /\ listed'[k] = listed[k]) \/ steady'[k][s] \subseteq listed'[k]
  PROVE  WindowsAreWhole(k, s)'
<1>1. WindowsAreSound(windows[k][s])'
  BY DEF WindowsAreWhole, WindowsAreSound
<1>2. Seen(k, s)' \subseteq Rows(k, s)'
  BY DEF WindowsAreWhole, Seen
<1>3. runs'[k][s].status # "none" =>
        \A t \in Tokens : \E w \in windows'[k][s] : w.token = t /\ w.from = 0 /\ w.to = Span
  BY DEF WindowsAreWhole
<1>4. runs'[k][s].status # "none" =>
        \A v \in windows'[k][s] : \A i \in steady'[k][s] : In(i, v) => Accounts(windows'[k][s], v, i)
  BY DEF WindowsAreWhole
<1>5. runs'[k][s].status \in {"running", "paused", "failed"} => steady'[k][s] \subseteq listed'[k]
  BY DEF WindowsAreWhole, Open
<1> QED BY <1>1, <1>2, <1>3, <1>4, <1>5 DEF WindowsAreWhole

(* What is published stays true while nothing more is published or built.  *)
LEMMA TruthsStay ==
  ASSUME Truths, PublishedStays, UNCHANGED <<mart, bundle>>,
         \A k \in Kinds : Published(k)' \subseteq Published(k),
         \A k \in Kinds : \A s \in Published(k) : steady'[k][s] = steady[k][s]
  PROVE  Truths'
<1>1. \A k \in Kinds : Published(k)' = Published(k)
  BY DEF PublishedStays, Published
<1>2. /\ "book" \in Kinds /\ "trade" \in Kinds
      /\ \A k \in Kinds : \A s \in Published(k) :
           Rows(k, s)' = Rows(k, s) /\ Seen(k, s)' = Seen(k, s) /\ raw'[k][s] = raw[k][s] /\ runs'[k][s] = runs[k][s]
  BY DEF PublishedStays, Kinds, Rows, Seen
<1>3. PublishedIsCounted'
  BY <1>1, <1>2 DEF Truths, PublishedIsCounted
<1>4. MartsAreTrue'
  BY <1>1, <1>2 DEF Truths, MartsAreTrue, NoBundle
<1>5. NothingMissed' /\ PublishedIsExact'
  BY <1>1, <1>2 DEF Truths, NothingMissed, PublishedIsExact
<1>6. BundleIsOneCapture'
  BY <1>1, <1>2 DEF Truths, MartsAreTrue, BundleIsOneCapture, NoBundle
<1> QED BY <1>3, <1>4, <1>5, <1>6 DEF Truths

LEMMA InitIsTrue == Init => InvB
<1> SUFFICES ASSUME Init PROVE InvB
  OBVIOUS
<1>1. ScansAreWhole
  BY DEF Init, ScansAreWhole, WindowsAreWhole, WindowsAreSound, Seen, Rows, NewRun
<1>2. AnswerIsWhole
  BY DEF Init, AnswerIsWhole, Idle, At
<1>3. \A k \in Kinds : Published(k) = {}
  BY DEF Init, Published, NewRun
<1>4. Truths
  BY <1>3 DEF Init, Truths, PublishedIsCounted, MartsAreTrue, NothingMissed, PublishedIsExact,
              BundleIsOneCapture, Kinds, NoMart
<1> QED BY <1>1, <1>2, <1>4 DEF InvB

(* A step that leaves the windows, the rows and the provider as they are,  *)
(* and moves runs only between states before their publication.            *)
LEMMA PlainStep ==
  ASSUME InvA, InvB, PublishedStays, UNCHANGED <<windows, raw, listed, steady>>,
         \A k \in Kinds : \A s \in ScanIds :
           \/ runs'[k][s].status = runs[k][s].status
           \/ runs[k][s].status \in Open /\ runs'[k][s].status \in Open
  PROVE  /\ ScansAreWhole'
         /\ UNCHANGED <<mart, bundle>> => Truths'
<1>1. ScansAreWhole'
  <2> SUFFICES ASSUME NEW k \in Kinds, NEW s \in ScanIds PROVE WindowsAreWhole(k, s)'
    BY DEF ScansAreWhole
  <2>1. WindowsAreWhole(k, s)
    BY DEF InvB, ScansAreWhole
  <2>2. Rows(k, s)' = Rows(k, s)
    BY DEF Rows
  <2> QED BY <2>1, <2>2, WholeStays DEF Open
<1>2. \A k \in Kinds : Published(k)' \subseteq Published(k)
  BY DEF Published, Open
<1>3. UNCHANGED <<mart, bundle>> => Truths'
  BY <1>2, TruthsStay DEF InvB, Published
<1> QED BY <1>1, <1>3

(* The run the job works at goes on, and no other run changes.             *)
LEMMA OwnRun ==
  ASSUME InvA, job.pc # "idle",
         \/ UNCHANGED runs
         \/ \E r \in RunRows : RunBecomes(job.kind, job.scan, r) /\ r.status \in Open
  PROVE  \A k \in Kinds : \A s \in ScanIds :
           \/ runs'[k][s].status = runs[k][s].status
           \/ runs[k][s].status \in Open /\ runs'[k][s].status \in Open
<1>1. job.kind \in Kinds /\ job.scan \in ScanIds /\ runs[job.kind][job.scan].status \in Open
  BY DEF InvA, Shapes, Jobs, JobIsOpen, Run, Open
<1> QED BY <1>1 DEF RunBecomes

LEMMA PlainSteps ==
  ASSUME InvA, InvB, PublishedStays, GammaDrift \/ LeaseLost \/ Crash \/ NextWindow \/ Reserve \/ NewMonth \/ SetStatus
  PROVE  InvB'
<1>1. UNCHANGED <<windows, raw, listed, steady, mart, bundle>>
  BY DEF GammaDrift, LeaseLost, Crash, NextWindow, Reserve, NewMonth, SetStatus, provider, scans
<1>2. \A k \in Kinds : \A s \in ScanIds :
        \/ runs'[k][s].status = runs[k][s].status
        \/ runs[k][s].status \in Open /\ runs'[k][s].status \in Open
  <2>1. CASE UNCHANGED runs
    BY <2>1
  <2>2. CASE ~UNCHANGED runs /\ SetStatus
    <3>1. job.pc # "idle" /\ \E r \in RunRows : RunBecomes(job.kind, job.scan, r) /\ r.status \in {"paused", "failed"}
      BY <2>2, SetStatusIs
    <3>2. \E r \in RunRows : RunBecomes(job.kind, job.scan, r) /\ r.status \in Open
      BY <3>1 DEF Open
    <3> QED BY <3>1, <3>2, OwnRun
  <2>3. CASE Reserve /\ Renew("running")
    <3>1. /\ job.pc # "idle"
          /\ \E r \in RunRows : RunBecomes(job.kind, job.scan, r) /\ r.status \in {Run.status, "running"}
      BY <2>3, RenewRun DEF Reserve
    <3>2. \E r \in RunRows : RunBecomes(job.kind, job.scan, r) /\ r.status \in Open
      BY <3>1 DEF Open, InvA, JobIsOpen
    <3> QED BY <3>1, <3>2, OwnRun
  <2> QED BY <2>1, <2>2, <2>3 DEF GammaDrift, LeaseLost, Crash, NextWindow, Reserve, NewMonth, scans
<1>3. ScansAreWhole' /\ Truths'
  BY <1>1, <1>2, PlainStep
<1>4. AnswerIsWhole'
  <2>1. CASE NewMonth
    BY <1>1, <2>1 DEF NewMonth, scans, InvB, AnswerIsWhole, Pending, Rows
  <2>2. CASE NextWindow
    <3>1. job \in Jobs
      BY DEF InvA, Shapes
    <3>2. /\ job'.pc \in {"publish", "reserve"} /\ job'.kind = job.kind /\ job'.scan = job.scan
          /\ job'.pc = "publish" => Pending = {}
      BY <2>2, <3>1 DEF NextWindow, Jobs
    <3> QED BY <1>1, <3>2 DEF AnswerIsWhole, Pending
  <2>3. CASE GammaDrift \/ LeaseLost \/ Crash \/ SetStatus
    BY <2>3 DEF GammaDrift, LeaseLost, Crash, SetStatus, Stop, Idle, At, AnswerIsWhole
  <2>4. CASE Reserve
    <3>1. job \in Jobs
      BY DEF InvA, Shapes
    <3>2. job'.pc \in {"stop", "request"}
      <4>1. job' = Stop("paused") \/ job' = [job EXCEPT !.pc = "request", !.paid = TRUE]
        BY <2>4 DEF Reserve
      <4>2. CASE job' = Stop("paused")
        BY <4>2 DEF Stop, At
      <4>3. CASE job' = [job EXCEPT !.pc = "request", !.paid = TRUE]
        BY <3>1, <4>3 DEF Jobs
      <4> QED BY <4>1, <4>2, <4>3
    <3> QED BY <3>2 DEF AnswerIsWhole
  <2> QED BY <2>1, <2>2, <2>3, <2>4
<1> QED BY <1>3, <1>4 DEF InvB

LEMMA ExpireIsTrue ==
  ASSUME InvA, InvB, PublishedStays, NEW s \in ScanIds, Expire(s)
  PROVE  InvB'
<1>1. UNCHANGED <<windows, raw, listed, steady, mart, bundle, job>>
  BY DEF Expire, provider
<1>2. \A k \in Kinds : \A q \in ScanIds : runs'[k][q].status = runs[k][q].status
  <2> DEFINE run == runs["book"][s]
             r   == With(run, run.status, run.owner, FALSE)
  <2>1. "book" \in Kinds /\ run \in RunRows /\ Tables
    BY DEF InvA, Shapes, Tables, Kinds
  <2>2. r \in RunRows /\ r.status = run.status
    <3> HIDE DEF run
    <3> QED BY <2>1 DEF With, RunRows
  <2>3. RunBecomes("book", s, r)
    <3>1. runs' = [runs EXCEPT !["book"][s] = r]
      BY DEF Expire
    <3> HIDE DEF r
    <3> QED BY <2>1, <2>2, <3>1, PutRun
  <2> HIDE DEF r
  <2> QED BY <2>2, <2>3 DEF RunBecomes
<1>3. ScansAreWhole' /\ Truths'
  BY <1>1, <1>2, PlainStep
<1>4. AnswerIsWhole'
  BY <1>1 DEF InvB, AnswerIsWhole, Pending, Rows
<1> QED BY <1>3, <1>4 DEF InvB

LEMMA MartsAreBuiltTrue ==
  ASSUME InvA, InvB, PublishedStays, BuildMart \/ BuildTrades \/ Export
  PROVE  InvB'
<1>1. UNCHANGED <<runs, windows, raw, listed, steady, job>>
  BY DEF BuildMart, BuildTrades, Export, provider, scans
<1>2. ScansAreWhole' /\ AnswerIsWhole'
  <2>1. ScansAreWhole'
    BY <1>1, PlainStep
  <2> QED BY <1>1, <2>1 DEF InvB, AnswerIsWhole, Pending, Rows
<1>3. /\ "book" \in Kinds /\ "trade" \in Kinds
      /\ \A k \in Kinds : Published(k)' = Published(k)
      /\ \A k \in Kinds : \A s \in ScanIds : Rows(k, s)' = Rows(k, s) /\ Seen(k, s)' = Seen(k, s)
  BY <1>1 DEF Kinds, Published, Rows, Seen
<1>4. PublishedIsCounted' /\ NothingMissed' /\ PublishedIsExact'
  BY <1>1, <1>3 DEF InvB, Truths, PublishedIsCounted, NothingMissed, PublishedIsExact, Published
<1>5. CASE BuildMart
  <2>1. /\ mart'.book = Latest("book") /\ mart'.states = Rows("book", Latest("book"))
        /\ mart'.trade = mart.trade /\ mart'.trades = mart.trades /\ UNCHANGED bundle
    BY <1>5 DEF BuildMart, InvA, Shapes
  <2>2. Latest("book") \in Published("book")
    BY <1>3, <1>5, LatestIs DEF BuildMart, InvA, Shapes
  <2>3. Latest("book") \in ScanIds
    BY <2>2 DEF Published
  <2>4. MartsAreTrue'
    BY <1>3, <2>1, <2>2, <2>3 DEF InvB, Truths, MartsAreTrue, NoBundle, Published
  <2>5. BundleIsOneCapture'
    BY <1>3, <2>1 DEF InvB, Truths, MartsAreTrue, BundleIsOneCapture, NoBundle, Published
  <2> QED BY <1>2, <1>4, <2>4, <2>5 DEF InvB, Truths
<1>6. CASE BuildTrades
  <2>1. /\ mart'.trade = Latest("trade") /\ mart'.trades = Rows("trade", Latest("trade"))
        /\ mart'.book = mart.book /\ mart'.states = mart.states /\ UNCHANGED bundle
    BY <1>6 DEF BuildTrades, InvA, Shapes
  <2>2. Latest("trade") \in Published("trade")
    BY <1>3, <1>6, LatestIs DEF BuildTrades, InvA, Shapes
  <2>3. Latest("trade") \in ScanIds
    BY <2>2 DEF Published
  <2>4. MartsAreTrue'
    BY <1>3, <2>1, <2>2, <2>3 DEF InvB, Truths, MartsAreTrue, NoBundle, Published
  <2>5. BundleIsOneCapture'
    BY <1>3, <2>1 DEF InvB, Truths, MartsAreTrue, BundleIsOneCapture, NoBundle, Published
  <2> QED BY <1>2, <1>4, <2>4, <2>5 DEF InvB, Truths
<1>7. CASE Export
  <2> DEFINE s == mart.book
  <2>1. /\ s \in Published("book") /\ s \in Published("trade") /\ TradesAgree(s) /\ UNCHANGED mart
        /\ bundle' = [scan |-> s, states |-> mart.states, trades |-> mart.trades]
    BY <1>7 DEF Export, Resolved
  <2>2. 0 \notin ScanIds /\ s \in ScanIds
    BY <2>1 DEF ScanIds, Published
  <2>3. mart.states = Rows("book", s)
    BY <2>2 DEF InvB, Truths, MartsAreTrue
  <2>4. Rows("trade", s) # {} /\ runs["trade"][s].count = Cardinality(raw["trade"][s])
    BY <2>1 DEF InvB, Truths, PublishedIsCounted
  <2>5. IsFiniteSet(raw["trade"][s]) /\ raw["trade"][s] # {}
    BY <1>3, <2>2, <2>4 DEF InvA, Shapes, Tables, Rows
  <2>6. Cardinality(raw["trade"][s]) # 0
    BY <2>5, FS_EmptySet
  <2>7. mart.trade = s
    BY <2>1, <2>4, <2>6 DEF TradesAgree
  <2>8. mart.trades = Rows("trade", s)
    BY <2>2, <2>7 DEF InvB, Truths, MartsAreTrue
  <2>9. MartsAreTrue'
    BY <1>3, <2>1 DEF InvB, Truths, MartsAreTrue, Published
  <2>10. BundleIsOneCapture'
    BY <1>3, <2>1, <2>2, <2>3, <2>8 DEF BundleIsOneCapture
  <2> QED BY <1>2, <1>4, <2>9, <2>10 DEF InvB, Truths
<1> QED BY <1>5, <1>6, <1>7

(* The provider takes items back and adds some: what it took back is no    *)
(* longer steady, except for a scan that is published already.             *)
LEMMA ChangeIsTrue ==
  ASSUME InvA, InvB, PublishedStays, Change
  PROVE  InvB'
<1>1. UNCHANGED <<runs, windows, raw, mart, bundle, job>> /\ job.pc = "request"
  BY DEF Change, scans
<1>2. \A k \in Kinds : \A s \in ScanIds :
        steady'[k][s] = IF runs[k][s].status = "published" THEN steady[k][s] ELSE steady[k][s] \cap listed'[k]
  BY DEF Change
<1>3. ScansAreWhole'
  <2> SUFFICES ASSUME NEW k \in Kinds, NEW s \in ScanIds PROVE WindowsAreWhole(k, s)'
    BY DEF ScansAreWhole
  <2>1. WindowsAreWhole(k, s)
    BY DEF InvB, ScansAreWhole
  <2>2. Rows(k, s)' = Rows(k, s)
    BY <1>1 DEF Rows
  <2>3. runs[k][s].status \in Open => steady'[k][s] \subseteq listed'[k]
    BY <1>2 DEF Open
  <2>4. steady'[k][s] \subseteq steady[k][s]
    BY <1>2
  <2> QED BY <1>1, <2>1, <2>2, <2>3, <2>4, WholeStays
<1>4. Truths'
  <2>1. \A k \in Kinds : Published(k)' \subseteq Published(k)
    BY <1>1 DEF Published
  <2>2. \A k \in Kinds : \A s \in Published(k) : steady'[k][s] = steady[k][s]
    BY <1>2 DEF Published
  <2> QED BY <1>1, <2>1, <2>2, TruthsStay DEF InvB
<1>5. AnswerIsWhole'
  BY <1>1 DEF AnswerIsWhole
<1> QED BY <1>3, <1>4, <1>5 DEF InvB

(* An answer below the limit has all that is listed in the window.         *)
LEMMA AnswerHasAll ==
  ASSUME InvA, job.pc = "request", ~IsFull(Answer(job.kind, Window)),
         NEW i \in listed[job.kind], In(i, Window)
  PROVE  i \in Answer(job.kind, Window)
<1> DEFINE w == Window
           items == {j \in listed[job.kind] : j.token = w.token /\ w.from <= j.at /\ j.at <= w.to}
<1>1. listed[job.kind] \in SUBSET Items /\ IsFiniteSet(listed[job.kind])
  BY DEF InvA, Shapes, Provider, Jobs
<1>2. items \in SUBSET listed[job.kind] /\ i \in items /\ \A x, y \in items : x.token = y.token
  BY DEF In
<1>3. IsFiniteSet(items) /\ items \in SUBSET Items
  <2> HIDE DEF items
  <2> QED BY <1>1, <1>2, FS_Subset
<1>4. Answer(job.kind, w) = {x \in items : Place(items, x) < Limit}
  BY DEF Answer
<1> HIDE DEF items, w
<1>5. Place(items, i) \in Nat
  <2> DEFINE S == {j \in items : j.at < i.at \/ (j.at = i.at /\ j.id < i.id)}
  <2>1. S \in SUBSET items
    OBVIOUS
  <2>2. IsFiniteSet(S)
    BY <1>3, <2>1, FS_Subset
  <2>3. Cardinality(S) \in Nat
    BY <2>2, FS_CardinalityType
  <2> QED BY <2>3 DEF Place
<1>6. CASE Place(items, i) >= Limit
  <2>1. Cardinality({x \in items : Place(items, x) < Limit}) = Limit
    BY <1>2, <1>3, <1>6, CutOffIsFull
  <2> QED BY <1>4, <2>1 DEF IsFull, w
<1>7. CASE ~(Place(items, i) >= Limit)
  <2>1. Place(items, i) < Limit
    BY CaptureAssumption, <1>5, <1>7
  <2> QED BY <1>2, <1>4, <2>1 DEF w
<1> QED BY <1>6, <1>7

LEMMA RequestIsTrue ==
  ASSUME InvA, InvB, PublishedStays, Request
  PROVE  InvB'
<1> DEFINE answer == Answer(job.kind, Window)
<1>1. UNCHANGED <<runs, windows, raw, listed, steady, mart, bundle>> /\ job.pc = "request"
  BY DEF Request, provider, scans
<1>2. ScansAreWhole' /\ Truths'
  BY <1>1, PlainStep
<1>3. job \in Jobs /\ job.kind \in Kinds /\ job.scan \in ScanIds /\ Run.status \in Open
  BY <1>1 DEF InvA, Shapes, Jobs, JobIsOpen, Open
<1>4. job.window = {Window}
  BY <1>1, WindowIs DEF WithWindow
<1>5. ASSUME job'.pc # "rows", job'.pc # "complete", job'.pc # "publish" PROVE AnswerIsWhole'
  BY <1>5 DEF AnswerIsWhole
<1>6. ASSUME ~IsFull(answer),
             job' = [job EXCEPT !.pc = IF answer = {} THEN "complete" ELSE "rows", !.paid = FALSE,
                                !.retry = 0, !.answer = answer]
      PROVE  AnswerIsWhole'
  <2>1. /\ job'.pc = (IF answer = {} THEN "complete" ELSE "rows") /\ job'.answer = answer
        /\ job'.kind = job.kind /\ job'.scan = job.scan /\ job'.window = job.window
    <3> HIDE DEF answer
    <3> QED BY <1>3, <1>6 DEF Jobs
  <2>2. steady[job.kind][job.scan] \subseteq listed[job.kind]
    BY <1>3 DEF InvB, ScansAreWhole, WindowsAreWhole, Run, Open
  <2>3. \A i \in steady[job.kind][job.scan] : In(i, Window) => i \in answer
    BY <1>1, <1>6, <2>2, AnswerHasAll
  <2> HIDE DEF answer
  <2>4. /\ job'.pc \in {"rows", "complete"} /\ (job'.pc = "complete" => job'.answer = {})
        /\ \A i \in steady'[job'.kind][job'.scan] : \A w \in job'.window : In(i, w) => i \in job'.answer
    BY <1>1, <1>4, <2>1, <2>3
  <2> QED BY <2>4 DEF AnswerIsWhole
<1>7. \/ job' = [job EXCEPT !.pc = "split", !.paid = FALSE, !.retry = 0]
      \/ /\ ~IsFull(answer)
         /\ job' = [job EXCEPT !.pc = IF answer = {} THEN "complete" ELSE "rows", !.paid = FALSE,
                               !.retry = 0, !.answer = answer]
      \/ job' = [job EXCEPT !.pc = RetryAt(job.kind), !.retry = @ + 1, !.paid = FALSE]
      \/ job' \in {Stop("paused"), Stop("failed")}
  BY DEF Request
<1>8. ASSUME job' \in {Stop("paused"), Stop("failed")} PROVE AnswerIsWhole'
  BY <1>5, <1>8 DEF Stop, At
<1>9. ASSUME job' = [job EXCEPT !.pc = RetryAt(job.kind), !.retry = @ + 1, !.paid = FALSE] PROVE AnswerIsWhole'
  <2>1. job'.pc \in {"reserve", "request"}
    BY <1>3, <1>9 DEF RetryAt, Jobs
  <2> QED BY <1>5, <2>1
<1>10. ASSUME job' = [job EXCEPT !.pc = "split", !.paid = FALSE, !.retry = 0] PROVE AnswerIsWhole'
  BY <1>3, <1>5, <1>10 DEF Jobs
<1>11. AnswerIsWhole'
  <2> HIDE DEF answer
  <2> QED BY <1>5, <1>6, <1>7, <1>8, <1>9, <1>10
<1> QED BY <1>2, <1>11 DEF InvB

(* Rows are only added, and only to the scan of the job.                   *)
LEMMA RowsGrow ==
  ASSUME InvA, InvB, PublishedStays, job.pc # "idle", NEW rows \in SUBSET RawRows,
         RowsBecome(job.kind, job.scan, rows), Rows(job.kind, job.scan) \subseteq {r.item : r \in rows},
         UNCHANGED <<runs, windows, listed, steady, mart, bundle>>
  PROVE  ScansAreWhole' /\ Truths'
<1>1. \A k \in Kinds : \A s \in ScanIds :
        raw'[k][s] = IF k = job.kind /\ s = job.scan THEN rows ELSE raw[k][s]
  BY DEF RowsBecome
<1>2. ScansAreWhole'
  <2> SUFFICES ASSUME NEW k \in Kinds, NEW s \in ScanIds PROVE WindowsAreWhole(k, s)'
    BY DEF ScansAreWhole
  <2>1. WindowsAreWhole(k, s)
    BY DEF InvB, ScansAreWhole
  <2>2. Rows(k, s) \subseteq Rows(k, s)'
    <3>1. CASE k = job.kind /\ s = job.scan
      BY <3>1, <1>1 DEF Rows
    <3>2. CASE ~(k = job.kind /\ s = job.scan)
      BY <1>1, <3>2 DEF Rows
    <3> QED BY <3>1, <3>2
  <2> QED BY <2>1, <2>2, WholeStays DEF Open
<1>3. Truths'
  <2>1. \A k \in Kinds : Published(k)' \subseteq Published(k)
    BY DEF Published
  <2> QED BY <2>1, TruthsStay DEF InvB
<1> QED BY <1>1, <1>2, <1>3

LEMMA MergeIsTrue ==
  ASSUME InvA, InvB, PublishedStays, MergeBooks
  PROVE  InvB'
<1> DEFINE kept == {r \in raw[job.kind][job.scan] : r.item \notin job.answer}
           new  == {Row(i) : i \in job.answer}
           rows == kept \cup new
<1>1. /\ UNCHANGED <<runs, windows, listed, steady, mart, bundle>>
      /\ job.pc = "rows" /\ job' = [job EXCEPT !.pc = "complete"] /\ RowsBecome(job.kind, job.scan, rows)
  BY MergeIs
<1>2. {r.item : r \in rows} = Rows(job.kind, job.scan) \cup job.answer
  <2>1. \A i \in job.answer : Row(i) \in rows /\ Row(i).item = i
    BY DEF Row
  <2>2. \A r \in rows : r.item \in Rows(job.kind, job.scan) \cup job.answer
    BY DEF Row, Rows
  <2>3. \A i \in Rows(job.kind, job.scan) : i \in job.answer \/ \E r \in rows : r.item = i
    BY DEF Rows
  <2> HIDE DEF rows
  <2> QED BY <2>1, <2>2, <2>3
<1>3. rows \in SUBSET RawRows
  <2> HIDE DEF rows
  <2>1. job.kind \in Kinds /\ job.scan \in ScanIds
    BY <1>1 DEF InvA, Shapes, Jobs, JobIsOpen
  <2> QED BY <1>1, <2>1 DEF RowsBecome
<1> HIDE DEF rows
<1>4. ScansAreWhole' /\ Truths'
  <2>1. Rows(job.kind, job.scan) \subseteq {r.item : r \in rows} /\ job.pc # "idle"
    BY <1>1, <1>2
  <2> QED BY <1>1, <1>3, <2>1, RowsGrow
<1>5. AnswerIsWhole'
  <2>1. /\ job'.pc = "complete" /\ job'.kind = job.kind /\ job'.scan = job.scan
        /\ job'.answer = job.answer /\ job'.window = job.window
    BY <1>1 DEF InvA, Shapes, Jobs
  <2>2. job.answer \subseteq {r.item : r \in raw'[job.kind][job.scan]}
    BY <1>1, <1>2 DEF RowsBecome
  <2> QED BY <1>1, <2>1, <2>2 DEF InvB, AnswerIsWhole, Rows
<1> QED BY <1>4, <1>5 DEF InvB

LEMMA InsertIsTrue ==
  ASSUME InvA, InvB, PublishedStays, InsertTrade
  PROVE  InvB'
<1>1. /\ UNCHANGED <<runs, windows, listed, steady, mart, bundle>>
      /\ job.pc = "rows" /\ job.kind = "trade" /\ job \in Jobs
  BY InsertIs DEF InvA, Shapes
<1>2. CASE job.answer \subseteq Rows("trade", job.scan) /\ UNCHANGED raw /\ job' = [job EXCEPT !.pc = "complete"]
  <2>1. ScansAreWhole' /\ Truths'
    BY <1>1, <1>2, PlainStep
  <2>2. /\ job'.pc = "complete" /\ job'.kind = job.kind /\ job'.scan = job.scan
        /\ job'.answer = job.answer /\ job'.window = job.window
    BY <1>1, <1>2 DEF Jobs
  <2>3. AnswerIsWhole'
    BY <1>1, <1>2, <2>2 DEF InvB, AnswerIsWhole, Rows
  <2> QED BY <2>1, <2>3 DEF InvB
<1>3. CASE UNCHANGED raw /\ job' = Stop("failed")
  <2>1. ScansAreWhole' /\ Truths'
    BY <1>1, <1>3, PlainStep
  <2>2. AnswerIsWhole'
    BY <1>3 DEF AnswerIsWhole, Stop, At
  <2> QED BY <2>1, <2>2 DEF InvB
<1>4. CASE UNCHANGED job /\ \E r \in RawRows : RowsBecome("trade", job.scan, raw["trade"][job.scan] \cup {r})
  <2>1. PICK r \in RawRows : RowsBecome("trade", job.scan, raw["trade"][job.scan] \cup {r})
    BY <1>4
  <2> DEFINE rows == raw["trade"][job.scan] \cup {r}
  <2>2. Rows("trade", job.scan) \subseteq {x.item : x \in rows}
    BY DEF Rows
  <2>3. rows \in SUBSET RawRows
    <3>1. "trade" \in Kinds /\ job.scan \in ScanIds
      BY <1>1 DEF Kinds, InvA, JobIsOpen
    <3> QED BY <3>1 DEF InvA, Shapes, Tables
  <2>4. ScansAreWhole' /\ Truths'
    <3>1. RowsBecome(job.kind, job.scan, rows) /\ Rows(job.kind, job.scan) \subseteq {x.item : x \in rows}
      BY <1>1, <2>1, <2>2
    <3> HIDE DEF rows
    <3> QED BY <1>1, <2>3, <3>1, RowsGrow
  <2>5. AnswerIsWhole'
    BY <1>1, <1>4 DEF InvB, AnswerIsWhole
  <2> QED BY <2>4, <2>5 DEF InvB
<1> QED BY <1>2, <1>3, <1>4, InsertIs

(* The windows of the scan of the job change, and its run goes on.         *)
LEMMA OwnWindows ==
  ASSUME InvA, InvB, PublishedStays, job.pc # "idle", job' = GoesOn, NEW ws,
         UNCHANGED <<raw, listed, steady, mart, bundle>>, WindowsBecome(job.kind, job.scan, ws),
         \E r \in RunRows : RunBecomes(job.kind, job.scan, r) /\ r.status \in {Run.status, "running"},
         WindowsAreSound(ws), UNION {w.seen : w \in ws} \subseteq Rows(job.kind, job.scan),
         \A t \in Tokens : \E w \in ws : w.token = t /\ w.from = 0 /\ w.to = Span,
         \A v \in ws : \A i \in steady[job.kind][job.scan] : In(i, v) => Accounts(ws, v, i)
  PROVE  InvB'
<1>1. job.kind \in Kinds /\ job.scan \in ScanIds /\ runs[job.kind][job.scan].status \in Open
      /\ Run = runs[job.kind][job.scan]
  BY DEF InvA, Shapes, Jobs, JobIsOpen, Run, Open
<1>2. \A k \in Kinds : \A s \in ScanIds :
        \/ runs'[k][s].status = runs[k][s].status
        \/ runs[k][s].status \in Open /\ runs'[k][s].status \in Open
  BY <1>1, OwnRun DEF Open
<1>3. ScansAreWhole'
  <2> SUFFICES ASSUME NEW k \in Kinds, NEW s \in ScanIds PROVE WindowsAreWhole(k, s)'
    BY DEF ScansAreWhole
  <2>1. WindowsAreWhole(k, s) /\ Rows(k, s)' = Rows(k, s)
    BY DEF InvB, ScansAreWhole, Rows
  <2>2. CASE k = job.kind /\ s = job.scan
    <3>1. windows'[k][s] = ws
      BY <2>2 DEF WindowsBecome
    <3>2. Seen(k, s)' \subseteq Rows(k, s)' /\ WindowsAreSound(windows[k][s])'
      BY <2>1, <2>2, <3>1 DEF Seen, WindowsAreSound
    <3>3. steady'[k][s] \subseteq listed'[k]
      BY <1>1, <2>1, <2>2 DEF WindowsAreWhole, Open
    <3> QED BY <2>2, <3>1, <3>2, <3>3 DEF WindowsAreWhole
  <2>3. CASE ~(k = job.kind /\ s = job.scan)
    <3>1. windows'[k][s] = windows[k][s]
      BY <2>3 DEF WindowsBecome
    <3> QED BY <1>2, <2>1, <3>1, WholeStays DEF Open
  <2> QED BY <2>2, <2>3
<1>4. Truths'
  <2>1. \A k \in Kinds : Published(k)' \subseteq Published(k)
    BY <1>2 DEF Published, Open
  <2> QED BY <2>1, TruthsStay DEF InvB
<1>5. AnswerIsWhole'
  BY DEF AnswerIsWhole, GoesOn, At
<1> QED BY <1>3, <1>4, <1>5 DEF InvB

LEMMA CompleteIsTrue ==
  ASSUME InvA, InvB, PublishedStays, CompleteWindow
  PROVE  InvB'
<1> DEFINE old == windows[job.kind][job.scan]
           ws  == (old \ {Window}) \cup {Settled}
<1>1. /\ UNCHANGED <<raw, listed, steady, mart, bundle>> /\ job' = GoesOn
      /\ \E r \in RunRows : RunBecomes(job.kind, job.scan, r) /\ r.status \in {Run.status, "running"}
      /\ WindowsBecome(job.kind, job.scan, ws)
  BY CompleteIs
<1>2. job.pc = "complete" /\ job.kind \in Kinds /\ job.scan \in ScanIds
  BY DEF CompleteWindow, InvA, Shapes, Jobs, JobIsOpen
<1>3. job.window = {Window} /\ Window \in old /\ Window \in WindowRows
  BY <1>2, WindowIs DEF WithWindow, Pending
<1>4. /\ Settled.token = Window.token /\ Settled.from = Window.from /\ Settled.to = Window.to
      /\ Settled.seen = job.answer /\ Settled.status = (IF job.answer = {} THEN "empty" ELSE "loaded")
  BY <1>3 DEF Settled, WindowRows
<1>5. /\ WindowsAreSound(old) /\ UNION {w.seen : w \in old} \subseteq Rows(job.kind, job.scan)
      /\ \A t \in Tokens : \E w \in old : w.token = t /\ w.from = 0 /\ w.to = Span
      /\ \A v \in old : \A i \in steady[job.kind][job.scan] : In(i, v) => Accounts(old, v, i)
  <2>1. WindowsAreWhole(job.kind, job.scan) /\ runs[job.kind][job.scan].status # "none"
    BY <1>2 DEF InvA, InvB, ScansAreWhole, JobIsOpen, Run
  <2> QED BY <2>1 DEF WindowsAreWhole, Seen
<1>6. /\ job.answer \subseteq Rows(job.kind, job.scan)
      /\ \A i \in steady[job.kind][job.scan] : In(i, Window) => i \in job.answer
  BY <1>2, <1>3 DEF InvB, AnswerIsWhole
<1> HIDE DEF old
<1>7. WindowsAreSound(ws)
  BY <1>3, <1>4, <1>5 DEF WindowsAreSound
<1>8. UNION {w.seen : w \in ws} \subseteq Rows(job.kind, job.scan)
  BY <1>4, <1>5, <1>6
<1>9. \A t \in Tokens : \E w \in ws : w.token = t /\ w.from = 0 /\ w.to = Span
  BY <1>3, <1>4, <1>5
<1>10. \A v \in ws : \A i \in steady[job.kind][job.scan] : In(i, v) => Accounts(ws, v, i)
  <2> SUFFICES ASSUME NEW v \in ws, NEW i \in steady[job.kind][job.scan], In(i, v) PROVE Accounts(ws, v, i)
    OBVIOUS
  <2>1. PICK v0 \in old : v0.token = v.token /\ v0.from = v.from /\ v0.to = v.to
    BY <1>3, <1>4
  <2>2. PICK u \in old : Inside(u, v0) /\ In(i, u) /\ u.status # "split" /\ (IsDone(u) => i \in u.seen)
    BY <1>5, <2>1 DEF In, Accounts
  <2>3. CASE u # Window
    BY <2>1, <2>2, <2>3 DEF Accounts, Inside
  <2>4. CASE u = Window
    <3>1. Settled \in ws /\ Inside(Settled, v) /\ In(i, Settled) /\ Settled.status # "split"
      BY <1>4, <2>1, <2>2, <2>4 DEF Inside, In
    <3>2. i \in Settled.seen
      BY <1>4, <1>6, <2>2, <2>4
    <3> HIDE DEF ws
    <3> QED BY <3>1, <3>2 DEF Accounts
  <2> QED BY <2>3, <2>4
<1>11. job.pc # "idle" /\ WindowsBecome(job.kind, job.scan, ws)
  BY <1>1, <1>2
<1> HIDE DEF ws
<1> QED BY <1>1, <1>7, <1>8, <1>9, <1>10, <1>11, OwnWindows

LEMMA SplitIsTrue ==
  ASSUME InvA, InvB, PublishedStays, Split
  PROVE  InvB'
<1> DEFINE old  == windows[job.kind][job.scan]
           ws   == Divided(old)
           done == [Window EXCEPT !.status = "split"]
<1>1. UNCHANGED <<raw, listed, steady, mart, bundle>> /\ job.pc = "split"
  BY SplitIs DEF Split
<1>2. CASE UNCHANGED <<runs, windows>> /\ job' = Stop("failed")
  <2>1. ScansAreWhole' /\ Truths'
    BY <1>1, <1>2, PlainStep
  <2>2. AnswerIsWhole'
    BY <1>2 DEF AnswerIsWhole, Stop, At
  <2> QED BY <2>1, <2>2 DEF InvB
<1>3. CASE /\ Window.to - Window.from > 1 /\ job' = GoesOn
           /\ \E r \in RunRows : RunBecomes(job.kind, job.scan, r) /\ r.status \in {Run.status, "running"}
           /\ WindowsBecome(job.kind, job.scan, ws)
  <2>1. job.kind \in Kinds /\ job.scan \in ScanIds
    BY <1>1 DEF InvA, Shapes, Jobs, JobIsOpen
  <2>2. /\ job.window = {Window} /\ Window \in old /\ Window \in WindowRows /\ Window.status = "pending"
        /\ old \in SUBSET WindowRows
    BY <1>1, <2>1, WindowIs DEF WithWindow, Pending, InvA, Shapes, Tables
  <2>3. /\ done.token = Window.token /\ done.from = Window.from /\ done.to = Window.to
        /\ done.seen = Window.seen /\ done.status = "split"
    BY <2>2 DEF WindowRows
  <2>4. PICK mid \in Nat :
          /\ Window.from < mid /\ mid < Window.to
          /\ Halves(Window) = {Part(Window, Window.from, mid), Part(Window, mid, Window.to)}
    BY <1>3, <2>2, HalvesAre
  <2>5. \A h \in Halves(Window) :
          /\ h.token = Window.token /\ h.status = "pending" /\ h.seen = {} /\ h.from < h.to
          /\ Window.from <= h.from /\ h.to <= Window.to /\ (Window.from < h.from \/ h.to < Window.to)
    BY <2>2, <2>4 DEF Part, WindowRows
  <2>6. /\ WindowsAreSound(old) /\ UNION {w.seen : w \in old} \subseteq Rows(job.kind, job.scan)
        /\ \A t \in Tokens : \E w \in old : w.token = t /\ w.from = 0 /\ w.to = Span
        /\ \A v \in old : \A i \in steady[job.kind][job.scan] : In(i, v) => Accounts(old, v, i)
    <3>1. WindowsAreWhole(job.kind, job.scan) /\ runs[job.kind][job.scan].status # "none"
      BY <1>1, <2>1 DEF InvA, InvB, ScansAreWhole, JobIsOpen, Run
    <3> QED BY <3>1 DEF WindowsAreWhole, Seen
  <2>7. /\ \A v \in old : v = Window \/ v \in ws
        /\ done \in ws /\ Window.seen = {}
        /\ \A v \in ws : v \in old \/ v = done \/ v \in Halves(Window)
        /\ \A h \in Halves(Window) :
             h \in ws \/ \E v \in old : v.token = h.token /\ v.from = h.from /\ v.to = h.to
    BY <2>2, <2>6 DEF Divided, WindowsAreSound
  <2>8. WindowsAreSound(ws) /\ UNION {w.seen : w \in ws} \subseteq Rows(job.kind, job.scan)
    <3> HIDE DEF old, ws, done
    <3>1. \A w \in ws : w.from < w.to /\ (w.seen # {} <=> w.status = "loaded")
      BY <2>2, <2>3, <2>5, <2>6, <2>7 DEF WindowsAreSound
    <3>2. \A w \in ws : w.seen \subseteq Rows(job.kind, job.scan)
      BY <2>3, <2>5, <2>6, <2>7
    <3> QED BY <3>1, <3>2 DEF WindowsAreSound
  <2>9. \A t \in Tokens : \E w \in ws : w.token = t /\ w.from = 0 /\ w.to = Span
    <3> HIDE DEF old, ws, done
    <3> QED BY <2>3, <2>6, <2>7
  <2>10. \A v \in old : \A i \in steady[job.kind][job.scan] : In(i, v) => Accounts(ws, v, i)
    <3> HIDE DEF old, ws, done
    <3> SUFFICES ASSUME NEW v \in old, NEW i \in steady[job.kind][job.scan], In(i, v) PROVE Accounts(ws, v, i)
      OBVIOUS
    <3>1. PICK u \in old : Inside(u, v) /\ In(i, u) /\ u.status # "split" /\ (IsDone(u) => i \in u.seen)
      BY <2>6 DEF Accounts
    <3>2. CASE u # Window
      BY <2>7, <3>1, <3>2 DEF Accounts
    <3>3. CASE u = Window
      <4>1. /\ v.from \in Nat /\ v.to \in Nat /\ Window.from \in Nat /\ Window.to \in Nat
            /\ i.at \in Nat
        <5>1. i \in Items
          BY <2>1 DEF InvA, Shapes, Provider
        <5> QED BY CaptureAssumption, <2>2, <5>1 DEF WindowRows, Items
      <4>2. PICK h \in Halves(Window) : In(i, h) /\ h.from \in Nat /\ h.to \in Nat
        <5>1. CASE i.at <= mid
          <6>1. In(i, Part(Window, Window.from, mid))
            BY <3>1, <3>3, <5>1 DEF In, Part
          <6> QED BY <2>4, <4>1, <6>1 DEF Part
        <5>2. CASE ~(i.at <= mid)
          <6>1. In(i, Part(Window, mid, Window.to))
            BY <3>1, <3>3, <4>1, <5>2 DEF In, Part
          <6> QED BY <2>4, <4>1, <6>1 DEF Part
        <5> QED BY <5>1, <5>2
      <4>3. Inside(h, v)
        BY <2>5, <3>1, <3>3, <4>1, <4>2 DEF Inside
      <4>4. CASE h \in ws
        BY <2>5, <4>2, <4>3, <4>4 DEF Accounts, IsDone
      <4>5. CASE \E x \in old : x.token = h.token /\ x.from = h.from /\ x.to = h.to
        <5>1. PICK x \in old : x.token = h.token /\ x.from = h.from /\ x.to = h.to
          BY <4>5
        <5>2. In(i, x)
          BY <4>2, <5>1 DEF In
        <5>3. PICK y \in old : Inside(y, x) /\ In(i, y) /\ y.status # "split" /\ (IsDone(y) => i \in y.seen)
          BY <2>6, <5>2 DEF Accounts
        <5>4. y.from \in Nat /\ y.to \in Nat
          BY <2>2 DEF WindowRows
        <5>5. Inside(y, v)
          BY <4>1, <4>2, <4>3, <5>1, <5>3, <5>4 DEF Inside
        <5>6. y # Window
          BY <2>5, <4>1, <4>2, <5>1, <5>3 DEF Inside
        <5> QED BY <2>7, <5>3, <5>5, <5>6 DEF Accounts
      <4> QED BY <2>7, <4>4, <4>5
    <3> QED BY <3>2, <3>3
  <2>11. \A v \in ws : \A i \in steady[job.kind][job.scan] : In(i, v) => Accounts(ws, v, i)
    <3> HIDE DEF old, ws, done
    <3> SUFFICES ASSUME NEW v \in ws, NEW i \in steady[job.kind][job.scan], In(i, v) PROVE Accounts(ws, v, i)
      OBVIOUS
    <3>1. CASE v \in old
      BY <2>10, <3>1
    <3>2. CASE v = done
      <4>1. In(i, Window)
        BY <2>3, <3>2 DEF In
      <4>2. Accounts(ws, Window, i)
        BY <2>2, <2>10, <4>1
      <4> QED BY <2>3, <3>2, <4>2 DEF Accounts, Inside
    <3>3. CASE v \in Halves(Window)
      <4>1. v.from \in Nat /\ v.to \in Nat
        BY <2>2, <2>4, <3>3 DEF Part, WindowRows
      <4> QED BY <2>5, <3>3, <4>1 DEF Accounts, Inside, IsDone
    <3> QED BY <2>7, <3>1, <3>2, <3>3
  <2>12. /\ job' = GoesOn /\ WindowsBecome(job.kind, job.scan, ws) /\ job.pc # "idle"
         /\ \E r \in RunRows : RunBecomes(job.kind, job.scan, r) /\ r.status \in {Run.status, "running"}
    BY <1>1, <1>3
  <2> HIDE DEF old, ws, done
  <2> QED BY <1>1, <2>8, <2>9, <2>11, <2>12, OwnWindows
<1> QED BY <1>2, <1>3, SplitIs

LEMMA RootsAreWhole ==
  ASSUME InvA, NEW k \in Kinds, NEW s \in ScanIds, windows'[k][s] = Roots, steady'[k][s] = listed'[k],
         listed'[k] = listed[k]
  PROVE  WindowsAreWhole(k, s)'
<1>1. Span \in Nat \ {0}
  BY CaptureAssumption
<1>2. \A w \in Roots : w.from = 0 /\ w.to = Span /\ w.status = "pending" /\ w.seen = {} /\ w.token \in Tokens
  BY DEF Roots
<1>3. WindowsAreSound(windows[k][s])' /\ Seen(k, s)' = {}
  BY <1>1, <1>2 DEF WindowsAreSound, Seen
<1>4. \A t \in Tokens : \E w \in windows'[k][s] : w.token = t /\ w.from = 0 /\ w.to = Span
  <2> TAKE t \in Tokens
  <2> DEFINE w == [token |-> t, from |-> 0, to |-> Span, depth |-> 0, status |-> "pending", seen |-> {}]
  <2>1. w \in Roots
    BY DEF Roots
  <2>2. w.token = t /\ w.from = 0 /\ w.to = Span
    OBVIOUS
  <2> HIDE DEF w
  <2> QED BY <2>1, <2>2
<1>5. \A v \in windows'[k][s] : \A i \in steady'[k][s] : In(i, v) => Accounts(windows'[k][s], v, i)
  BY <1>1, <1>2 DEF Accounts, Inside, IsDone
<1> QED BY <1>3, <1>4, <1>5 DEF WindowsAreWhole

LEMMA StartIsTrue ==
  ASSUME InvA, InvB, PublishedStays, StartTrades \/ \E o \in Owners : \E force \in BOOLEAN : StartBooks(o, force)
  PROVE  InvB'
<1>1. UNCHANGED <<raw, listed, mart, bundle>> /\ job'.pc = "next"
  BY StartIs
<1>2. PICK k \in Kinds, s \in ScanIds :
        /\ runs[k][s].status # "published"
        /\ \E r \in RunRows : RunBecomes(k, s, r) /\ r.status = "running"
        /\ \/ runs[k][s].status # "none" /\ UNCHANGED <<windows, steady>>
           \/ /\ WindowsBecome(k, s, Roots) /\ steady' = [steady EXCEPT ![k][s] = listed[k]]
  BY StartIs
<1>3. /\ runs'[k][s].status = "running"
      /\ \A j \in Kinds : \A q \in ScanIds : j # k \/ q # s => runs'[j][q] = runs[j][q]
  BY <1>2 DEF RunBecomes
<1>4. runs[k][s].status \in Statuses
  BY DEF InvA, Shapes, Tables, RunRows
<1>5. AnswerIsWhole'
  BY <1>1 DEF AnswerIsWhole
<1>6. \A j \in Kinds : Published(j)' \subseteq Published(j)
  BY <1>3 DEF Published
<1>7. CASE runs[k][s].status # "none" /\ UNCHANGED <<windows, steady>>
  <2>1. runs[k][s].status \in Open
    BY <1>2, <1>4, <1>7 DEF Statuses, Open
  <2>2. ScansAreWhole' /\ Truths'
    BY <1>1, <1>3, <1>7, <2>1, PlainStep DEF Open
  <2> QED BY <1>5, <2>2 DEF InvB
<1>8. CASE WindowsBecome(k, s, Roots) /\ steady' = [steady EXCEPT ![k][s] = listed[k]]
  <2>1. steady'[k][s] = listed'[k] /\ \A j \in Kinds : \A q \in ScanIds : j # k \/ q # s => steady'[j][q] = steady[j][q]
    BY <1>1, <1>8 DEF InvA, Shapes, Provider
  <2>2. /\ windows'[k][s] = Roots
        /\ \A j \in Kinds : \A q \in ScanIds : j # k \/ q # s => windows'[j][q] = windows[j][q]
    BY <1>8 DEF WindowsBecome
  <2>3. ScansAreWhole'
    <3> SUFFICES ASSUME NEW j \in Kinds, NEW q \in ScanIds PROVE WindowsAreWhole(j, q)'
      BY DEF ScansAreWhole
    <3>1. CASE j = k /\ q = s
      BY <1>1, <2>1, <2>2, <3>1, RootsAreWhole
    <3>2. CASE ~(j = k /\ q = s)
      <4>1. WindowsAreWhole(j, q) /\ Rows(j, q)' = Rows(j, q)
        BY <1>1 DEF InvB, ScansAreWhole, Rows
      <4> QED BY <1>1, <1>3, <2>1, <2>2, <3>2, <4>1, WholeStays
    <3> QED BY <3>1, <3>2
  <2>4. Truths'
    <3>1. \A j \in Kinds : \A q \in Published(j) : steady'[j][q] = steady[j][q]
      BY <1>2, <2>1 DEF Published
    <3> QED BY <1>1, <1>6, <3>1, TruthsStay DEF InvB
  <2> QED BY <1>5, <2>3, <2>4 DEF InvB
<1> QED BY <1>2, <1>7, <1>8

(* When no window is left to do, what was there all along is stored.       *)
LEMMA NothingIsLeft ==
  ASSUME InvA, InvB, job.pc = "publish"
  PROVE  steady[job.kind][job.scan] \subseteq Rows(job.kind, job.scan)
<1> DEFINE ws == windows[job.kind][job.scan]
<1>1. job.kind \in Kinds /\ job.scan \in ScanIds /\ Run.status \in Open
  BY DEF InvA, Shapes, Jobs, JobIsOpen, Open
<1>2. /\ Seen(job.kind, job.scan) \subseteq Rows(job.kind, job.scan)
      /\ \A t \in Tokens : \E w \in ws : w.token = t /\ w.from = 0 /\ w.to = Span
      /\ \A v \in ws : \A i \in steady[job.kind][job.scan] : In(i, v) => Accounts(ws, v, i)
  BY <1>1 DEF InvB, ScansAreWhole, WindowsAreWhole, Run, Open
<1>3. \A w \in ws : w \in WindowRows /\ w.status # "pending"
  BY <1>1 DEF InvA, Shapes, Tables, InvB, AnswerIsWhole, Pending
<1> SUFFICES ASSUME NEW i \in steady[job.kind][job.scan] PROVE i \in Rows(job.kind, job.scan)
  OBVIOUS
<1>4. i.token \in Tokens /\ i.at \in 0..Span
  BY <1>1 DEF InvA, Shapes, Provider, Items
<1>5. PICK v \in ws : In(i, v)
  <2>1. PICK v \in ws : v.token = i.token /\ v.from = 0 /\ v.to = Span
    BY <1>2, <1>4
  <2> QED BY CaptureAssumption, <1>4, <2>1 DEF In
<1>6. PICK u \in ws : u.status # "split" /\ (IsDone(u) => i \in u.seen)
  BY <1>2, <1>5 DEF Accounts
<1>7. i \in u.seen
  BY <1>3, <1>6 DEF WindowRows, IsDone
<1> QED BY <1>2, <1>7 DEF Seen

LEMMA PublishIsTrue ==
  ASSUME InvA, InvB, PublishedStays, Publish
  PROVE  InvB'
<1>1. UNCHANGED <<raw, windows, listed, steady, mart, bundle>> /\ job.pc = "publish"
  BY PublishIs
<1>2. CASE UNCHANGED runs /\ job' = Stop("failed")
  <2>1. ScansAreWhole' /\ Truths'
    BY <1>1, <1>2, PlainStep
  <2>2. AnswerIsWhole'
    BY <1>2 DEF AnswerIsWhole, Stop, At
  <2> QED BY <2>1, <2>2 DEF InvB
<1>3. CASE /\ IsSound(job.kind, job.scan) /\ job' = Idle
           /\ \E r \in RunRows : /\ RunBecomes(job.kind, job.scan, r) /\ r.status = "published"
                                 /\ r.count = Cardinality(raw[job.kind][job.scan])
  <2>1. PICK k \in Kinds, s \in ScanIds : k = job.kind /\ s = job.scan
    BY <1>1 DEF InvA, Shapes, Jobs, JobIsOpen
  <2>2. /\ runs'[k][s].status = "published" /\ runs'[k][s].count = Cardinality(raw[k][s])
        /\ \A j \in Kinds : \A q \in ScanIds : j # k \/ q # s => runs'[j][q] = runs[j][q]
    BY <1>3, <2>1 DEF RunBecomes
  <2>3. runs[k][s].status \in Open
    BY <1>1, <2>1 DEF InvA, JobIsOpen, Run, Open
  <2>4. /\ \A j \in Kinds : \A q \in ScanIds : Rows(j, q)' = Rows(j, q) /\ Seen(j, q)' = Seen(j, q)
        /\ \A j \in Kinds : \A q \in Published(j)' : q \in Published(j) \/ (j = k /\ q = s)
        /\ \A j \in Kinds : Published(j) \subseteq Published(j)'
    <3>1. \A j \in Kinds : \A q \in ScanIds : Rows(j, q)' = Rows(j, q) /\ Seen(j, q)' = Seen(j, q)
      BY <1>1 DEF Rows, Seen
    <3> QED BY <2>2, <2>3, <3>1 DEF Published
  <2>5. "book" \in Kinds /\ "trade" \in Kinds
    BY DEF Kinds
  <2>6. ScansAreWhole'
    <3> SUFFICES ASSUME NEW j \in Kinds, NEW q \in ScanIds PROVE WindowsAreWhole(j, q)'
      BY DEF ScansAreWhole
    <3>1. WindowsAreWhole(j, q)
      BY DEF InvB, ScansAreWhole
    <3> QED BY <1>1, <2>2, <2>3, <2>4, <3>1, WholeStays DEF Open
  <2>7. AnswerIsWhole'
    BY <1>3 DEF AnswerIsWhole, Idle, At
  <2>8. PublishedIsCounted'
    <3> SUFFICES ASSUME NEW q \in Published("trade")'
                 PROVE  Rows("trade", q)' # {} /\ runs'["trade"][q].count = Cardinality(raw'["trade"][q])
      BY DEF PublishedIsCounted
    <3>1. q \in ScanIds
      BY DEF Published
    <3>2. CASE q \in Published("trade")
      BY <2>4, <2>5, <3>1, <3>2 DEF InvB, Truths, PublishedIsCounted, PublishedStays
    <3>3. CASE k = "trade" /\ q = s
      BY <1>1, <1>3, <2>1, <2>2, <2>4, <3>3 DEF IsSound
    <3> QED BY <2>4, <2>5, <3>2, <3>3
  <2>9. NothingMissed'
    <3> SUFFICES ASSUME NEW j \in Kinds, NEW q \in Published(j)' PROVE steady'[j][q] \subseteq Rows(j, q)'
      BY DEF NothingMissed
    <3>1. q \in ScanIds
      BY DEF Published
    <3>2. CASE q \in Published(j)
      BY <1>1, <2>4, <3>1, <3>2 DEF InvB, Truths, NothingMissed
    <3>3. CASE j = k /\ q = s
      BY <1>1, <2>1, <2>4, <3>3, NothingIsLeft
    <3> QED BY <2>4, <3>2, <3>3
  <2>10. PublishedIsExact'
    <3> SUFFICES ASSUME NEW q \in Published("book")' PROVE Rows("book", q)' = Seen("book", q)'
      BY DEF PublishedIsExact
    <3>1. q \in ScanIds
      BY DEF Published
    <3>2. CASE q \in Published("book")
      BY <2>4, <2>5, <3>1, <3>2 DEF InvB, Truths, PublishedIsExact
    <3>3. CASE k = "book" /\ q = s
      BY <1>3, <2>1, <2>4, <3>3 DEF IsSound
    <3> QED BY <2>4, <2>5, <3>2, <3>3
  <2>11. MartsAreTrue'
    BY <1>1, <2>4, <2>5 DEF InvB, Truths, MartsAreTrue, NoBundle, Published
  <2>12. BundleIsOneCapture'
    BY <1>1, <2>4, <2>5 DEF InvB, Truths, MartsAreTrue, BundleIsOneCapture, NoBundle, Published
  <2> QED BY <2>6, <2>7, <2>8, <2>9, <2>10, <2>11, <2>12 DEF InvB, Truths
<1> QED BY <1>2, <1>3, PublishIs

LEMMA StutterIsTrue ==
  ASSUME InvA, InvB, PublishedStays, UNCHANGED vars
  PROVE  InvB'
<1>1. UNCHANGED <<runs, windows, raw, listed, steady, job, mart, bundle>>
  BY DEF vars, provider, scans
<1>2. ScansAreWhole' /\ Truths'
  BY <1>1, PlainStep
<1> QED BY <1>1, <1>2 DEF InvB, AnswerIsWhole, Pending, Rows

LEMMA StepIsTrue == InvA /\ InvB /\ [Next]_vars => InvB'
<1> SUFFICES ASSUME InvA, InvB, [Next]_vars PROVE InvB'
  OBVIOUS
<1>0. PublishedStays
  BY StepIsGuarded
<1>1. CASE StartTrades \/ \E o \in Owners : \E force \in BOOLEAN : StartBooks(o, force)
  BY <1>0, <1>1, StartIsTrue
<1>2. CASE \E s \in ScanIds : Expire(s)
  BY <1>0, <1>2, ExpireIsTrue
<1>3. CASE GammaDrift \/ LeaseLost \/ Crash \/ NextWindow \/ Reserve \/ NewMonth \/ SetStatus
  BY <1>0, <1>3, PlainSteps
<1>4. CASE Request
  BY <1>0, <1>4, RequestIsTrue
<1>5. CASE Split
  BY <1>0, <1>5, SplitIsTrue
<1>6. CASE MergeBooks
  BY <1>0, <1>6, MergeIsTrue
<1>7. CASE InsertTrade
  BY <1>0, <1>7, InsertIsTrue
<1>8. CASE CompleteWindow
  BY <1>0, <1>8, CompleteIsTrue
<1>9. CASE Publish
  BY <1>0, <1>9, PublishIsTrue
<1>10. CASE BuildMart \/ BuildTrades \/ Export
  BY <1>0, <1>10, MartsAreBuiltTrue
<1>11. CASE Change
  BY <1>0, <1>11, ChangeIsTrue
<1>12. CASE UNCHANGED vars
  BY <1>0, <1>12, StutterIsTrue
<1> QED
  BY <1>1, <1>2, <1>3, <1>4, <1>5, <1>6, <1>7, <1>8, <1>9, <1>10, <1>11, <1>12 DEF Next, Job

(* A published scan holds every item the provider listed from the scan's   *)
(* begin to its end, an order-book scan nothing its windows did not see,   *)
(* and a bundle joins the books and the trades of one capture: however     *)
(* short the answers are cut and wherever a process stopped and resumed.   *)
THEOREM ScansHoldTheSource == Spec => []ScansAreTrue
<1>1. InvA /\ InvB => ScansAreTrue
  <2> SUFFICES ASSUME InvA, InvB PROVE ScansAreTrue
    OBVIOUS
  <2>1. TypeOK
    <3>1. used \in 0..Budget
      BY DEF InvA, Shapes
    <3>2. ASSUME NEW k \in Kinds, NEW s \in ScanIds
          PROVE  /\ runs[k][s].status \in {"none", "running", "paused", "failed", "published"}
                 /\ runs[k][s].live => k = "book" /\ runs[k][s].status = "running" /\ runs[k][s].owner \in Owners
                 /\ \A w \in windows[k][s] : w.from < w.to /\ (w.seen # {} <=> w.status = "loaded")
      <4>1. runs[k][s] \in RunRows
        BY DEF InvA, Shapes, Tables
      <4>2. WindowsAreSound(windows[k][s])
        BY DEF InvB, ScansAreWhole, WindowsAreWhole
      <4> QED BY <4>1, <4>2 DEF InvA, RunRows, Statuses, LeasesAreLive, WindowsAreSound
    <3> QED BY <3>1, <3>2 DEF TypeOK
  <2> QED BY <2>1 DEF ScansAreTrue, InvB, Truths
<1>2. Spec => []InvB
  BY InitIsTrue, StepIsTrue, ScansStayGuarded, PTL DEF Spec
<1> QED BY <1>1, <1>2, ScansStayGuarded, PTL
=============================================================================
