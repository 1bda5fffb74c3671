------------------------------ MODULE FetchProofs ------------------------------
(***************************************************************************)
(* What is fetched from the API is whole.                                  *)
(*                                                                         *)
(* Catalog: nothing it has completed, put into its mart or released is     *)
(* taken back; a complete crawl has missed nothing; and a release is the   *)
(* graph of all complete crawls: for any listing, and any number of        *)
(* crawls, changes, crashes and versions.                                  *)
(*                                                                         *)
(* Minute run: each token has one outcome, and it is the truth of it, for  *)
(* any tokens, windows, workers and rates, however chunks were halved and  *)
(* batches taken apart; requests, units in flight and cache are bounded.   *)
(***************************************************************************)
EXTENDS CatalogCrawl, MinuteFetch, FiniteSetTheorems, WellFoundedInduction, TLAPS

Working == {"pass", "broken", "fail", "failed"}

RunRows == [status: {"none", "running", "failed", "complete"}, observed: Nat, completed: Nat]

(* Tables have a row for every crawl or version; the job has its fields.   *)
Shapes ==
  /\ clock \in Nat /\ runs \in [Crawls -> RunRows]
  /\ pages = [c \in Crawls |-> pages[c]]
  /\ snapshots = [c \in Crawls |-> snapshots[c]]
  /\ releases = [v \in Versions |-> releases[v]]
  /\ job = [pc |-> job.pc, crawl |-> job.crawl, pass |-> job.pass, retried |-> job.retried,
            error |-> job.error, version |-> job.version, release |-> job.release]

(* The job works at a crawl that is not complete or a version that is free.*)
WorkIsOpen ==
  /\ job.pc \in Working \cup {"idle", "install"}
  /\ job.pc \in Working => job.crawl \in Crawls /\ IsOpen(job.crawl)
  /\ job.pc = "install" => job.version \in Versions /\ IsFree(job.version)

(* The mart shows only what complete crawls have observed.                 *)
MartIsObserved ==
  /\ MarketsIn(mart) \subseteq Qualifying(Complete)
  /\ mart.edges \subseteq QualifyingEdges(Complete)
  /\ mart.events \subseteq {e[1] : e \in QualifyingEdges(Complete)}

CrawlsStay ==
  \A c \in Complete : runs'[c] = runs[c] /\ pages'[c] = pages[c] /\ snapshots'[c] = snapshots[c]

MartGrows ==
  /\ MarketsIn(mart) \subseteq MarketsIn(mart') /\ mart.events \subseteq mart'.events
  /\ mart.edges \subseteq mart'.edges

ReleasesStay == \A v \in Versions : releases[v] # NoRelease => releases'[v] = releases[v]

----------------------------------------------------------------------------
(* The initial states *)

LEMMA InitIsOpen == Init => Shapes /\ WorkIsOpen /\ MartIsObserved
<1> SUFFICES ASSUME Init PROVE Shapes /\ WorkIsOpen /\ MartIsObserved
  OBVIOUS
<1>1. Shapes
  BY DEF Init, Shapes, NewRun, Idle, RunRows
<1>2. WorkIsOpen
  BY DEF Init, WorkIsOpen, Working, Idle
<1>3. MartIsObserved
  BY DEF Init, MartIsObserved, NoGraph, MarketsIn
<1> QED BY <1>1, <1>2, <1>3

----------------------------------------------------------------------------
(* The steps of a crawl *)

LEMMA StartStep ==
  ASSUME Shapes, WorkIsOpen, NEW c \in Crawls, Start(c)
  PROVE  Shapes' /\ WorkIsOpen' /\ CrawlsStay
<1>1. Shapes'
  <2>1. runs' \in [Crawls -> RunRows] /\ clock' \in Nat
    <3>1. CASE runs[c].status = "none"
      <4>1. clock' = clock + 1 /\ runs' = [runs EXCEPT ![c] = [status |-> "running", observed |-> clock + 1, completed |-> 0]]
        BY <3>1 DEF Start, NewRun
      <4> QED BY <4>1 DEF Shapes, RunRows
    <3>2. CASE runs[c].status # "none"
      BY <3>2 DEF Shapes, Start, RunRows
    <3> QED BY <3>1, <3>2
  <2>2. job' = [pc |-> "pass", crawl |-> c, pass |-> 1, retried |-> FALSE, error |-> "none",
                version |-> "none", release |-> NoRelease]
    BY DEF Start, Idle
  <2>3. UNCHANGED <<pages, snapshots, releases>>
    BY DEF Start
  <2> QED BY <2>1, <2>2, <2>3 DEF Shapes
<1>2. WorkIsOpen'
  BY DEF Shapes, WorkIsOpen, Working, Start, IsOpen, RunRows, NewRun, Idle
<1>3. CrawlsStay
  BY DEF Shapes, CrawlsStay, Complete, Start, IsOpen
<1> QED BY <1>1, <1>2, <1>3

LEMMA PageSteps ==
  ASSUME Shapes, WorkIsOpen, FetchPage \/ PassBreaks
  PROVE  Shapes' /\ WorkIsOpen' /\ CrawlsStay
<1>1. job.crawl \in Crawls /\ job.crawl \notin Complete
  BY DEF WorkIsOpen, Working, IsOpen, Complete, FetchPage, PassBreaks
<1>2. PICK x : pages' = pages \/ pages' = [pages EXCEPT ![job.crawl][job.pass] = x]
  BY DEF FetchPage, PassBreaks
<1>3. UNCHANGED <<runs, clock, snapshots, releases>>
  BY DEF FetchPage, PassBreaks
<1>4. CrawlsStay
  BY <1>1, <1>2, <1>3 DEF Shapes, CrawlsStay, Complete
<1>5. Shapes'
  <2>1. (pages = [c \in Crawls |-> pages[c]])'
    BY <1>2 DEF Shapes
  <2>2. (job = [pc |-> job.pc, crawl |-> job.crawl, pass |-> job.pass, retried |-> job.retried,
                error |-> job.error, version |-> job.version, release |-> job.release])'
    BY DEF Shapes, FetchPage, PassBreaks
  <2> QED BY <1>3, <2>1, <2>2 DEF Shapes
<1>6. job'.pc \in Working /\ job'.crawl = job.crawl
  BY DEF Shapes, Working, FetchPage, PassBreaks
<1>7. WorkIsOpen'
  BY <1>1, <1>3, <1>6 DEF WorkIsOpen, Working, IsOpen, Complete
<1> QED BY <1>4, <1>5, <1>7

LEMMA JobSteps ==
  ASSUME Shapes, WorkIsOpen, NextPass \/ FetchFails \/ RecordIssue
  PROVE  Shapes' /\ WorkIsOpen' /\ CrawlsStay
<1>1. UNCHANGED <<runs, pages, clock, snapshots, releases>>
  BY DEF NextPass, FetchFails, RecordIssue, crawled
<1>2. job.pc \in Working /\ job'.pc \in Working /\ job'.crawl = job.crawl
  BY DEF Shapes, Working, NextPass, FetchFails, RecordIssue
<1>3. (job = [pc |-> job.pc, crawl |-> job.crawl, pass |-> job.pass, retried |-> job.retried,
              error |-> job.error, version |-> job.version, release |-> job.release])'
  BY DEF Shapes, NextPass, FetchFails, RecordIssue
<1>4. Shapes' /\ CrawlsStay
  BY <1>1, <1>3 DEF Shapes, CrawlsStay
<1>5. WorkIsOpen'
  BY <1>1, <1>2 DEF WorkIsOpen, Working, IsOpen
<1> QED BY <1>4, <1>5

(* A crawl is activated only if it was not complete, and all its rows with *)
(* it: no other crawl is touched.                                          *)
LEMMA ActivateStep ==
  ASSUME Shapes, WorkIsOpen, Activate
  PROVE  Shapes' /\ WorkIsOpen' /\ CrawlsStay
<1> DEFINE c == job.crawl
<1>1. c \in Crawls /\ c \notin Complete
  BY DEF WorkIsOpen, Working, IsOpen, Complete, Activate
<1>2. UNCHANGED <<pages, releases>>
  BY DEF Activate
<1>3. CASE job' \in {[job EXCEPT !.pc = "fail", !.error = e] : e \in {"value", "runtime"}}
           /\ UNCHANGED <<runs, snapshots, clock>>
  <2>1. job'.pc \in Working /\ job'.crawl = job.crawl
    BY <1>3 DEF Shapes, Working
  <2>2. Shapes'
    <3>1. PICK e : job' = [job EXCEPT !.pc = "fail", !.error = e]
      BY <1>3
    <3>2. job' = [pc |-> "fail", crawl |-> job.crawl, pass |-> job.pass, retried |-> job.retried,
                  error |-> e, version |-> job.version, release |-> job.release]
      BY <3>1 DEF Shapes
    <3> QED BY <1>2, <1>3, <3>2 DEF Shapes
  <2>3. WorkIsOpen'
    BY <1>1, <1>2, <1>3, <2>1 DEF WorkIsOpen, Working, IsOpen, Complete
  <2>4. CrawlsStay
    BY <1>2, <1>3 DEF CrawlsStay
  <2> QED BY <2>2, <2>3, <2>4
<1>4. CASE /\ snapshots' = [snapshots EXCEPT ![c] = Normalized(c)]
           /\ clock' = clock + 1
           /\ runs' = [runs EXCEPT ![c] = [status |-> "complete", observed |-> @.observed, completed |-> clock + 1]]
           /\ job' = Idle
  <2>1. CrawlsStay
    BY <1>1, <1>2, <1>4 DEF Shapes, CrawlsStay, Complete
  <2>2. runs' \in [Crawls -> RunRows] /\ clock' \in Nat
    <3> DEFINE row == [status |-> "complete", observed |-> runs[c].observed, completed |-> clock + 1]
    <3>1. runs[c] \in RunRows /\ clock \in Nat
      BY <1>1 DEF Shapes
    <3>2. row \in RunRows
      BY <3>1 DEF RunRows
    <3>3. runs' = [runs EXCEPT ![c] = row]
      BY <1>4
    <3>4. runs' \in [Crawls -> RunRows]
      BY <1>1, <3>2, <3>3 DEF Shapes
    <3> QED BY <1>4, <3>1, <3>4
  <2>3. (snapshots = [d \in Crawls |-> snapshots[d]])'
    BY <1>1, <1>4 DEF Shapes
  <2>4. Shapes'
    BY <1>2, <1>4, <2>2, <2>3 DEF Shapes, Idle
  <2>5. WorkIsOpen'
    BY <1>4 DEF WorkIsOpen, Working, Idle
  <2> QED BY <2>1, <2>4, <2>5
<1> QED
  <2>1. CASE Conflicts(c)
    BY <1>3, <2>1 DEF Activate
  <2>2. CASE ~Conflicts(c) /\ (c \in issues \/ ~AllComplete(c))
    BY <1>3, <2>2 DEF Activate
  <2>3. CASE ~Conflicts(c) /\ ~(c \in issues \/ ~AllComplete(c))
    BY <1>4, <2>3 DEF Activate
  <2> QED BY <2>1, <2>2, <2>3

LEMMA MarkFailedStep ==
  ASSUME Shapes, WorkIsOpen, MarkFailed
  PROVE  Shapes' /\ WorkIsOpen' /\ CrawlsStay
<1>1. job.crawl \in Crawls /\ job.crawl \notin Complete
  BY DEF WorkIsOpen, Working, IsOpen, Complete, MarkFailed
<1>2. Shapes'
  BY <1>1 DEF Shapes, MarkFailed, RunRows, Idle
<1>3. WorkIsOpen'
  BY DEF WorkIsOpen, Working, MarkFailed, Idle
<1>4. CrawlsStay
  BY <1>1 DEF Shapes, CrawlsStay, Complete, MarkFailed
<1> QED BY <1>2, <1>3, <1>4

----------------------------------------------------------------------------
(* The mart and its releases *)

LEMMA BuildStep ==
  ASSUME Shapes, WorkIsOpen, MartIsObserved, BuildMart
  PROVE  Shapes' /\ WorkIsOpen' /\ CrawlsStay /\ MartIsObserved' /\ MartGrows
<1>1. UNCHANGED <<crawled, releases, job>> /\ mart' = Graph
  BY DEF BuildMart
<1>2. UNCHANGED <<runs, pages, snapshots, clock>>
  BY <1>1 DEF crawled
<1>3. Shapes' /\ WorkIsOpen' /\ CrawlsStay
  BY <1>1, <1>2 DEF Shapes, WorkIsOpen, IsOpen, IsFree, CrawlsStay
<1>4. MarketsIn(Graph) = Qualifying(Complete)
  <2>1. Graph.markets = {MarketNode(m) : m \in Qualifying(Complete)}
    BY DEF Graph, Observed
  <2>2. \A m : MarketNode(m).market = m
    BY DEF MarketNode
  <2> QED BY <2>1, <2>2 DEF MarketsIn
<1>5. Graph.edges = QualifyingEdges(Complete) /\ Graph.events = {e[1] : e \in QualifyingEdges(Complete)}
  BY DEF Graph, Observed
<1>6. MarketsIn(mart') = Qualifying(Complete)
  BY <1>1, <1>4
<1>7. MartGrows
  BY <1>1, <1>5, <1>6 DEF MartGrows, MartIsObserved
<1>8. UNCHANGED <<Qualifying(Complete), QualifyingEdges(Complete)>>
  BY <1>2 DEF Qualifying, QualifyingEdges, Complete
<1>9. MartIsObserved'
  BY <1>1, <1>5, <1>6, <1>8 DEF MartIsObserved, MarketsIn
<1> QED BY <1>3, <1>7, <1>9

(* As complete crawls stay and others may join them, what they have        *)
(* observed together only grows.                                           *)
LEMMA ObservedGrows ==
  ASSUME CrawlsStay, UNCHANGED mart, MartIsObserved
  PROVE  MartIsObserved' /\ MartGrows
<1>1. Complete \subseteq Complete' /\ \A c \in Complete : snapshots'[c] = snapshots[c]
  BY DEF CrawlsStay, Complete
<1>2. Qualifying(Complete) \subseteq Qualifying(Complete)'
  BY <1>1 DEF Qualifying
<1>3. QualifyingEdges(Complete) \subseteq QualifyingEdges(Complete)'
  BY <1>1, <1>2 DEF QualifyingEdges
<1>4. MartIsObserved'
  BY <1>2, <1>3 DEF MartIsObserved, MarketsIn
<1> QED BY <1>4 DEF MartGrows

LEMMA ReleaseSteps ==
  ASSUME Shapes, WorkIsOpen, Install \/ \E v \in Versions : PrepareRelease(v)
  PROVE  Shapes' /\ WorkIsOpen' /\ CrawlsStay /\ ReleasesStay
<1>1. UNCHANGED <<runs, pages, snapshots, clock>>
  BY DEF Install, PrepareRelease, crawled
<1>2. Shapes'
  BY <1>1 DEF Shapes, Install, PrepareRelease, Idle
<1>3. WorkIsOpen'
  <2>1. CASE Install
    BY <1>1, <2>1 DEF WorkIsOpen, Working, Install, Idle
  <2>2. CASE \E v \in Versions : PrepareRelease(v)
    <3>1. PICK v \in Versions : PrepareRelease(v)
      BY <2>2
    <3>2. job'.pc = "install" /\ job'.version = v
      BY <3>1 DEF PrepareRelease, Idle
    <3>3. releases' = releases /\ releases[v] = NoRelease
      BY <3>1 DEF PrepareRelease, IsFree
    <3> QED BY <3>2, <3>3 DEF WorkIsOpen, Working, IsFree
  <2> QED BY <2>1, <2>2
<1>4. ReleasesStay
  BY DEF Shapes, WorkIsOpen, IsFree, ReleasesStay, Install, PrepareRelease
<1> QED BY <1>1, <1>2, <1>3, <1>4 DEF CrawlsStay

----------------------------------------------------------------------------
LEMMA StepTakesNothingBack ==
  ASSUME Shapes, WorkIsOpen, MartIsObserved, [Next]_vars
  PROVE  /\ Shapes' /\ WorkIsOpen' /\ MartIsObserved'
         /\ CrawlsStay /\ MartGrows /\ ReleasesStay
<1>1. CASE \E c \in Crawls : Start(c)
  <2>1. UNCHANGED <<mart, releases>>
    BY <1>1 DEF Start
  <2> QED BY <1>1, <2>1, StartStep, ObservedGrows DEF ReleasesStay
<1>2. CASE FetchPage \/ PassBreaks
  <2>1. UNCHANGED <<mart, releases>>
    BY <1>2 DEF FetchPage, PassBreaks
  <2> QED BY <1>2, <2>1, PageSteps, ObservedGrows DEF ReleasesStay
<1>3. CASE NextPass \/ FetchFails \/ RecordIssue
  <2>1. UNCHANGED <<mart, releases>>
    BY <1>3 DEF NextPass, FetchFails, RecordIssue
  <2> QED BY <1>3, <2>1, JobSteps, ObservedGrows DEF ReleasesStay
<1>4. CASE Activate
  <2>1. UNCHANGED <<mart, releases>>
    BY <1>4 DEF Activate
  <2> QED BY <1>4, <2>1, ActivateStep, ObservedGrows DEF ReleasesStay
<1>5. CASE MarkFailed
  <2>1. UNCHANGED <<mart, releases>>
    BY <1>5 DEF MarkFailed
  <2> QED BY <1>5, <2>1, MarkFailedStep, ObservedGrows DEF ReleasesStay
<1>6. CASE BuildMart
  BY <1>6, BuildStep DEF BuildMart, ReleasesStay
<1>7. CASE Install \/ \E v \in Versions : PrepareRelease(v)
  <2>1. UNCHANGED mart
    BY <1>7 DEF Install, PrepareRelease
  <2> QED BY <1>7, <2>1, ReleaseSteps, ObservedGrows
<1>8. CASE Crash \/ Change \/ UNCHANGED vars
  <2>1. UNCHANGED <<runs, pages, snapshots, clock, mart, releases>> /\ (job' = Idle \/ job' = job)
    BY <1>8 DEF Crash, Change, crawled, vars
  <2>2. Shapes' /\ CrawlsStay /\ ReleasesStay
    BY <2>1 DEF Shapes, Idle, CrawlsStay, ReleasesStay
  <2>3. WorkIsOpen'
    BY <2>1 DEF WorkIsOpen, Working, IsOpen, IsFree, Idle
  <2> QED BY <2>1, <2>2, <2>3, ObservedGrows
<1> QED
  BY <1>1, <1>2, <1>3, <1>4, <1>5, <1>6, <1>7, <1>8 DEF Next, Step

(* A complete crawl, what the mart shows and a release stay for good,      *)
(* whatever crawls, crashes, builds and releases follow.                   *)
THEOREM CatalogTakesNothingBack == Spec => NothingIsTakenBack
<1>1. Init => Shapes /\ WorkIsOpen /\ MartIsObserved
  BY InitIsOpen
<1>2. Shapes /\ WorkIsOpen /\ MartIsObserved /\ [Next]_vars
        => /\ Shapes' /\ WorkIsOpen' /\ MartIsObserved'
           /\ [CrawlsStay]_vars /\ [MartGrows]_vars /\ [ReleasesStay]_vars
  BY StepTakesNothingBack
<1>3. Spec => [][CrawlsStay]_vars /\ [][MartGrows]_vars /\ [][ReleasesStay]_vars
  BY <1>1, <1>2, PTL DEF Spec
<1> QED
  BY <1>3 DEF NothingIsTakenBack, CompleteIsFinal, NothingForgotten, ReleasesAreImmutable,
              CrawlsStay, MartGrows, ReleasesStay
----------------------------------------------------------------------------
(* What a crawl observes *)

MarketSet  == [market : Markets, tradable : BOOLEAN, condition : Int]
RowSet     == [events : SUBSET Events, markets : SUBSET MarketSet, edges : SUBSET Membership]
PageSet    == {x \in [id : Events \cup Markets \cup {0}, row : RowSet, next : Nat] : x.next \in {0, x.id}}
Snapshot   == [events : SUBSET Events, markets : SUBSET [market : Markets, tradable : BOOLEAN], edges : SUBSET Membership]

(* Tables hold what Gamma may list; what is listed stays listed, closed    *)
(* items stay closed.                                                      *)
Tables ==
  /\ closed \subseteq listed /\ listed \subseteq Items /\ condition \in [Markets -> Int]
  /\ pages \in [Crawls -> [1..4 -> Seq(PageSet)]]
  /\ snapshots \in [Crawls -> Snapshot] /\ since = [c \in Crawls |-> since[c]]
  /\ issues \subseteq Crawls
  /\ \A c \in Crawls : runs[c].observed <= clock /\ runs[c].completed <= clock /\ since[c] \subseteq listed

(* A crawl that has not begun has no page, one that is not complete no     *)
(* snapshot; a pass is begun when those before it have ended, and broken   *)
(* when it has not.                                                        *)
InOrder ==
  /\ \A c \in Crawls : /\ runs[c].status = "none" => \A p \in 1..4 : pages[c][p] = <<>>
                       /\ IsOpen(c) => snapshots[c] = NoGraph
                       /\ \A p \in 1..4 : pages[c][p] # <<>> => \A q \in 1..p - 1 : IsDone(pages[c][q])
  /\ job.pass \in 1..5
  /\ job.pc \in Working => runs[job.crawl].status # "none"
  /\ job.pc \in {"pass", "broken"} => \A q \in 1..job.pass - 1 : IsDone(pages[job.crawl][q])
  /\ job.pc = "broken" => job.pass <= 4 /\ ~IsDone(pages[job.crawl][job.pass])

Observes(row, i) == IF i[1] = "event" THEN i[2] \in row.events ELSE i[2] \in {r.market : r \in row.markets}

Seen(c, p, i) == \E k \in DOMAIN pages[c][p] : Observes(pages[c][p][k].row, i)

(* The stored pages of a pass have gone past a number.                     *)
Past(stored, n) == stored # <<>> /\ (Last(stored).next = 0 \/ n <= Last(stored).next)

(* What was listed when a crawl began and a pass has gone past is in its   *)
(* pages, was in those of the pass before it, or has closed.               *)
NothingPassed ==
  \A c \in Crawls : \A i \in since[c], p \in 1..4 :
    i[1] = Passes[p].kind /\ Past(pages[c][p], i[2]) =>
      \/ Seen(c, p, i)
      \/ IF Passes[p].closed THEN Seen(c, p - 1, i) ELSE i \in closed

(* The mart has one node for each market.                                  *)
NodesAreOne == \A n, k \in mart.markets : n.market = k.market => n = k

InvC == Tables /\ InOrder /\ PagesAreOneWalk /\ NothingPassed /\ NothingMissed /\ NodesAreOne /\ ReleaseIsComplete

----------------------------------------------------------------------------
(* One page of Gamma *)

(* A set of numbers has a smallest one.                                    *)
LEMMA Smallest ==
  ASSUME NEW S \in SUBSET Nat, S # {}
  PROVE  \E x \in S : \A y \in S : x <= y
<1> DEFINE R == StrictSubsetOrdering(Nat)
           T == {0..x : x \in S}
<1>1. \A x, y \in Nat : y < x => <<0..y, 0..x>> \in R
  <2> TAKE x, y \in Nat
  <2> HAVE y < x
  <2>1. 0..y \in SUBSET Nat /\ 0..x \in SUBSET Nat /\ 0..y \subseteq 0..x
    OBVIOUS
  <2>2. x \in 0..x /\ x \notin 0..y
    OBVIOUS
  <2>3. 0..y # 0..x
    BY <2>2
  <2> QED BY <2>1, <2>3 DEF StrictSubsetOrdering
<1>2. T \subseteq FiniteSubsetsOf(Nat) /\ T # {}
  <2>1. \A x \in S : 0..x \in FiniteSubsetsOf(Nat)
    <3> TAKE x \in S
    <3>1. IsFiniteSet(0..x)
      BY FS_Interval
    <3>2. 0..x \in SUBSET Nat
      OBVIOUS
    <3> QED BY <3>1, <3>2 DEF FiniteSubsetsOf
  <2> QED BY <2>1
<1>3. \E t \in T : \A u \in T : ~(<<u, t>> \in R)
  <2> HIDE DEF R, T
  <2>1. IsWellFoundedOn(R, FiniteSubsetsOf(Nat))
    BY FS_StrictSubsetOrderingWellFounded DEF R
  <2> QED BY <1>2, <2>1, WFMin
<1> HIDE DEF R
<1>4. PICK x \in S : \A y \in S : ~(<<0..y, 0..x>> \in R)
  <2>1. \A x \in S : 0..x \in T
    OBVIOUS
  <2>2. PICK t \in T : \A u \in T : ~(<<u, t>> \in R)
    BY <1>3
  <2>3. PICK x \in S : t = 0..x
    BY <2>2
  <2> QED BY <2>1, <2>2, <2>3
<1>5. \A y \in S : x <= y
  <2> TAKE y \in S
  <2>1. x \in Nat /\ y \in Nat /\ ~(y < x)
    BY <1>1, <1>4
  <2> QED BY <2>1
<1> QED BY <1>5

LEMMA MinIs ==
  ASSUME NEW S \in SUBSET Nat, S # {}
  PROVE  Min(S) \in S /\ \A y \in S : Min(S) <= y
BY Smallest DEF Min

LEMMA PassesAre ==
  /\ Len(Passes) = 4
  /\ \A p \in 1..4 : Passes[p].kind \in {"event", "market"} /\ Passes[p].closed \in BOOLEAN
  /\ \A p \in 1..4 : Passes[p].closed =>
       p - 1 \in 1..4 /\ Passes[p - 1].kind = Passes[p].kind /\ ~Passes[p - 1].closed
  /\ \A kind \in {"event", "market"} : \E p \in 1..4 : Passes[p].kind = kind /\ Passes[p].closed
<1>1. Passes[1].kind = "event" /\ Passes[1].closed = FALSE /\ Passes[2].kind = "event" /\ Passes[2].closed = TRUE
  BY DEF Passes
<1>2. Passes[3].kind = "market" /\ Passes[3].closed = FALSE /\ Passes[4].kind = "market" /\ Passes[4].closed = TRUE
  BY DEF Passes
<1>3. Len(Passes) = 4
  BY DEF Passes
<1>4. \A p \in 1..4 : p = 1 \/ p = 2 \/ p = 3 \/ p = 4
  OBVIOUS
<1>5. \A p \in 1..4 : Passes[p].kind \in {"event", "market"} /\ Passes[p].closed \in BOOLEAN
  BY <1>1, <1>2, <1>4
<1>6. \A p \in 1..4 : Passes[p].closed =>
        p - 1 \in 1..4 /\ Passes[p - 1].kind = Passes[p].kind /\ ~Passes[p - 1].closed
  BY <1>1, <1>2, <1>4
<1>7. 2 \in 1..4 /\ 4 \in 1..4
  OBVIOUS
<1> QED BY <1>1, <1>2, <1>3, <1>5, <1>6, <1>7

LEMMA ItemsAre ==
  ASSUME NEW i \in Items
  PROVE  /\ i = <<i[1], i[2]>> /\ i[1] \in {"event", "market"}
         /\ i[2] \in IF i[1] = "event" THEN Events ELSE Markets
BY DEF Items

LEMMA ListingIs ==
  ASSUME Tables, NEW p \in 1..4
  PROVE  /\ Listing(p) \subseteq IF Passes[p].kind = "event" THEN Events ELSE Markets
         /\ \A n \in Listing(p) : <<Passes[p].kind, n>> \in listed
         /\ \A i \in listed : i[1] = Passes[p].kind /\ (i \in closed) = Passes[p].closed => i[2] \in Listing(p)
<1>1. \A n \in Listing(p) : \E i \in listed : i[1] = Passes[p].kind /\ i[2] = n
  BY DEF Listing
<1>2. listed \subseteq Items
  BY DEF Tables
<1>3. \A n \in Listing(p) : <<Passes[p].kind, n>> \in listed /\ n \in IF Passes[p].kind = "event" THEN Events ELSE Markets
  BY <1>1, <1>2, ItemsAre
<1>4. \A i \in listed : i[1] = Passes[p].kind /\ (i \in closed) = Passes[p].closed => i[2] \in Listing(p)
  BY DEF Listing
<1> QED BY <1>3, <1>4

LEMMA RowIs ==
  ASSUME Tables, NEW p \in 1..4, NEW n \in Listing(p)
  PROVE  Row(p, n) \in RowSet /\ Observes(Row(p, n), <<Passes[p].kind, n>>)
<1>1. \A m \in Markets : MarketRow(m) \in MarketSet /\ MarketRow(m).market = m
  BY DEF Tables, MarketRow, MarketSet
<1>2. CASE Passes[p].kind = "event"
  <2> DEFINE inside == {m \in Markets : <<n, m>> \in Membership /\ <<"market", m>> \in listed}
  <2>1. Row(p, n) = [events |-> {n}, markets |-> {MarketRow(m) : m \in inside}, edges |-> {<<n, m>> : m \in inside}]
    BY <1>2 DEF Row
  <2>2. n \in Events
    BY <1>2, ListingIs
  <2>3. /\ {n} \in SUBSET Events /\ {MarketRow(m) : m \in inside} \in SUBSET MarketSet
        /\ {<<n, m>> : m \in inside} \in SUBSET Membership
    BY <1>1, <2>2
  <2> HIDE DEF inside
  <2>4. Row(p, n) \in RowSet
    BY <2>1, <2>3 DEF RowSet
  <2> QED BY <1>2, <2>1, <2>4 DEF Observes
<1>3. CASE Passes[p].kind = "market"
  <2> DEFINE around == {e \in Events : <<e, n>> \in Membership /\ <<"event", e>> \in listed}
  <2>1. Row(p, n) = [events |-> around, markets |-> {MarketRow(n)}, edges |-> {<<e, n>> : e \in around}]
    BY <1>3 DEF Row
  <2>2. n \in Markets
    BY <1>3, ListingIs
  <2>3. Row(p, n) \in RowSet
    <3>1. /\ around \in SUBSET Events /\ {MarketRow(n)} \in SUBSET MarketSet
          /\ {<<e, n>> : e \in around} \in SUBSET Membership
      BY <1>1, <2>2
    <3> HIDE DEF around
    <3> QED BY <2>1, <3>1 DEF RowSet
  <2> QED BY <1>1, <1>3, <2>1, <2>2, <2>3 DEF Observes
<1> QED BY <1>2, <1>3, PassesAre

(* A page goes past nothing that is listed without observing it.           *)
LEMMA PageIs ==
  ASSUME Tables, NEW p \in 1..4, NEW cursor \in Nat
  PROVE  /\ Page(p, cursor) \in PageSet
         /\ Page(p, cursor).id = 0 \/ Page(p, cursor).id > cursor
         /\ \A n \in Listing(p) : n > cursor /\ (Page(p, cursor).next = 0 \/ n <= Page(p, cursor).next) =>
              Observes(Page(p, cursor).row, <<Passes[p].kind, n>>)
<1> DEFINE rest == {n \in Listing(p) : n > cursor}
           first == Min(rest)
           next == IF Cardinality(rest) = 1 THEN 0 ELSE first
<1>1. Listing(p) \subseteq Events \cup Markets /\ Events \cup Markets \subseteq Nat \ {0}
  BY ListingIs, CatalogAssumption
<1>2. CASE rest = {}
  <2>1. Page(p, cursor) = [id |-> 0, row |-> NoGraph, next |-> 0]
    BY <1>2 DEF Page
  <2>2. NoGraph \in RowSet
    BY DEF NoGraph, RowSet
  <2> QED BY <1>1, <1>2, <2>1, <2>2 DEF PageSet
<1>3. CASE rest # {}
  <2>1. first \in rest /\ \A n \in rest : first <= n
    <3>1. rest \in SUBSET Nat
      BY <1>1
    <3> HIDE DEF rest
    <3> QED BY <1>3, <3>1, MinIs
  <2>2. Page(p, cursor) = [id |-> first, row |-> Row(p, first), next |-> next]
    BY <1>3 DEF Page
  <2>3. first \in Listing(p) /\ first > cursor /\ first \in Nat \ {0}
    BY <1>1, <2>1
  <2>4. Row(p, first) \in RowSet /\ Observes(Row(p, first), <<Passes[p].kind, first>>)
    <3> HIDE DEF first
    <3> QED BY <2>3, RowIs
  <2>5. next = 0 => rest = {first}
    <3> SUFFICES ASSUME next = 0 PROVE rest = {first}
      OBVIOUS
    <3>1. Cardinality(rest) = 1
      BY <2>3
    <3>2. IsFiniteSet(rest)
      <4>1. rest \in SUBSET (Events \cup Markets)
        BY <1>1
      <4> HIDE DEF rest
      <4> QED BY <4>1, FS_Subset, CatalogAssumption
    <3> HIDE DEF rest, first
    <3> QED BY <2>1, <3>1, <3>2, FS_Singleton
  <2>6. next \in {0, first}
    OBVIOUS
  <2> HIDE DEF next, first
  <2>7. Page(p, cursor) \in PageSet
    BY <1>1, <2>2, <2>3, <2>4, <2>6 DEF PageSet
  <2>8. ASSUME NEW n \in Listing(p), n > cursor, next = 0 \/ n <= next PROVE n = first
    <3>1. n \in rest
      BY <2>8
    <3>2. n \in Nat /\ first \in Nat
      BY <1>1, <2>3
    <3> HIDE DEF rest
    <3> QED BY <2>1, <2>3, <2>5, <2>6, <2>8, <3>1, <3>2
  <2> QED BY <2>2, <2>3, <2>4, <2>7, <2>8
<1> QED BY <1>2, <1>3

----------------------------------------------------------------------------
(* The walk through the passes *)

Walk == Tables /\ InOrder /\ PagesAreOneWalk /\ NothingPassed

LEMMA PagesAre ==
  ASSUME Tables, NEW c \in Crawls, NEW p \in 1..4
  PROVE  /\ pages[c][p] \in Seq(PageSet)
         /\ \A k \in 1..Len(pages[c][p]) : pages[c][p][k] \in PageSet
         /\ pages[c][p] # <<>> => /\ Len(pages[c][p]) \in Nat \ {0}
                                  /\ Last(pages[c][p]) = pages[c][p][Len(pages[c][p])]
                                  /\ Last(pages[c][p]) \in PageSet
         /\ Cursor(pages[c][p]) \in Nat
<1>1. pages[c][p] \in Seq(PageSet)
  BY DEF Tables
<1> DEFINE stored == pages[c][p]
<1>2. Last(stored) = stored[Len(stored)]
  BY DEF Last
<1> HIDE DEF stored
<1>3. stored \in Seq(PageSet)
  BY <1>1 DEF stored
<1>4. /\ \A k \in 1..Len(stored) : stored[k] \in PageSet
      /\ stored # <<>> => Len(stored) \in Nat \ {0} /\ Last(stored) = stored[Len(stored)] /\ Last(stored) \in PageSet
  BY <1>2, <1>3
<1>5. Cursor(stored) \in Nat
  BY <1>4 DEF Cursor, PageSet
<1> QED BY <1>1, <1>4, <1>5 DEF stored

LEMMA AppendIs ==
  ASSUME NEW S, NEW s \in Seq(S), NEW x \in S
  PROVE  /\ Append(s, x) \in Seq(S) /\ Len(Append(s, x)) = Len(s) + 1 /\ Append(s, x) # <<>>
         /\ Append(s, x)[Len(s) + 1] = x /\ DOMAIN Append(s, x) = 1..Len(s) + 1
         /\ \A k \in 1..Len(s) : Append(s, x)[k] = s[k]
<1>1. Append(s, x) \in Seq(S) /\ Len(Append(s, x)) = Len(s) + 1 /\ Len(s) \in Nat
  OBVIOUS
<1>2. Append(s, x)[Len(s) + 1] = x /\ \A k \in 1..Len(s) : Append(s, x)[k] = s[k]
  OBVIOUS
<1>3. DOMAIN Append(s, x) = 1..Len(s) + 1 /\ Append(s, x) # <<>>
  BY <1>1
<1> QED BY <1>1, <1>2, <1>3

LEMMA InitWalks == Init => Walk /\ NothingMissed /\ NodesAreOne /\ ReleaseIsComplete
<1> SUFFICES ASSUME Init PROVE Walk /\ NothingMissed /\ NodesAreOne /\ ReleaseIsComplete
  OBVIOUS
<1>1. \A c \in Crawls : /\ runs[c] = NewRun /\ snapshots[c] = NoGraph /\ since[c] = {}
                        /\ pages[c] = [p \in 1..4 |-> <<>>]
  BY PassesAre DEF Init
<1>2. Tables
  <2>1. pages \in [Crawls -> [1..4 -> Seq(PageSet)]]
    BY PassesAre DEF Init
  <2>2. snapshots \in [Crawls -> Snapshot]
    BY DEF Init, Snapshot, NoGraph
  <2>3. closed \subseteq listed /\ listed \subseteq Items /\ condition \in [Markets -> Int] /\ issues \subseteq Crawls
    BY ListedAssumption DEF Init
  <2>4. since = [c \in Crawls |-> since[c]]
    BY DEF Init
  <2>5. \A c \in Crawls : runs[c].observed <= clock /\ runs[c].completed <= clock
    BY <1>1 DEF Init, NewRun
  <2> QED BY <1>1, <2>1, <2>2, <2>3, <2>4, <2>5 DEF Tables
<1>3. InOrder
  BY <1>1 DEF Init, InOrder, Idle, Working
<1>4. PagesAreOneWalk
  BY <1>1, PassesAre DEF PagesAreOneWalk
<1>5. NothingPassed
  BY <1>1 DEF NothingPassed
<1>6. Complete = {}
  BY <1>1 DEF Complete, NewRun
<1>7. NothingMissed /\ NodesAreOne /\ ReleaseIsComplete
  BY <1>6 DEF Init, NothingMissed, NodesAreOne, NoGraph, ReleaseIsComplete, Idle
<1> QED BY <1>2, <1>3, <1>4, <1>5, <1>7 DEF Walk

(* A page goes on where the one before it ended, and observes all that it  *)
(* goes past.                                                              *)
LEMMA FetchWalks ==
  ASSUME Shapes, WorkIsOpen, Walk, FetchPage, NEW c \in Crawls, NEW p \in 1..4, job.crawl = c, job.pass = p
  PROVE  Walk'
<1> DEFINE old == pages[c][p]
           page == Page(p, Cursor(old))
           new == Append(old, page)
<1>1. runs[c].status # "none" /\ IsOpen(c)
  BY DEF FetchPage, WorkIsOpen, Working, Walk, InOrder
<1>2. /\ ~IsDone(old) /\ pages' = [pages EXCEPT ![c][p] = new]
      /\ job' = job \/ job' = [job EXCEPT !.pc = "broken", !.error = "runtime"]
      /\ page.next = 0 => job' = job
  BY DEF FetchPage, Stored
<1>3. UNCHANGED <<listed, closed, condition, snapshots, since, issues, runs, clock>>
  BY DEF FetchPage, source
<1>4. /\ old \in Seq(PageSet) /\ Cursor(old) \in Nat
      /\ \A k \in 1..Len(old) : old[k] \in PageSet
      /\ old # <<>> => Len(old) \in Nat \ {0} /\ Last(old) = old[Len(old)] /\ Last(old) \in PageSet
  BY <1>1, PagesAre DEF Walk
<1>5. /\ page \in PageSet
      /\ page.id = 0 \/ page.id > Cursor(old)
      /\ \A n \in Listing(p) : n > Cursor(old) /\ (page.next = 0 \/ n <= page.next) =>
           Observes(page.row, <<Passes[p].kind, n>>)
  <2> HIDE DEF old
  <2> QED BY <1>1, <1>4, PageIs DEF Walk
<1>6. old # <<>> => Cursor(old) = old[Len(old)].id /\ old[Len(old)].next = old[Len(old)].id /\ old[Len(old)].id # 0
  BY <1>2, <1>4 DEF IsDone, Cursor, PageSet
<1>7. pages \in [Crawls -> [1..4 -> Seq(PageSet)]]
  BY DEF Walk, Tables
<1> HIDE DEF page
<1>8. /\ new \in Seq(PageSet) /\ Len(new) = Len(old) + 1 /\ new[Len(old) + 1] = page /\ new # <<>>
      /\ DOMAIN new = 1..Len(old) + 1 /\ \A k \in 1..Len(old) : new[k] = old[k]
  <2> HIDE DEF old
  <2>1. old \in Seq(PageSet) /\ page \in PageSet
    BY <1>4, <1>5
  <2> QED BY <2>1, AppendIs
<1> HIDE DEF new
<1>9. Last(new) = page
  <2>1. Last(new) = new[Len(new)]
    BY DEF Last
  <2> QED BY <1>8, <2>1
<1>10. \A d \in Crawls, q \in 1..4 : pages'[d][q] = IF d = c /\ q = p THEN new ELSE pages[d][q]
  <2> QED BY <1>1, <1>2, <1>7
<1>11. pages' \in [Crawls -> [1..4 -> Seq(PageSet)]]
  <2> QED BY <1>1, <1>2, <1>7, <1>8
<1>12. Tables'
  BY <1>3, <1>11 DEF Walk, Tables
<1>13. \A q \in 1..p - 1 : IsDone(pages[c][q])
  BY DEF FetchPage, Walk, InOrder
<1>14. \A q \in 1..4 : q > p => pages[c][q] = <<>>
  <2> SUFFICES ASSUME NEW q \in 1..4, q > p, pages[c][q] # <<>> PROVE FALSE
    OBVIOUS
  <2>1. p \in 1..q - 1
    BY <1>1
  <2>2. IsDone(pages[c][p])
    BY <1>1, <2>1 DEF Walk, InOrder
  <2> QED BY <1>2, <2>2
<1>15. InOrder'
  <2>1. job'.pass = p /\ job'.crawl = c /\ job'.pc \in {"pass", "broken"} /\ (job'.pc = "broken" => page.next # 0)
    <3>1. job.pc = "pass"
      BY DEF FetchPage
    <3> QED BY <1>2, <3>1 DEF Shapes
  <2>2. ~IsDone(new) \/ job'.pc # "broken"
    BY <1>9, <2>1 DEF IsDone
  <2>3. \A q \in 1..p - 1 : q \in 1..4 /\ pages'[c][q] = pages[c][q]
    BY <1>1, <1>10
  <2>4. \A d \in Crawls, q \in 1..4 : pages'[d][q] # <<>> => \A r \in 1..q - 1 : IsDone(pages'[d][r])
    <3> SUFFICES ASSUME NEW d \in Crawls, NEW q \in 1..4, pages'[d][q] # <<>>, NEW r \in 1..q - 1
                 PROVE  IsDone(pages'[d][r])
      OBVIOUS
    <3>1. r \in 1..4 /\ r < q
      OBVIOUS
    <3>2. CASE d = c /\ q = p
      BY <1>13, <2>3, <3>2
    <3>3. CASE ~(d = c /\ q = p)
      <4>1. pages[d][q] # <<>> /\ IsDone(pages[d][r])
        BY <1>10, <3>3 DEF Walk, InOrder
      <4>2. ~(d = c /\ r = p)
        BY <1>14, <3>1, <4>1
      <4> QED BY <1>10, <3>1, <4>1, <4>2
    <3> QED BY <3>2, <3>3
  <2>5. \A d \in Crawls : runs[d].status = "none" => \A q \in 1..4 : pages'[d][q] = <<>>
    BY <1>1, <1>10 DEF Walk, InOrder
  <2>6. pages'[c][p] = new
    BY <1>1, <1>10
  <2>7. \A d \in Crawls : IsOpen(d)' => snapshots'[d] = NoGraph
    BY <1>3 DEF Walk, InOrder, IsOpen
  <2>8. (\A d \in Crawls : /\ runs[d].status = "none" => \A q \in 1..4 : pages[d][q] = <<>>
                           /\ IsOpen(d) => snapshots[d] = NoGraph
                           /\ \A q \in 1..4 : pages[d][q] # <<>> => \A r \in 1..q - 1 : IsDone(pages[d][r]))'
    BY <1>3, <2>4, <2>5, <2>7 DEF IsOpen, IsDone
  <2>9. (/\ job.pass \in 1..5
         /\ job.pc \in Working => runs[job.crawl].status # "none"
         /\ job.pc \in {"pass", "broken"} => \A q \in 1..job.pass - 1 : IsDone(pages[job.crawl][q])
         /\ job.pc = "broken" => job.pass <= 4 /\ ~IsDone(pages[job.crawl][job.pass]))'
    BY <1>1, <1>3, <1>13, <2>1, <2>2, <2>3, <2>6 DEF IsDone
  <2> QED BY <2>8, <2>9 DEF InOrder
<1>16. PagesAreOneWalk'
  <2>0. \A d \in Crawls, q \in 1..4 : \A i \in 1..Len(pages[d][q]) - 1 :
          /\ pages[d][q][i].next = pages[d][q][i].id /\ pages[d][q][i].id # 0
          /\ pages[d][q][i + 1].id = 0 \/ pages[d][q][i + 1].id > pages[d][q][i].id
    BY PassesAre DEF Walk, PagesAreOneWalk
  <2> SUFFICES ASSUME NEW d \in Crawls, NEW q \in 1..4, NEW i \in 1..Len(pages'[d][q]) - 1
               PROVE  /\ pages'[d][q][i].next = pages'[d][q][i].id /\ pages'[d][q][i].id # 0
                      /\ pages'[d][q][i + 1].id = 0 \/ pages'[d][q][i + 1].id > pages'[d][q][i].id
    BY PassesAre DEF PagesAreOneWalk
  <2>1. CASE ~(d = c /\ q = p)
    <3>1. pages'[d][q] = pages[d][q]
      BY <1>10, <2>1
    <3>2. i \in 1..Len(pages[d][q]) - 1
      BY <3>1
    <3>3. /\ pages[d][q][i].next = pages[d][q][i].id /\ pages[d][q][i].id # 0
          /\ pages[d][q][i + 1].id = 0 \/ pages[d][q][i + 1].id > pages[d][q][i].id
      BY <2>0, <3>2
    <3> QED BY <3>1, <3>3
  <2>2. CASE d = c /\ q = p
    <3>0. pages'[d][q] = new /\ Len(old) \in Nat /\ Len(new) = Len(old) + 1
      BY <1>4, <1>8, <1>10, <2>2
    <3>1. pages'[d][q] = new /\ i \in 1..Len(old) /\ Len(old) \in Nat
      BY <3>0
    <3>2. CASE i = Len(old)
      <4>1. new[i] = old[i] /\ new[i + 1] = page /\ old # <<>>
        BY <1>8, <3>1, <3>2
      <4> QED BY <1>5, <1>6, <3>1, <3>2, <4>1
    <3>3. CASE i # Len(old)
      <4>1. i \in 1..Len(old) - 1 /\ i + 1 \in 1..Len(old)
        BY <3>1, <3>3
      <4>2. new[i] = old[i] /\ new[i + 1] = old[i + 1]
        BY <1>8, <3>1, <4>1
      <4>3. /\ old[i].next = old[i].id /\ old[i].id # 0
            /\ old[i + 1].id = 0 \/ old[i + 1].id > old[i].id
        BY <1>1, <2>0, <4>1
      <4> QED BY <3>1, <4>2, <4>3
    <3> QED BY <3>2, <3>3
  <2> QED BY <2>1, <2>2
<1>17. NothingPassed'
  <2>1. \A i : \A d \in Crawls, q \in 1..4 : Seen(d, q, i) => Seen(d, q, i)'
    <3> SUFFICES ASSUME NEW d \in Crawls, NEW q \in 1..4, NEW i, NEW k \in DOMAIN pages[d][q],
                        Observes(pages[d][q][k].row, i)
                 PROVE  k \in DOMAIN pages'[d][q] /\ Observes(pages'[d][q][k].row, i)
      BY DEF Seen, Observes
    <3>1. CASE d = c /\ q = p
      <4>1. DOMAIN old = 1..Len(old) /\ Len(old) \in Nat
        BY <1>4
      <4>2. k \in 1..Len(old) /\ pages'[d][q] = new
        BY <1>10, <3>1, <4>1
      <4> QED BY <1>8, <3>1, <4>1, <4>2
    <3>2. CASE ~(d = c /\ q = p)
      BY <1>10, <3>2
    <3> QED BY <3>1, <3>2
  <2> SUFFICES ASSUME NEW d \in Crawls, NEW i \in since[d], NEW q \in 1..4, i[1] = Passes[q].kind,
                      Past(pages'[d][q], i[2])
               PROVE  \/ Seen(d, q, i)'
                      \/ IF Passes[q].closed THEN Seen(d, q - 1, i)' ELSE i \in closed
    BY <1>3 DEF NothingPassed, Past
  <2>2. q - 1 \in 1..4 \/ ~Passes[q].closed
    BY PassesAre
  <2>3. CASE Past(pages[d][q], i[2])
    BY <2>1, <2>2, <2>3 DEF Walk, NothingPassed
  <2>4. CASE ~Past(pages[d][q], i[2])
    <3>1. d = c /\ q = p /\ pages'[d][q] = new
      BY <1>10, <2>4
    <3>2. i \in listed /\ i \in Items
      BY DEF Walk, Tables
    <3>3. i = <<Passes[p].kind, i[2]>> /\ i[2] \in Nat \ {0}
      BY <3>1, <3>2, ItemsAre, CatalogAssumption
    <3>4. i[2] > Cursor(old) /\ (page.next = 0 \/ i[2] <= page.next)
      <4>1. page.next = 0 \/ i[2] <= page.next
        BY <1>9, <3>1 DEF Past
      <4>2. ~Past(old, i[2])
        BY <2>4, <3>1
      <4>3. CASE old = <<>>
        BY <3>3, <4>1, <4>3 DEF Cursor
      <4>4. CASE old # <<>>
        <5>1. Last(old).next \in Nat /\ Cursor(old) = Last(old).next /\ ~(i[2] <= Last(old).next)
          BY <1>4, <4>2, <4>4 DEF Past, Cursor, PageSet
        <5> QED BY <3>3, <4>1, <5>1
      <4> QED BY <4>3, <4>4
    <3>5. ASSUME (i \in closed) = Passes[p].closed PROVE Seen(c, p, i)'
      <4>1. i[2] \in Listing(p)
        BY <1>1, <3>1, <3>2, <3>5, ListingIs DEF Walk
      <4>2. Observes(page.row, i)
        BY <1>5, <3>3, <3>4, <4>1
      <4>3. Len(old) \in Nat
        BY <1>4
      <4>4. pages'[c][p] = new /\ Len(old) + 1 \in DOMAIN new /\ new[Len(old) + 1] = page
        BY <1>8, <3>1, <4>3
      <4> HIDE DEF old
      <4> QED BY <4>2, <4>4 DEF Seen, Observes
    <3>6. CASE Passes[p].closed
      <4>1. p - 1 \in 1..4 /\ Passes[p - 1].kind = Passes[p].kind /\ ~Passes[p - 1].closed
        BY <1>1, <3>6, PassesAre
      <4>2. Past(pages[c][p - 1], i[2])
        BY <1>1, <1>13, <4>1 DEF Past, IsDone
      <4>3. Seen(c, p - 1, i) \/ i \in closed
        BY <1>1, <3>1, <4>1, <4>2 DEF Walk, NothingPassed
      <4>4. Seen(c, p - 1, i) => Seen(c, p - 1, i)'
        BY <1>1, <2>1, <4>1
      <4>5. Seen(c, p - 1, i)' \/ Seen(c, p, i)'
        BY <3>5, <3>6, <4>3, <4>4
      <4> QED BY <3>1, <3>6, <4>5
    <3>7. CASE ~Passes[p].closed
      <4>1. i \in closed \/ (i \in closed) = Passes[p].closed
        BY <1>1, <3>7, PassesAre
      <4>2. i \in closed \/ Seen(c, p, i)'
        BY <3>5, <4>1
      <4> QED BY <3>1, <3>7, <4>2
    <3> QED BY <3>6, <3>7
  <2> QED BY <2>3, <2>4
<1> QED BY <1>12, <1>15, <1>16, <1>17 DEF Walk

(* Steps that touch neither pages nor their history leave the walk as it   *)
(* is.                                                                     *)
LEMMA WalkStays ==
  ASSUME PagesAreOneWalk, NothingPassed, UNCHANGED <<pages, since>>, closed \subseteq closed'
  PROVE  PagesAreOneWalk' /\ NothingPassed'
<1>1. PagesAreOneWalk'
  BY DEF PagesAreOneWalk
<1>2. NothingPassed'
  <2>1. \A i : \A c \in Crawls, p \in Int : Seen(c, p, i) => Seen(c, p, i)'
    BY DEF Seen, Observes
  <2> SUFFICES ASSUME NEW c \in Crawls, NEW i \in since[c], NEW p \in 1..4, i[1] = Passes[p].kind,
                      Past(pages[c][p], i[2])
               PROVE  \/ Seen(c, p, i)'
                      \/ IF Passes[p].closed THEN Seen(c, p - 1, i)' ELSE i \in closed'
    BY DEF NothingPassed, Past
  <2>2. \/ Seen(c, p, i)
        \/ IF Passes[p].closed THEN Seen(c, p - 1, i) ELSE i \in closed
    BY DEF NothingPassed
  <2> QED BY <2>1, <2>2
<1> QED BY <1>1, <1>2

LEMMA StartWalks ==
  ASSUME Shapes, WorkIsOpen, Walk, NEW c \in Crawls, Start(c)
  PROVE  Walk'
<1>1. /\ job' = [pc |-> "pass", crawl |-> c, pass |-> 1, retried |-> FALSE, error |-> "none",
                 version |-> "none", release |-> NoRelease]
      /\ UNCHANGED <<listed, closed, condition, pages, snapshots, issues>> /\ IsOpen(c)
  BY DEF Start, Idle, source
<1>2. runs \in [Crawls -> RunRows] /\ clock \in Nat /\ pages \in [Crawls -> [1..4 -> Seq(PageSet)]]
  BY DEF Shapes, Walk, Tables
<1>3. /\ \A d \in Crawls \ {c} : runs'[d] = runs[d] /\ since'[d] = since[d]
      /\ runs'[c].status = "running" /\ clock' \in {clock, clock + 1}
      /\ runs'[c].observed <= clock' /\ runs'[c].completed <= clock'
      /\ \/ since'[c] = since[c]
         \/ since'[c] = listed /\ runs[c].status = "none"
      /\ since' = [d \in Crawls |-> since'[d]]
  <2>1. runs[c].observed <= clock /\ runs[c].completed <= clock /\ since = [d \in Crawls |-> since[d]]
    BY DEF Walk, Tables
  <2>2. CASE runs[c].status = "none"
    <3>1. /\ clock' = clock + 1 /\ since' = [since EXCEPT ![c] = listed]
          /\ runs' = [runs EXCEPT ![c] = [status |-> "running", observed |-> clock + 1, completed |-> 0]]
      BY <2>2 DEF Start, NewRun
    <3> DEFINE run == [status |-> "running", observed |-> clock + 1, completed |-> 0]
    <3>2. run.status = "running" /\ run.observed <= clock + 1 /\ run.completed <= clock + 1
      BY <1>2
    <3>3. runs' = [runs EXCEPT ![c] = run]
      BY <3>1
    <3> HIDE DEF run
    <3>4. runs'[c] = run /\ \A d \in Crawls \ {c} : runs'[d] = runs[d]
      BY <1>2, <3>3
    <3>5. since'[c] = listed /\ \A d \in Crawls \ {c} : since'[d] = since[d]
      BY <2>1, <3>1
    <3>6. since' = [d \in Crawls |-> since'[d]]
      BY <2>1, <3>1
    <3> QED BY <2>2, <3>1, <3>2, <3>4, <3>5, <3>6
  <2>3. CASE runs[c].status # "none"
    <3>1. UNCHANGED <<clock, since>> /\ runs' = [runs EXCEPT ![c].status = "running"]
      BY <2>3 DEF Start
    <3> QED BY <1>2, <2>1, <3>1 DEF RunRows
  <2> QED BY <2>2, <2>3
<1>4. Tables'
  <2>1. \A d \in Crawls : runs'[d].observed <= clock' /\ runs'[d].completed <= clock'
    <3> TAKE d \in Crawls
    <3>1. runs[d] \in RunRows /\ runs[d].observed <= clock /\ runs[d].completed <= clock
      BY <1>2 DEF Walk, Tables
    <3>2. CASE d # c
      BY <1>2, <1>3, <3>1, <3>2 DEF RunRows
    <3>3. CASE d = c
      BY <1>3, <3>3
    <3> QED BY <3>2, <3>3
  <2>2. \A d \in Crawls : since'[d] \subseteq listed
    BY <1>3 DEF Walk, Tables
  <2> QED BY <1>1, <1>3, <2>1, <2>2 DEF Walk, Tables
<1>5. InOrder'
  <2>1. \A d \in Crawls : /\ runs'[d].status = "none" => runs[d].status = "none"
                          /\ IsOpen(d)' => IsOpen(d)
    BY <1>1, <1>3 DEF IsOpen
  <2>2. (\A d \in Crawls : /\ runs[d].status = "none" => \A p \in 1..4 : pages[d][p] = <<>>
                           /\ IsOpen(d) => snapshots[d] = NoGraph
                           /\ \A p \in 1..4 : pages[d][p] # <<>> => \A q \in 1..p - 1 : IsDone(pages[d][q]))'
    BY <1>1, <2>1 DEF Walk, InOrder, IsDone
  <2>3. (/\ job.pass \in 1..5
         /\ job.pc \in Working => runs[job.crawl].status # "none"
         /\ job.pc \in {"pass", "broken"} => \A q \in 1..job.pass - 1 : IsDone(pages[job.crawl][q])
         /\ job.pc = "broken" => job.pass <= 4 /\ ~IsDone(pages[job.crawl][job.pass]))'
    BY <1>1, <1>3
  <2> QED BY <2>2, <2>3 DEF InOrder
<1>6. PagesAreOneWalk'
  BY <1>1 DEF Walk, PagesAreOneWalk
<1>7. NothingPassed'
  <2>0. \A i : \A d \in Crawls, p \in Int : Seen(d, p, i)' = Seen(d, p, i)
    BY <1>1 DEF Seen, Observes
  <2> SUFFICES ASSUME NEW d \in Crawls, NEW i \in since'[d], NEW p \in 1..4, i[1] = Passes[p].kind,
                      Past(pages[d][p], i[2])
               PROVE  \/ Seen(d, p, i)
                      \/ IF Passes[p].closed THEN Seen(d, p - 1, i) ELSE i \in closed
    BY <1>1, <2>0 DEF NothingPassed, Past
  <2>1. runs[d].status # "none"
    BY DEF Walk, InOrder, Past
  <2>2. since'[d] = since[d]
    BY <1>3, <2>1
  <2> QED BY <2>2 DEF Walk, NothingPassed
<1> QED BY <1>4, <1>5, <1>6, <1>7 DEF Walk

(* A broken pass that is begun again has no pass begun after it.           *)
LEMMA BreakWalks ==
  ASSUME Shapes, WorkIsOpen, Walk, PassBreaks, NEW c \in Crawls, NEW p \in 1..4, job.crawl = c, job.pass = p
  PROVE  Walk'
<1>1. UNCHANGED <<listed, closed, condition, snapshots, since, issues, runs, clock>> /\ job.pc = "broken"
  BY DEF PassBreaks, source
<1>2. job'.pass = p /\ job'.crawl = c /\ job'.pc \in {"pass", "fail"} /\ runs[c].status # "none"
  BY DEF PassBreaks, Shapes, Walk, InOrder, Working
<1>3. pages' = pages \/ pages' = [pages EXCEPT ![c][p] = <<>>]
  BY DEF PassBreaks
<1>4. pages \in [Crawls -> [1..4 -> Seq(PageSet)]]
  BY DEF Walk, Tables
<1>5. /\ pages' \in [Crawls -> [1..4 -> Seq(PageSet)]]
      /\ \A d \in Crawls, q \in 1..4 :
           \/ pages'[d][q] = pages[d][q]
           \/ d = c /\ q = p /\ pages'[d][q] = <<>>
  <2> DEFINE new == <<>>
  <2>1. new \in Seq(PageSet) /\ (pages' = pages \/ pages' = [pages EXCEPT ![c][p] = new])
    BY <1>3
  <2>2. new = <<>>
    OBVIOUS
  <2> HIDE DEF new
  <2>3. pages' \in [Crawls -> [1..4 -> Seq(PageSet)]]
    <3>1. CASE pages' = pages
      BY <1>4, <3>1
    <3>2. CASE pages' = [pages EXCEPT ![c][p] = new]
      BY <1>4, <2>1, <3>2
    <3> QED BY <2>1, <3>1, <3>2
  <2>4. \A d \in Crawls, q \in 1..4 :
          \/ pages'[d][q] = pages[d][q]
          \/ d = c /\ q = p /\ pages'[d][q] = new
    <3>1. CASE pages' = pages
      BY <3>1
    <3>2. CASE pages' = [pages EXCEPT ![c][p] = new]
      <4>1. \A d \in Crawls, q \in 1..4 : pages'[d][q] = IF d = c /\ q = p THEN new ELSE pages[d][q]
        BY <1>4, <3>2
      <4> QED BY <4>1
    <3> QED BY <2>1, <3>1, <3>2
  <2> QED BY <2>2, <2>3, <2>4
<1>6. Tables'
  BY <1>1, <1>5 DEF Walk, Tables
<1>7. ~IsDone(pages[c][p]) /\ \A q \in 1..p - 1 : IsDone(pages[c][q])
  BY <1>1 DEF Walk, InOrder
<1>8. \A d \in Crawls, q \in 1..4 : pages[d][q] # <<>> => \A r \in 1..q - 1 : IsDone(pages[d][r]) /\ ~(d = c /\ r = p)
  BY <1>7 DEF Walk, InOrder
<1>9. InOrder'
  <2>1. \A d \in Crawls, q \in 1..4 : pages'[d][q] # <<>> => \A r \in 1..q - 1 : IsDone(pages'[d][r])
    <3> SUFFICES ASSUME NEW d \in Crawls, NEW q \in 1..4, pages'[d][q] # <<>>, NEW r \in 1..q - 1
                 PROVE  IsDone(pages'[d][r])
      OBVIOUS
    <3>1. pages[d][q] # <<>> /\ r \in 1..4
      BY <1>5
    <3>2. IsDone(pages[d][r]) /\ ~(d = c /\ r = p)
      BY <1>8, <3>1
    <3> QED BY <1>5, <3>1, <3>2
  <2>2. \A d \in Crawls : runs[d].status = "none" => \A q \in 1..4 : pages'[d][q] = <<>>
    <3>1. \A d \in Crawls : runs[d].status = "none" => \A q \in 1..4 : pages[d][q] = <<>>
      BY DEF Walk, InOrder
    <3> TAKE d \in Crawls
    <3> HAVE runs[d].status = "none"
    <3> TAKE q \in 1..4
    <3>2. pages[d][q] = <<>>
      BY <3>1
    <3> QED BY <1>5, <3>2
  <2>3. \A q \in 1..p - 1 : IsDone(pages'[c][q])
    <3> TAKE q \in 1..p - 1
    <3>1. q \in 1..4 /\ q # p
      OBVIOUS
    <3> QED BY <1>5, <1>7, <3>1
  <2>4. (\A d \in Crawls : /\ runs[d].status = "none" => \A q \in 1..4 : pages[d][q] = <<>>
                           /\ IsOpen(d) => snapshots[d] = NoGraph
                           /\ \A q \in 1..4 : pages[d][q] # <<>> => \A r \in 1..q - 1 : IsDone(pages[d][r]))'
    <3>1. \A d \in Crawls : IsOpen(d)' => snapshots'[d] = NoGraph
      BY <1>1 DEF Walk, InOrder, IsOpen
    <3> QED BY <1>1, <2>1, <2>2, <3>1 DEF IsDone
  <2>5. (/\ job.pass \in 1..5
         /\ job.pc \in Working => runs[job.crawl].status # "none"
         /\ job.pc \in {"pass", "broken"} => \A q \in 1..job.pass - 1 : IsDone(pages[job.crawl][q])
         /\ job.pc = "broken" => job.pass <= 4 /\ ~IsDone(pages[job.crawl][job.pass]))'
    BY <1>1, <1>2, <2>3 DEF IsDone
  <2> QED BY <2>4, <2>5 DEF InOrder
<1>10. PagesAreOneWalk'
  <2> SUFFICES ASSUME NEW d \in Crawls, NEW q \in 1..4, NEW i \in 1..Len(pages'[d][q]) - 1
               PROVE  /\ pages'[d][q][i].next = pages'[d][q][i].id /\ pages'[d][q][i].id # 0
                      /\ pages'[d][q][i + 1].id = 0 \/ pages'[d][q][i + 1].id > pages'[d][q][i].id
    BY PassesAre DEF PagesAreOneWalk
  <2>1. pages'[d][q] # <<>>
    OBVIOUS
  <2>2. pages'[d][q] = pages[d][q]
    BY <1>5, <2>1
  <2>3. i \in 1..Len(pages[d][q]) - 1
    BY <2>2
  <2>4. /\ pages[d][q][i].next = pages[d][q][i].id /\ pages[d][q][i].id # 0
        /\ pages[d][q][i + 1].id = 0 \/ pages[d][q][i + 1].id > pages[d][q][i].id
    BY <2>3, PassesAre DEF Walk, PagesAreOneWalk
  <2> QED BY <2>2, <2>4
<1>11. NothingPassed'
  <2> SUFFICES ASSUME NEW d \in Crawls, NEW i \in since[d], NEW q \in 1..4, i[1] = Passes[q].kind,
                      Past(pages'[d][q], i[2])
               PROVE  \/ Seen(d, q, i)'
                      \/ IF Passes[q].closed THEN Seen(d, q - 1, i)' ELSE i \in closed
    BY <1>1 DEF NothingPassed, Past
  <2>1. pages'[d][q] # <<>> /\ pages'[d][q] = pages[d][q]
    BY <1>5 DEF Past
  <2>2. \/ Seen(d, q, i)
        \/ IF Passes[q].closed THEN Seen(d, q - 1, i) ELSE i \in closed
    BY <2>1 DEF Walk, NothingPassed
  <2>3. Passes[q].closed => q - 1 \in 1..4 /\ q - 1 \in 1..q - 1
    BY PassesAre
  <2>4. Passes[q].closed => pages'[d][q - 1] = pages[d][q - 1]
    BY <1>5, <1>8, <2>1, <2>3
  <2>5. Seen(d, q, i) => Seen(d, q, i)'
    BY <2>1 DEF Seen, Observes
  <2>6. Passes[q].closed /\ Seen(d, q - 1, i) => Seen(d, q - 1, i)'
    BY <2>4 DEF Seen, Observes
  <2> QED BY <2>2, <2>5, <2>6
<1> QED BY <1>6, <1>9, <1>10, <1>11 DEF Walk

(* The other steps of the job and of the source.                           *)
LEMMA QuietWalks ==
  ASSUME Shapes, WorkIsOpen, Walk,
         \/ NextPass \/ FetchFails \/ RecordIssue \/ MarkFailed \/ BuildMart \/ Install \/ Crash
         \/ \E v \in Versions : PrepareRelease(v)
         \/ UNCHANGED vars
  PROVE  Walk'
<1>1. UNCHANGED <<listed, closed, condition, pages, snapshots, since, clock>>
  BY DEF NextPass, FetchFails, RecordIssue, MarkFailed, BuildMart, PrepareRelease, Install, Crash, vars, crawled, source
<1>2. /\ issues' \subseteq Crawls /\ runs' \in [Crawls -> RunRows]
      /\ \A c \in Crawls : /\ runs'[c].observed = runs[c].observed /\ runs'[c].completed = runs[c].completed
                           /\ IsOpen(c)' = IsOpen(c) /\ (runs'[c].status = "none" <=> runs[c].status = "none")
  <2>1. CASE MarkFailed
    <3>1. job.crawl \in Crawls /\ IsOpen(job.crawl) /\ runs[job.crawl].status # "none"
      BY <2>1 DEF MarkFailed, WorkIsOpen, Walk, InOrder, Working
    <3>2. UNCHANGED issues /\ runs' = [runs EXCEPT ![job.crawl].status = "failed"]
      BY <2>1, <3>1 DEF MarkFailed, IsOpen
    <3>3. runs \in [Crawls -> RunRows] /\ issues \subseteq Crawls
      BY DEF Shapes, Walk, Tables
    <3> DEFINE k == job.crawl
    <3> HIDE DEF k
    <3>4. k \in Crawls /\ runs[k].status \notin {"none", "complete"} /\ runs' = [runs EXCEPT ![k].status = "failed"]
      BY <3>1, <3>2 DEF IsOpen, k
    <3>5. runs' \in [Crawls -> RunRows] /\ runs'[k] = [runs[k] EXCEPT !.status = "failed"]
          /\ \A c \in Crawls : c # k => runs'[c] = runs[c]
      BY <3>3, <3>4 DEF RunRows
    <3>6. /\ runs'[k].observed = runs[k].observed /\ runs'[k].completed = runs[k].completed
          /\ runs'[k].status = "failed"
      BY <3>3, <3>4, <3>5 DEF RunRows
    <3> QED BY <3>2, <3>3, <3>4, <3>5, <3>6 DEF IsOpen
  <2>2. CASE ~MarkFailed
    <3>1. UNCHANGED runs
      BY <2>2 DEF NextPass, FetchFails, RecordIssue, BuildMart, PrepareRelease, Install, Crash, vars, crawled
    <3>2. issues' \subseteq Crawls
      <4>1. CASE RecordIssue
        BY <4>1 DEF RecordIssue, WorkIsOpen, Working, Walk, Tables
      <4>2. CASE ~RecordIssue
        BY <2>2, <4>2 DEF NextPass, FetchFails, BuildMart, PrepareRelease, Install, Crash, vars, crawled, Walk, Tables
      <4> QED BY <4>1, <4>2
    <3> QED BY <3>1, <3>2 DEF Shapes, IsOpen
  <2> QED BY <2>1, <2>2
<1>3. Tables'
  BY <1>1, <1>2 DEF Walk, Tables
<1>4. InOrder'
  <2>1. (\A d \in Crawls : /\ runs[d].status = "none" => \A q \in 1..4 : pages[d][q] = <<>>
                           /\ IsOpen(d) => snapshots[d] = NoGraph
                           /\ \A q \in 1..4 : pages[d][q] # <<>> => \A r \in 1..q - 1 : IsDone(pages[d][r]))'
    BY <1>1, <1>2 DEF Walk, InOrder, IsDone
  <2>2. CASE job' = job
    BY <1>1, <1>2, <2>1, <2>2 DEF Walk, InOrder, IsDone, WorkIsOpen
  <2>3. CASE job'.pc \notin Working /\ job'.pass = 1
    BY <2>1, <2>3 DEF InOrder, Working
  <2>4. CASE NextPass
    <3>1. /\ job.pc = "pass" /\ job.pass \in 1..4 /\ job'.pc = "pass" /\ job'.crawl = job.crawl /\ job'.pass = job.pass + 1
          /\ IsDone(pages[job.crawl][job.pass]) /\ job.crawl \in Crawls /\ runs[job.crawl].status # "none"
          /\ \A q \in 1..job.pass - 1 : IsDone(pages[job.crawl][q])
      BY <2>4, PassesAre DEF NextPass, Shapes, Walk, InOrder, WorkIsOpen, Working, Stored
    <3>2. \A q \in 1..job.pass : IsDone(pages[job.crawl][q])
      BY <3>1
    <3> QED BY <1>1, <1>2, <2>1, <3>1, <3>2 DEF InOrder, IsDone
  <2>5. CASE FetchFails \/ RecordIssue
    <3>1. /\ job.pc \in Working /\ job'.crawl = job.crawl /\ job'.pass = job.pass /\ job'.pc \in {"broken", "failed"}
          /\ job'.pc = "broken" => job.pc = "pass" /\ job.pass <= 4 /\ ~IsDone(pages[job.crawl][job.pass])
      <4>1. CASE FetchFails
        <5>1. PICK e : job' = [job EXCEPT !.pc = "broken", !.error = e]
          BY <4>1 DEF FetchFails
        <5>2. job.pc = "pass" /\ job.pass <= 4 /\ ~IsDone(pages[job.crawl][job.pass])
          BY <4>1, PassesAre DEF FetchFails, Stored
        <5>3. job'.pc = "broken" /\ job'.crawl = job.crawl /\ job'.pass = job.pass
          BY <5>1 DEF Shapes
        <5> QED BY <5>2, <5>3 DEF Working
      <4>2. CASE RecordIssue
        BY <4>2 DEF RecordIssue, Shapes, Working
      <4> QED BY <2>5, <4>1, <4>2
    <3> QED BY <1>1, <1>2, <2>1, <3>1 DEF Walk, InOrder, IsDone, WorkIsOpen
  <2>6. CASE ~(NextPass \/ FetchFails \/ RecordIssue)
    <3>1. job' = job \/ job' = Idle \/ \E v, r : job' = [Idle EXCEPT !.pc = "install", !.version = v, !.release = r]
      BY <2>6 DEF MarkFailed, BuildMart, PrepareRelease, Install, Crash, vars
    <3>2. job' = job \/ (job'.pc \in {"idle", "install"} /\ job'.pass = 1)
      <4>1. ASSUME NEW v, NEW r, job' = [Idle EXCEPT !.pc = "install", !.version = v, !.release = r]
            PROVE  job'.pc = "install" /\ job'.pass = 1
        BY <4>1 DEF Idle
      <4>2. Idle.pc = "idle" /\ Idle.pass = 1
        BY DEF Idle
      <4> QED BY <3>1, <4>1, <4>2
    <3> QED BY <2>2, <2>3, <3>2 DEF Working
  <2> QED BY <2>4, <2>5, <2>6
<1> QED BY <1>1, <1>3, <1>4, WalkStays DEF Walk

LEMMA ChangeWalks ==
  ASSUME Shapes, WorkIsOpen, Walk, Change
  PROVE  Walk'
<1>1. UNCHANGED <<pages, snapshots, since, clock, issues, runs, job>>
  BY DEF Change, crawled
<1>2. listed \subseteq listed' /\ closed \subseteq closed' /\ closed' \subseteq listed' /\ listed' \subseteq Items
  BY DEF Change, Walk, Tables
<1>3. condition' \in [Markets -> Int]
  <2>1. condition \in [Markets -> Int]
    BY DEF Walk, Tables
  <2>2. condition' = condition \/ \E m \in Markets : condition' = [condition EXCEPT ![m] = 3 - @]
    BY DEF Change
  <2>3. ASSUME NEW m \in Markets, condition' = [condition EXCEPT ![m] = 3 - @] PROVE condition' \in [Markets -> Int]
    BY <2>1, <2>3
  <2> QED BY <2>1, <2>2, <2>3
<1>4. Tables'
  BY <1>1, <1>2, <1>3 DEF Walk, Tables
<1>5. InOrder'
  BY <1>1 DEF Walk, InOrder, IsDone, IsOpen
<1> QED BY <1>1, <1>2, <1>4, <1>5, WalkStays DEF Walk

(* What a page of a crawl observes, its snapshot has.                      *)
LEMMA NormalizedIs ==
  ASSUME Tables, NEW c \in Crawls
  PROVE  /\ Normalized(c) \in Snapshot
         /\ \A p \in 1..4 : \A i : Seen(c, p, i) => Observes(Normalized(c), i)
<1>1. RowsOf(c) \subseteq RowSet
  <2>1. \A p \in 1..4 : \A k \in DOMAIN pages[c][p] : pages[c][p][k].row \in RowSet
    <3> TAKE p \in 1..4
    <3>1. pages[c][p] \in Seq(PageSet)
      BY PagesAre
    <3>2. \A k \in DOMAIN pages[c][p] : pages[c][p][k] \in PageSet
      BY <3>1
    <3> QED BY <3>2 DEF PageSet
  <2> QED BY <2>1, PassesAre DEF RowsOf
<1>2. MarketRows(c) \subseteq MarketSet
  BY <1>1 DEF MarketRows, RowSet
<1>3. Normalized(c) \in Snapshot
  <2> DEFINE row(m) == [market |-> m, tradable |-> \E r \in MarketRows(c) : r.market = m /\ r.tradable]
             markets == {r.market : r \in MarketRows(c)}
  <2>1. UNION {r.events : r \in RowsOf(c)} \in SUBSET Events /\ UNION {r.edges : r \in RowsOf(c)} \in SUBSET Membership
    BY <1>1 DEF RowSet
  <2>2. markets \subseteq Markets
    BY <1>2 DEF MarketSet
  <2>3. \A m \in Markets : row(m) \in [market : Markets, tradable : BOOLEAN]
    OBVIOUS
  <2>4. {row(m) : m \in markets} \in SUBSET [market : Markets, tradable : BOOLEAN]
    <3> HIDE DEF row, markets
    <3> QED BY <2>2, <2>3
  <2>5. Normalized(c) = [events |-> UNION {r.events : r \in RowsOf(c)}, markets |-> {row(m) : m \in markets},
                         edges |-> UNION {r.edges : r \in RowsOf(c)}]
    BY DEF Normalized
  <2> HIDE DEF row, markets
  <2> QED BY <2>1, <2>4, <2>5 DEF Snapshot
<1>4. ASSUME NEW p \in 1..4, NEW i, Seen(c, p, i) PROVE Observes(Normalized(c), i)
  <2>1. PICK k \in DOMAIN pages[c][p] : Observes(pages[c][p][k].row, i)
    BY <1>4 DEF Seen
  <2> DEFINE row == pages[c][p][k].row
  <2>2. row \in RowsOf(c)
    BY PassesAre DEF RowsOf
  <2>3. Observes(row, i)
    BY <2>1
  <2> HIDE DEF row
  <2>4. CASE i[1] = "event"
    BY <2>2, <2>3, <2>4 DEF Observes, Normalized
  <2>5. CASE i[1] # "event"
    <3>1. PICK r \in row.markets : r.market = i[2]
      BY <2>3, <2>5 DEF Observes
    <3>2. r \in MarketRows(c)
      BY <2>2, <3>1 DEF MarketRows
    <3>3. \E s \in Normalized(c).markets : s.market = i[2]
      <4> DEFINE s == [market |-> r.market, tradable |-> \E q \in MarketRows(c) : q.market = r.market /\ q.tradable]
      <4>1. s \in Normalized(c).markets
        BY <3>2 DEF Normalized
      <4>2. s.market = i[2]
        BY <3>1
      <4> HIDE DEF s
      <4> QED BY <4>1, <4>2
    <3> QED BY <2>5, <3>3 DEF Observes
  <2> QED BY <2>4, <2>5
<1> QED BY <1>3, <1>4

LEMMA ActivateWalks ==
  ASSUME Shapes, WorkIsOpen, Walk, NothingMissed, Activate, NEW c \in Crawls, job.crawl = c
  PROVE  Walk' /\ NothingMissed'
<1>1. /\ UNCHANGED <<listed, closed, condition, pages, since, issues>> /\ runs[c].status # "none" /\ IsOpen(c)
      /\ \A q \in 1..4 : IsDone(pages[c][q])
  <2>1. job.pc = "pass" /\ job.pass = 5
    BY PassesAre DEF Activate, Walk, InOrder
  <2> QED BY <2>1 DEF Activate, source, Walk, InOrder, Working, WorkIsOpen
<1>2. CASE /\ job' \in {[job EXCEPT !.pc = "fail", !.error = e] : e \in {"value", "runtime"}}
           /\ UNCHANGED <<runs, snapshots, clock>>
  <2>1. PICK e : job' = [job EXCEPT !.pc = "fail", !.error = e]
    BY <1>2
  <2>2. job'.pc = "fail" /\ job'.crawl = c /\ job'.pass = job.pass
    BY <2>1 DEF Shapes
  <2>3. Tables'
    BY <1>1, <1>2 DEF Walk, Tables
  <2>4. InOrder'
    BY <1>1, <1>2, <2>2 DEF Walk, InOrder, IsOpen, IsDone
  <2>5. NothingMissed'
    BY <1>1, <1>2 DEF NothingMissed, Complete
  <2> QED BY <1>1, <2>3, <2>4, <2>5, WalkStays DEF Walk
<1>3. CASE /\ snapshots' = [snapshots EXCEPT ![c] = Normalized(c)] /\ clock' = clock + 1 /\ job' = Idle
           /\ runs' = [runs EXCEPT ![c] = [status |-> "complete", observed |-> @.observed, completed |-> clock + 1]]
  <2> DEFINE new == Normalized(c)
             run == [status |-> "complete", observed |-> runs[c].observed, completed |-> clock + 1]
  <2>1. new \in Snapshot /\ \A p \in 1..4 : \A i : Seen(c, p, i) => Observes(new, i)
    BY NormalizedIs DEF Walk
  <2>2. /\ snapshots \in [Crawls -> Snapshot] /\ runs \in [Crawls -> RunRows] /\ clock \in Nat
        /\ runs[c].observed <= clock /\ runs[c].observed \in Nat
    BY DEF Walk, Tables, Shapes, RunRows
  <2>3. run.status = "complete" /\ run.observed <= clock + 1 /\ run.completed <= clock + 1
    BY <2>2
  <2>4. runs' = [runs EXCEPT ![c] = run] /\ snapshots' = [snapshots EXCEPT ![c] = new]
    BY <1>3
  <2> HIDE DEF new, run
  <2>5. runs'[c] = run /\ \A d \in Crawls \ {c} : runs'[d] = runs[d]
    BY <2>2, <2>4
  <2>6. snapshots' \in [Crawls -> Snapshot] /\ snapshots'[c] = new /\ \A d \in Crawls \ {c} : snapshots'[d] = snapshots[d]
    BY <2>1, <2>2, <2>4
  <2>7. Tables'
    <3>1. \A d \in Crawls : runs'[d].observed <= clock' /\ runs'[d].completed <= clock'
      <4> TAKE d \in Crawls
      <4>1. CASE d = c
        BY <1>3, <2>3, <2>5, <4>1
      <4>2. CASE d # c
        BY <1>3, <2>2, <2>5, <4>2 DEF Walk, Tables, RunRows
      <4> QED BY <4>1, <4>2
    <3> QED BY <1>1, <2>6, <3>1 DEF Walk, Tables
  <2>8. InOrder'
    <3>1. (\A d \in Crawls : /\ runs[d].status = "none" => \A q \in 1..4 : pages[d][q] = <<>>
                             /\ IsOpen(d) => snapshots[d] = NoGraph
                             /\ \A q \in 1..4 : pages[d][q] # <<>> => \A r \in 1..q - 1 : IsDone(pages[d][r]))'
      <4>1. \A d \in Crawls : IsOpen(d)' => d # c /\ IsOpen(d)
        BY <2>3, <2>5 DEF IsOpen
      <4>2. \A d \in Crawls : IsOpen(d)' => snapshots'[d] = NoGraph
        BY <2>6, <4>1 DEF Walk, InOrder
      <4>3. \A d \in Crawls : runs'[d].status = "none" => runs[d].status = "none"
        BY <2>3, <2>5
      <4> QED BY <1>1, <4>2, <4>3 DEF Walk, InOrder, IsDone
    <3>2. job'.pc = "idle" /\ job'.pass = 1
      BY <1>3 DEF Idle
    <3> QED BY <3>1, <3>2 DEF InOrder, Working
  <2>9. NothingMissed'
    <3>1. ASSUME NEW i \in since[c] PROVE Observes(new, i)
      <4>1. i \in Items
        BY DEF Walk, Tables
      <4>2. PICK p \in 1..4 : Passes[p].kind = i[1] /\ Passes[p].closed
        BY <4>1, ItemsAre, PassesAre
      <4>3. Past(pages[c][p], i[2])
        BY <1>1 DEF Past, IsDone
      <4>4. Seen(c, p, i) \/ Seen(c, p - 1, i)
        BY <4>2, <4>3 DEF Walk, NothingPassed
      <4>5. p - 1 \in 1..4
        BY <4>2, PassesAre
      <4> QED BY <2>1, <4>4, <4>5
    <3>2. \A d \in Crawls : \A i \in since[d] : d \in Complete' => Observes(snapshots'[d], i)
      <4> SUFFICES ASSUME NEW d \in Crawls, NEW i \in since[d], d \in Complete' PROVE Observes(snapshots'[d], i)
        OBVIOUS
      <4>1. CASE d = c
        BY <2>6, <3>1, <4>1
      <4>2. CASE d # c
        BY <2>5, <2>6, <4>2 DEF Complete, NothingMissed, Observes
      <4> QED BY <4>1, <4>2
    <3> QED BY <1>1, <3>2 DEF NothingMissed, Observes, Complete
  <2> QED BY <1>1, <2>7, <2>8, <2>9, WalkStays DEF Walk
<1> QED
  <2>1. CASE Conflicts(c)
    BY <1>2, <2>1 DEF Activate
  <2>2. CASE ~Conflicts(c) /\ (c \in issues \/ ~AllComplete(c))
    BY <1>2, <2>2 DEF Activate
  <2>3. CASE ~Conflicts(c) /\ ~(c \in issues \/ ~AllComplete(c))
    BY <1>3, <2>3 DEF Activate
  <2> QED BY <2>1, <2>2, <2>3

LEMMA NextWalks ==
  ASSUME Shapes, WorkIsOpen, MartIsObserved, Walk, NothingMissed, [Next]_vars
  PROVE  Walk' /\ NothingMissed'
<1>1. CrawlsStay
  BY StepTakesNothingBack
<1>2. ASSUME Complete' \subseteq Complete, \A c \in Complete : since'[c] = since[c] PROVE NothingMissed'
  BY <1>1, <1>2 DEF NothingMissed, CrawlsStay
<1>3. ASSUME UNCHANGED <<runs, since>> PROVE NothingMissed'
  BY <1>2, <1>3 DEF Complete
<1>4. ASSUME NEW c \in Crawls, Start(c) PROVE Walk' /\ NothingMissed'
  <2>1. runs'[c].status = "running" /\ (\A d \in Crawls \ {c} : runs'[d] = runs[d]) /\ c \notin Complete
        /\ \A d \in Crawls \ {c} : since'[d] = since[d]
    <3>1. since = [d \in Crawls |-> since[d]] /\ runs \in [Crawls -> RunRows]
      BY DEF Walk, Tables, Shapes
    <3>2. CASE runs[c].status = "none"
      <4>1. /\ since' = [since EXCEPT ![c] = listed]
            /\ runs' = [runs EXCEPT ![c] = [status |-> "running", observed |-> clock + 1, completed |-> 0]]
        BY <1>4, <3>2 DEF Start, NewRun
      <4> QED BY <3>1, <3>2, <4>1 DEF Complete
    <3>3. CASE runs[c].status # "none"
      BY <1>4, <3>1, <3>3 DEF Start, IsOpen, Complete, RunRows
    <3> QED BY <3>2, <3>3
  <2>2. Complete' \subseteq Complete /\ \A d \in Complete : since'[d] = since[d]
    BY <2>1 DEF Complete
  <2> QED BY <1>2, <1>4, <2>2, StartWalks
<1>5. CASE FetchPage
  <2>1. job.crawl \in Crawls /\ job.pass \in 1..4 /\ UNCHANGED <<runs, since>>
    BY <1>5, PassesAre DEF FetchPage, WorkIsOpen, Working, Walk, InOrder
  <2> QED BY <1>3, <1>5, <2>1, FetchWalks
<1>6. CASE PassBreaks
  <2>1. job.crawl \in Crawls /\ job.pass \in 1..4 /\ UNCHANGED <<runs, since>>
    BY <1>6 DEF PassBreaks, WorkIsOpen, Working, Walk, InOrder
  <2> QED BY <1>3, <1>6, <2>1, BreakWalks
<1>7. CASE Activate
  <2>1. job.crawl \in Crawls
    BY <1>7 DEF Activate, WorkIsOpen, Working
  <2> QED BY <1>7, <2>1, ActivateWalks
<1>8. CASE MarkFailed
  <2>1. Complete' \subseteq Complete /\ UNCHANGED since
    BY <1>8 DEF MarkFailed, WorkIsOpen, Working, Shapes, Complete, RunRows
  <2> QED BY <1>2, <1>8, <2>1, QuietWalks
<1>9. CASE \/ NextPass \/ FetchFails \/ RecordIssue \/ BuildMart \/ Install \/ Crash
           \/ \E v \in Versions : PrepareRelease(v)
           \/ UNCHANGED vars
  <2>1. UNCHANGED <<runs, since>>
    BY <1>9 DEF NextPass, FetchFails, RecordIssue, BuildMart, PrepareRelease, Install, Crash, vars, crawled
  <2> QED BY <1>3, <1>9, <2>1, QuietWalks
<1>10. CASE Change
  <2>1. UNCHANGED <<runs, since>>
    BY <1>10 DEF Change, crawled
  <2> QED BY <1>3, <1>10, <2>1, ChangeWalks
<1> QED BY <1>4, <1>5, <1>6, <1>7, <1>8, <1>9, <1>10 DEF Next, Step

(* Numbers grow along a walk, so that it is no longer than there are       *)
(* items.                                                                  *)
LEMMA WalkIsShort ==
  ASSUME Tables, PagesAreOneWalk, NEW c \in Crawls, NEW p \in 1..4
  PROVE  Len(pages[c][p]) <= Cardinality(Events) + Cardinality(Markets) + 1
<1> DEFINE stored == pages[c][p]
           n == Len(stored) - 1
           ids == Events \cup Markets
           f == [i \in 1..n |-> stored[i].id]
<1>1. stored \in Seq(PageSet) /\ Len(stored) \in Nat
  <2>1. stored \in Seq(PageSet)
    BY PagesAre
  <2> HIDE DEF stored
  <2> QED BY <2>1
<1>2. \A i \in 1..n : /\ stored[i].id # 0
                      /\ stored[i + 1].id = 0 \/ stored[i + 1].id > stored[i].id
  <2>1. \A i \in 1..Len(pages[c][p]) - 1 :
          /\ pages[c][p][i].next = pages[c][p][i].id /\ pages[c][p][i].id # 0
          /\ pages[c][p][i + 1].id = 0 \/ pages[c][p][i + 1].id > pages[c][p][i].id
    BY PassesAre DEF PagesAreOneWalk
  <2> QED BY <2>1
<1>3. \A i \in 1..n : stored[i].id \in ids /\ stored[i].id \in Nat
  <2> TAKE i \in 1..n
  <2>1. stored[i] \in PageSet
    BY <1>1
  <2> QED BY <1>2, <2>1, CatalogAssumption DEF PageSet
<1> HIDE DEF stored, ids
<1>4. \A i, j \in 1..n : i < j => stored[i].id < stored[j].id
  <2> SUFFICES ASSUME NEW i \in 1..n, NEW j \in 1..n, i < j, ~(stored[i].id < stored[j].id) PROVE FALSE
    OBVIOUS
  <2> DEFINE late == {k \in 1..n : i < k /\ ~(stored[i].id < stored[k].id)}
  <2>1. late \in SUBSET Nat /\ late # {}
    OBVIOUS
  <2>2. PICK k \in late : \A m \in late : k <= m
    <3> HIDE DEF late
    <3> QED BY <2>1, Smallest
  <2>3. k - 1 \in 1..n /\ i <= k - 1 /\ k - 1 \notin late
    BY <2>2
  <2>4. i = k - 1 \/ stored[i].id < stored[k - 1].id
    BY <2>3
  <2>5. stored[k].id > stored[k - 1].id
    <3>1. (k - 1) + 1 = k /\ k \in 1..n
      BY <2>2
    <3>2. stored[k - 1 + 1].id = 0 \/ stored[k - 1 + 1].id > stored[k - 1].id
      BY <1>2, <2>3
    <3>3. stored[k].id # 0
      BY <1>2, <3>1
    <3> QED BY <3>1, <3>2, <3>3
  <2>6. stored[i].id \in Nat /\ stored[k].id \in Nat /\ stored[k - 1].id \in Nat /\ ~(stored[i].id < stored[k].id)
    BY <1>3, <2>2, <2>3
  <2> HIDE DEF late
  <2> QED BY <2>4, <2>5, <2>6
<1>5. IsFiniteSet(Events) /\ IsFiniteSet(Markets) /\ IsFiniteSet(ids)
  BY CatalogAssumption, FS_Subset DEF ids
<1>6. Cardinality(Events) \in Nat /\ Cardinality(Markets) \in Nat /\ Cardinality(Events \cap Markets) \in Nat
  <2>1. IsFiniteSet(Events \cap Markets)
    BY <1>5, FS_Subset
  <2> QED BY <1>5, <2>1, FS_CardinalityType
<1>7. Cardinality(ids) <= Cardinality(Events) + Cardinality(Markets)
  <2>1. Cardinality(Events \cup Markets) = Cardinality(Events) + Cardinality(Markets) - Cardinality(Events \cap Markets)
    BY <1>5, FS_Union
  <2> QED BY <1>6, <2>1 DEF ids
<1>8. CASE Len(stored) = 0
  BY <1>6, <1>8 DEF stored
<1>9. CASE Len(stored) # 0
  <2>1. f \in Injection(1..n, ids)
    <3>1. f \in [1..n -> ids]
      BY <1>3
    <3>2. \A i, j \in 1..n : f[i] = f[j] => i = j
      BY <1>3, <1>4
    <3> QED BY <3>1, <3>2 DEF Injection, IsInjective
  <2>2. n \in Nat /\ Cardinality(1..n) = n
    BY <1>1, <1>9, FS_Interval
  <2> HIDE DEF f, n
  <2>3. Cardinality(1..n) <= Cardinality(ids)
    BY <1>5, <2>1, FS_Injection
  <2>4. Cardinality(ids) \in Nat
    BY <1>5, FS_CardinalityType
  <2>5. n <= Cardinality(Events) + Cardinality(Markets)
    BY <1>6, <1>7, <2>2, <2>3, <2>4
  <2> QED BY <1>1, <1>6, <2>5 DEF n, stored
<1> QED BY <1>8, <1>9

(* A crawl is one observation of the source, whatever it is interrupted    *)
(* by: the pages of each pass are one walk, no longer than there are items *)
(* to list, and what was listed when it began and still is not in the      *)
(* pages of a pass for open items has closed and is in those of the next.  *)
THEOREM CrawlsAreWhole == Spec => []CrawlIsWhole
<1> DEFINE IInv == Shapes /\ WorkIsOpen /\ MartIsObserved /\ Walk /\ NothingMissed
<1>1. Init => IInv
  BY InitIsOpen, InitWalks
<1>2. IInv /\ [Next]_vars => IInv'
  BY StepTakesNothingBack, NextWalks
<1>3. IInv => CrawlIsWhole
  <2> SUFFICES ASSUME IInv PROVE TypeOK
    BY DEF CrawlIsWhole, Walk
  <2>1. \A c \in Crawls : runs[c].status \in {"none", "running", "failed", "complete"}
                          /\ runs[c].observed \in 0..clock /\ runs[c].completed \in 0..clock
    BY DEF Shapes, Walk, Tables, RunRows
  <2>2. job.pc \in {"idle", "pass", "broken", "fail", "failed", "install"} /\ job.pass \in 1..5
    BY DEF WorkIsOpen, Working, Walk, InOrder
  <2> QED BY <2>1, <2>2, WalkIsShort, PassesAre DEF TypeOK, Walk, Tables
<1> QED BY <1>1, <1>2, <1>3, PTL DEF Spec

----------------------------------------------------------------------------
(* What is released *)

(* Crawls that are not complete show nothing.                              *)
LEMMA ObservedAreComplete ==
  ASSUME Walk
  PROVE  Qualifying(Crawls) = Qualifying(Complete) /\ QualifyingEdges(Crawls) = QualifyingEdges(Complete)
<1>1. \A c \in Crawls \ Complete : snapshots[c].markets = {} /\ snapshots[c].edges = {}
  BY DEF Walk, InOrder, IsOpen, Complete, NoGraph
<1>2. UNION {snapshots[c].markets : c \in Crawls} = UNION {snapshots[c].markets : c \in Complete}
  BY <1>1 DEF Complete
<1>3. UNION {snapshots[c].edges : c \in Crawls} = UNION {snapshots[c].edges : c \in Complete}
  BY <1>1 DEF Complete
<1>4. Qualifying(Crawls) = Qualifying(Complete)
  BY <1>2 DEF Qualifying
<1> QED BY <1>3, <1>4 DEF QualifyingEdges

LEMMA NodesStayOne ==
  ASSUME NodesAreOne, [Next]_vars
  PROVE  NodesAreOne'
<1>1. CASE BuildMart
  <2>1. mart'.markets = {MarketNode(m) : m \in Qualifying(Observed)}
    BY <1>1 DEF BuildMart, Graph
  <2>2. \A m : MarketNode(m).market = m
    BY DEF MarketNode
  <2>3. \A n \in mart'.markets : \E m : n = MarketNode(m) /\ n.market = m
    BY <2>1, <2>2
  <2> QED BY <2>3 DEF NodesAreOne
<1>2. CASE ~BuildMart
  <2>1. UNCHANGED mart
    BY <1>2 DEF Next, Step, Start, NextPass, FetchPage, FetchFails, PassBreaks, Activate, RecordIssue, MarkFailed, Install,
      Crash, PrepareRelease, Change, vars
  <2> QED BY <2>1 DEF NodesAreOne
<1> QED BY <1>1, <1>2

(* A mart with as many nodes and edges as complete crawls have observed,   *)
(* none of which they have not, is their graph.                            *)
LEMMA ReconciledIsComplete ==
  ASSUME Walk, MartIsObserved, NodesAreOne, Reconciles
  PROVE  MarketsIn(mart) = Qualifying(Complete) /\ mart.edges = QualifyingEdges(Complete)
<1>1. snapshots \in [Crawls -> Snapshot] /\ Complete \subseteq Crawls
  BY DEF Walk, Tables, Complete
<1>2. IsFiniteSet(Qualifying(Complete))
  <2>1. Qualifying(Complete) \in SUBSET (Events \cup Markets)
    BY <1>1 DEF Qualifying, Snapshot
  <2> QED BY <2>1, FS_Subset, CatalogAssumption
<1>3. IsFiniteSet(QualifyingEdges(Complete))
  <2>1. IsFiniteSet(Events) /\ IsFiniteSet(Markets)
    BY CatalogAssumption, FS_Subset
  <2>2. IsFiniteSet(Events \X Markets)
    BY <2>1, FS_Product
  <2>3. QualifyingEdges(Complete) \in SUBSET (Events \X Markets)
    BY <1>1, CatalogAssumption DEF QualifyingEdges, Snapshot
  <2> QED BY <2>2, <2>3, FS_Subset
<1>4. IsFiniteSet(MarketsIn(mart)) /\ Cardinality(mart.markets) = Cardinality(MarketsIn(mart))
  <2> DEFINE nodes == mart.markets
             f == [n \in nodes |-> n.market]
  <2>1. IsFiniteSet(MarketsIn(mart))
    BY <1>2, FS_Subset DEF MartIsObserved
  <2>2. f \in Injection(nodes, MarketsIn(mart)) /\ f \in Surjection(nodes, MarketsIn(mart))
    <3>1. f \in [nodes -> MarketsIn(mart)]
      BY DEF MarketsIn
    <3>2. \A n, k \in nodes : f[n] = f[k] => n = k
      BY DEF NodesAreOne
    <3>3. \A m \in MarketsIn(mart) : \E n \in nodes : f[n] = m
      BY DEF MarketsIn
    <3> QED BY <3>1, <3>2, <3>3 DEF Injection, IsInjective, Surjection
  <2> HIDE DEF f, nodes
  <2>3. Cardinality(nodes) = Cardinality(MarketsIn(mart))
    BY <2>1, <2>2, FS_Injection
  <2> QED BY <2>1, <2>3 DEF nodes
<1>5. /\ Cardinality(MarketsIn(mart)) = Cardinality(Qualifying(Complete))
      /\ Cardinality(mart.edges) = Cardinality(QualifyingEdges(Complete))
  BY <1>4, ObservedAreComplete DEF Reconciles
<1> QED BY <1>2, <1>3, <1>5, FS_Subset DEF MartIsObserved

LEMMA ReleasesStayComplete ==
  ASSUME Shapes, WorkIsOpen, MartIsObserved, Walk, NodesAreOne, ReleaseIsComplete, [Next]_vars
  PROVE  ReleaseIsComplete'
<1>1. ASSUME NEW v \in Versions, PrepareRelease(v) PROVE ReleaseIsComplete'
  <2>1. job' = [Idle EXCEPT !.pc = "install", !.version = v, !.release = [graph |-> mart, crawl |-> LatestCrawl]]
        /\ Reconciles /\ UNCHANGED <<runs, snapshots>>
    BY <1>1 DEF PrepareRelease, crawled
  <2>2. job'.release.graph = mart
    BY <2>1 DEF Idle
  <2>3. MarketsIn(mart) = Qualifying(Complete) /\ mart.edges = QualifyingEdges(Complete)
    BY <2>1, ReconciledIsComplete
  <2>4. UNCHANGED <<Qualifying(Complete), QualifyingEdges(Complete)>>
    BY <2>1 DEF Qualifying, QualifyingEdges, Complete
  <2>5. MarketsIn(job'.release.graph) = Qualifying(Complete)' /\ job'.release.graph.edges = QualifyingEdges(Complete)'
    BY <2>2, <2>3, <2>4
  <2> QED BY <2>5 DEF ReleaseIsComplete, MarketsIn
<1>2. CASE UNCHANGED <<runs, snapshots, job>>
  <2>1. UNCHANGED <<Qualifying(Complete), QualifyingEdges(Complete)>>
    BY <1>2 DEF Qualifying, QualifyingEdges, Complete
  <2> QED BY <1>2, <2>1 DEF ReleaseIsComplete, MarketsIn
<1>3. CASE job'.pc # "install"
  BY <1>3 DEF ReleaseIsComplete
<1>4. CASE (\E c \in Crawls : Start(c)) \/ Step \/ Crash
  <2>1. job'.pc # "install"
    <3>1. CASE \/ \E c \in Crawls : Start(c)
               \/ Install \/ MarkFailed \/ Crash
      <4>1. job' = Idle \/ \E c \in Crawls : job' = [Idle EXCEPT !.pc = "pass", !.crawl = c]
        BY <3>1 DEF Start, Install, MarkFailed, Crash
      <4>2. ASSUME NEW c, job' = [Idle EXCEPT !.pc = "pass", !.crawl = c] PROVE job'.pc = "pass"
        BY <4>2 DEF Idle
      <4>3. Idle.pc = "idle"
        BY DEF Idle
      <4> QED BY <4>1, <4>2, <4>3
    <3>2. CASE NextPass \/ RecordIssue \/ PassBreaks
      BY <3>2 DEF NextPass, RecordIssue, PassBreaks, Shapes
    <3>3. CASE FetchPage \/ FetchFails
      BY <3>3 DEF FetchPage, FetchFails, Shapes
    <3>4. CASE Activate
      <4>1. job' = Idle \/ \E e : job' = [job EXCEPT !.pc = "fail", !.error = e]
        BY <3>4 DEF Activate
      <4>2. ASSUME NEW e, job' = [job EXCEPT !.pc = "fail", !.error = e] PROVE job'.pc = "fail"
        BY <4>2 DEF Shapes
      <4>3. Idle.pc = "idle"
        BY DEF Idle
      <4> QED BY <4>1, <4>2, <4>3
    <3> QED BY <1>4, <3>1, <3>2, <3>3, <3>4 DEF Step
  <2> QED BY <1>3, <2>1
<1>5. CASE BuildMart \/ Change \/ UNCHANGED vars
  BY <1>2, <1>5 DEF BuildMart, Change, vars, crawled
<1> QED BY <1>1, <1>4, <1>5 DEF Next

(* A release is the graph of all complete crawls: what is installed was    *)
(* checked by its counts only, but nothing complete is ever taken back.    *)
THEOREM ReleasesAreComplete == Spec => []ReleaseIsComplete
<1> DEFINE IInv == Shapes /\ WorkIsOpen /\ MartIsObserved /\ Walk /\ NothingMissed /\ NodesAreOne /\ ReleaseIsComplete
<1>1. Init => IInv
  BY InitIsOpen, InitWalks
<1>2. IInv /\ [Next]_vars => IInv'
  BY StepTakesNothingBack, NextWalks, NodesStayOne, ReleasesStayComplete
<1>3. IInv => ReleaseIsComplete
  OBVIOUS
<1> QED BY <1>1, <1>2, <1>3, PTL DEF Spec

------------------------------------------------------------------------------
(* The fetch of a minute run *)

(* A task asks for a token, and for the price of an instant. *)
Asks(task, t) == task.kind = "batch" \/ task.token = t

Reaches(task, i) == task.from <= i /\ i <= task.to

(* A token, and one of its prices, that is still to be asked for.          *)
Awaits(tasks, t) == \E n \in DOMAIN tasks : Asks(tasks[n], t)

Due(tasks, t, i) == \E n \in DOMAIN tasks : Asks(tasks[n], t) /\ Reaches(tasks[n], i)

(* Only tokens that are refused at one minute are asked without a fidelity. *)
Tasks ==
  {k \in [kind : {"batch", "minute", "coarse"}, token : Tokens, from : Nat, to : Nat] :
     k.kind = "coarse" => k.token \in Coarse}

(* The prices the API has for a token, in or out of its window. *)
Offered(t) == History[t] \cap (IF t \in Coarse THEN CoarseInstants ELSE History[t])

(* What a worker at a unit may hold. *)
Jobs(u) ==
  [unit : {u}, tasks : Seq(Tasks), to : Nat, active : SUBSET u, rows : [u -> SUBSET Nat], retry : Nat]

(* What a worker has, and what its tasks will still bring it. *)
KeepsTrack(k, away, failed) ==
  /\ \A t \in k.active : k.rows[t] \subseteq Offered(t)
  /\ \A t \in k.active : \A i \in Offered(t) :
       PaddedFrom(t) <= i /\ i <= k.to =>
         (i \in k.rows[t] \/ Due(k.tasks, t, i))
  /\ \A t \in k.active \cap away : Awaits(k.tasks, t)
  /\ \A t \in k.unit \ k.active : t \in away \cup failed

(* Every worker is idle or keeps track of a unit. *)
WorkersOK ==
  /\ DOMAIN worker = 1..Workers /\ worker = [w \in 1..Workers |-> worker[w]]
  /\ \A w \in 1..Workers :
       worker[w] # NoWork => (\E u \in Units : worker[w] \in Jobs(u)) /\ KeepsTrack(worker[w], gone, lost)

(* A unit is queued, with one worker, finished or whole in the results. *)
UnitsApart ==
  /\ Inflight \subseteq Units /\ queue \cap DOMAIN finished = {}
  /\ \A w \in 1..Workers : worker[w] # NoWork => worker[w].unit \notin queue \cup DOMAIN finished
  /\ \A v, w \in 1..Workers : worker[w] # NoWork /\ v # w => worker[v].unit # worker[w].unit
  /\ \A t \in DOMAIN results : t \in Tokens /\ Unit(t) \subseteq DOMAIN results
  /\ \A u \in Inflight : u \cap DOMAIN results = {}

(* A unit comes for the last one that was taken while there are any, so    *)
(* that the stream ends when all tokens have a result.                     *)
NoUnitForgotten ==
  /\ main.pc \in {"wait", "take"} /\ Inflight = {} => Unsubmitted = {}
  /\ main.pc \in {"audit", "publish", "published"} => Tokens \subseteq DOMAIN results

(* The outcome a token deserves. *)
TrueStatus(t, status, away, failed) ==
  \/ status = "error" /\ t \in away \cup failed
  \/ t \notin away /\ status = (IF Available(t) = {} THEN "empty" ELSE "success")

(* It is kept on the way from the pool to the audit and the publication. *)
ResultsAreTrue ==
  /\ \A u \in DOMAIN finished : \A t \in u :
       /\ TrueStatus(t, finished[u][t].status, gone, lost)
       /\ finished[u][t].rows = IF finished[u][t].status = "error" THEN {} ELSE Available(t)
  /\ \A t \in DOMAIN results : TrueStatus(t, results[t], gone, lost)
  /\ cache = [t \in DOMAIN cache |-> Available(t)]
  /\ main.pc \notin Ended => DOMAIN cache = {t \in DOMAIN results : results[t] = "success"}
  /\ main.pc = "publish" => \A t \in DOMAIN results : results[t] # "error"
  /\ main.pc = "published" =>
       published = [t \in {s \in Tokens : Available(s) # {} /\ s \notin gone} |-> Available(t)]

MainOK ==
  /\ main = [pc |-> main.pc, done |-> main.done]
  /\ main.pc \in Ended \cup {"wait", "take", "audit", "publish"} /\ main.done \subseteq DOMAIN finished
  /\ idle \in 0..HardTimeout

(* What has been spent of the limiter and what it has left, at its rate. *)
Paced ==
  /\ rate \in Rates /\ permits \in 0..rate /\ sent \in Nat
  /\ sent * rate + permits * Max(Rates) <= Max(Rates) * rate

FetchInv == MainOK /\ WorkersOK /\ UnitsApart /\ NoUnitForgotten /\ ResultsAreTrue
FetchBounds == Paced /\ InflightIsBounded /\ CacheIsRemoved

-----------------------------------------------------------------------------
(* Windows, units and lists of tasks *)

LEMMA FetchConstants ==
  /\ Tokens \in SUBSET Nat /\ IsFiniteSet(Tokens)
  /\ \A t \in Tokens : t > 0 /\ Window[t] \in [from : Nat, to : Nat] /\ Window[t].from < Window[t].to
  /\ \A t \in Tokens : History[t] \in SUBSET Nat
  /\ Minute \in Nat /\ Minute > 0 /\ ChunkLength \in Nat /\ ChunkLength > 0 /\ BatchSize \in Nat /\ BatchSize > 0
  /\ MaxInflight \in Nat /\ MaxInflight > 0 /\ HardTimeout \in Nat /\ HardTimeout > 0
  /\ LongestRange \in Nat /\ LongestRange > 0 /\ Workers \in Nat /\ Retries \in Nat
  /\ Rates \in SUBSET Nat /\ IsFiniteSet(Rates) /\ Rates # {} /\ \A r \in Rates : r > 0
BY FetchAssumption

LEMMA Rounded ==
  ASSUME NEW x \in Nat, NEW m \in Nat, m > 0
  PROVE  /\ (x \div m) * m \in Nat /\ (x \div m) * m <= x
         /\ ((x + m - 1) \div m) * m \in Nat /\ x <= ((x + m - 1) \div m) * m
<1>1. \A y \in Nat : y \div m \in Nat /\ (y \div m) * m <= y /\ y < (y \div m) * m + m
  OBVIOUS
<1>2. x + m - 1 \in Nat
  OBVIOUS
<1>3. \A y \in Nat : y * m \in Nat
  OBVIOUS
<1>4. PICK p \in Nat : p = (x \div m) * m
  BY <1>1, <1>3
<1>5. PICK q \in Nat : q = ((x + m - 1) \div m) * m
  BY <1>1, <1>2, <1>3
<1>6. p <= x
  BY <1>1, <1>4
<1>7. x + m - 1 < q + m
  BY <1>1, <1>2, <1>5
<1> QED BY <1>4, <1>5, <1>6, <1>7

LEMMA PaddedIs ==
  ASSUME NEW t \in Tokens
  PROVE  /\ PaddedFrom(t) \in Nat /\ PaddedTo(t) \in Nat
         /\ PaddedFrom(t) <= Window[t].from /\ Window[t].to <= PaddedTo(t) /\ PaddedFrom(t) < PaddedTo(t)
<1>1. Window[t].from \in Nat /\ Window[t].to \in Nat /\ Window[t].from < Window[t].to /\ Minute \in Nat /\ Minute > 0
  BY FetchConstants
<1>2. PaddedFrom(t) \in Nat /\ PaddedFrom(t) <= Window[t].from
  BY <1>1, Rounded DEF PaddedFrom
<1>3. PaddedTo(t) \in Nat /\ Window[t].to <= PaddedTo(t)
  BY <1>1, Rounded DEF PaddedTo
<1> QED BY <1>1, <1>2, <1>3

LEMMA UnitIs ==
  ASSUME NEW t \in Tokens
  PROVE  t \in Unit(t) /\ \A s \in Unit(t) : s \in Tokens /\ Window[s] = Window[t] /\ Unit(s) = Unit(t)
BY DEF Unit

LEMMA UnitsAre ==
  ASSUME NEW u \in Units
  PROVE  /\ u \in SUBSET Tokens /\ IsFiniteSet(u) /\ Min(u) \in u /\ Min(u) \in Tokens
         /\ \A t \in u : u = Unit(t) /\ PaddedFrom(t) = PaddedFrom(Min(u)) /\ PaddedTo(t) = PaddedTo(Min(u))
<1>1. PICK s \in Tokens : u = Unit(s)
  BY DEF Units
<1>2. u \in SUBSET Tokens /\ s \in u
  BY <1>1, UnitIs
<1>3. IsFiniteSet(u)
  BY <1>2, FS_Subset, FetchConstants
<1>4. u \in SUBSET Nat
  BY <1>2, FetchConstants
<1>5. Min(u) \in u
  BY <1>2, <1>4, MinIs
<1>6. \A t \in u : u = Unit(t) /\ Window[t] = Window[s]
  BY <1>1, UnitIs
<1>7. \A t \in u : PaddedFrom(t) = PaddedFrom(Min(u)) /\ PaddedTo(t) = PaddedTo(Min(u))
  BY <1>5, <1>6 DEF PaddedFrom, PaddedTo
<1> QED BY <1>2, <1>3, <1>5, <1>6, <1>7

LEMMA UnitsDiffer ==
  ASSUME NEW u \in Units, NEW v \in Units, u # v
  PROVE  u \cap v = {}
BY UnitsAre

LEMMA UnitsFinite == IsFiniteSet(Units)
<1> DEFINE f == [t \in Tokens |-> Unit(t)]
<1>1. f \in Surjection(Tokens, Units)
  BY DEF Units, Surjection
<1>2. IsFiniteSet(Tokens)
  BY FetchConstants
<1> QED BY <1>1, <1>2, FS_Surjection

(* Units have an order, and any set of them a first.                       *)
LEMMA FirstIs ==
  ASSUME NEW us \in SUBSET Units, us # {}
  PROVE  First(us) \in us
<1>1. \A u \in us : Min(u) \in Nat /\ Window[Min(u)].from \in Nat /\ Window[Min(u)].to \in Nat
  BY UnitsAre, FetchConstants
<1> DEFINE A == {Window[Min(u)].from : u \in us}
<1>2. A \in SUBSET Nat /\ A # {}
  BY <1>1
<1>3. PICK a \in A : \A x \in A : a <= x
  <2> HIDE DEF A
  <2> QED BY <1>2, Smallest
<1> DEFINE as == {u \in us : Window[Min(u)].from = a}
           B == {Window[Min(u)].to : u \in as}
<1>4. B \in SUBSET Nat /\ B # {}
  <2>1. PICK u \in us : a = Window[Min(u)].from
    OBVIOUS
  <2> QED BY <1>1, <2>1
<1>5. PICK b \in B : \A x \in B : b <= x
  <2> HIDE DEF B
  <2> QED BY <1>4, Smallest
<1> DEFINE bs == {u \in as : Window[Min(u)].to = b}
           C == {Min(u) : u \in bs}
<1>6. C \in SUBSET Nat /\ C # {}
  <2>1. PICK u \in as : b = Window[Min(u)].to
    OBVIOUS
  <2> QED BY <1>1, <2>1
<1>7. PICK c \in C : \A x \in C : c <= x
  <2> HIDE DEF C
  <2> QED BY <1>6, Smallest
<1>8. PICK u \in bs : c = Min(u)
  OBVIOUS
<1>9. \A v \in us : Earlier(u, v)
  <2> TAKE v \in us
  <2>1. a \in Nat /\ b \in Nat /\ c \in Nat
    BY <1>2, <1>4, <1>6
  <2>2. a <= Window[Min(v)].from
    BY <1>3
  <2>3. Window[Min(v)].from = a => b <= Window[Min(v)].to
    BY <1>5
  <2>4. Window[Min(v)].from = a /\ Window[Min(v)].to = b => c <= Min(v)
    BY <1>7
  <2>5. Window[Min(u)].from = a /\ Window[Min(u)].to = b /\ Min(u) = c
    BY <1>8
  <2> HIDE DEF A, as, B, bs, C
  <2> QED BY <1>1, <2>1, <2>2, <2>3, <2>4, <2>5 DEF Earlier
<1>10. u \in us
  OBVIOUS
<1> HIDE DEF A, as, B, bs, C
<1> QED BY <1>9, <1>10 DEF First

(* Among the numbers of a finite set each has its rank.                    *)
Rank(S, x) == Cardinality({y \in S : y <= x})

LEMMA RankIs ==
  ASSUME NEW S \in SUBSET Nat, IsFiniteSet(S)
  PROVE  /\ Cardinality(S) \in Nat
         /\ \A x \in S : Rank(S, x) \in 1..Cardinality(S)
         /\ \A x, y \in S : x < y => Rank(S, x) < Rank(S, y)
         /\ \A k \in 1..Cardinality(S) : \E x \in S : Rank(S, x) = k
<1> DEFINE Below(x) == {y \in S : y <= x}
           n == Cardinality(S)
           r == [x \in S |-> Rank(S, x)]
<1>1. n \in Nat
  BY FS_CardinalityType
<1>2. \A x \in S : /\ IsFiniteSet(Below(x)) /\ Cardinality(Below(x)) \in Nat
                   /\ Cardinality(Below(x)) <= n /\ Cardinality(Below(x)) # 0
  <2> TAKE x \in S
  <2>1. Below(x) \in SUBSET S /\ x \in Below(x)
    OBVIOUS
  <2> HIDE DEF Below
  <2>2. IsFiniteSet(Below(x)) /\ Cardinality(Below(x)) <= n
    BY <2>1, FS_Subset
  <2>3. Cardinality(Below(x)) # 0
    BY <2>1, <2>2, FS_EmptySet
  <2> QED BY <2>2, <2>3, FS_CardinalityType
<1>3. \A x \in S : Rank(S, x) \in 1..n
  BY <1>1, <1>2 DEF Rank
<1>4. \A x, y \in S : x < y => Rank(S, x) < Rank(S, y)
  <2> TAKE x, y \in S
  <2> HAVE x < y
  <2>0. x \in Nat /\ y \in Nat /\ \A z \in S : z \in Nat
    OBVIOUS
  <2>1. Below(x) \in SUBSET Below(y) /\ y \in Below(y) /\ y \notin Below(x)
    <3>1. \A z \in Below(x) : z \in S /\ z <= y
      BY <2>0
    <3>2. y \in Below(y) /\ y \notin Below(x)
      BY <2>0
    <3> QED BY <3>1, <3>2
  <2>2. Rank(S, x) = Cardinality(Below(x)) /\ Rank(S, y) = Cardinality(Below(y))
    BY DEF Rank
  <2> HIDE DEF Below
  <2>3. Cardinality(Below(x)) <= Cardinality(Below(y)) /\ Cardinality(Below(x)) # Cardinality(Below(y))
    BY <1>2, <2>1, FS_Subset
  <2> QED BY <1>2, <2>2, <2>3
<1>5. r \in Injection(S, 1..n)
  <2>1. r \in [S -> 1..n]
    BY <1>3
  <2>2. \A x, y \in S : r[x] = r[y] => x = y
    <3> TAKE x, y \in S
    <3>1. x \in Nat /\ y \in Nat /\ Rank(S, x) \in Nat /\ Rank(S, y) \in Nat
      BY <1>1, <1>3
    <3> QED BY <1>4, <3>1
  <2> HIDE DEF r
  <2> QED BY <2>1, <2>2 DEF Injection, IsInjective
<1>6. IsFiniteSet(1..n) /\ Cardinality(1..n) = n
  BY <1>1, FS_Interval
<1>7. r \in Surjection(S, 1..n)
  <2> HIDE DEF r
  <2> QED BY <1>5, <1>6, FS_Injection
<1>8. \A k \in 1..n : \E x \in S : r[x] = k
  <2> HIDE DEF r
  <2> QED BY <1>7 DEF Surjection
<1> QED BY <1>1, <1>3, <1>4, <1>8

LEMMA AscendingIs ==
  ASSUME NEW S \in SUBSET Nat, IsFiniteSet(S)
  PROVE  /\ Cardinality(S) \in Nat /\ Ascending(S) \in [1..Cardinality(S) -> S]
         /\ \A t \in S : \E k \in 1..Cardinality(S) : Ascending(S)[k] = t
<1> DEFINE n == Cardinality(S)
           ts == [k \in 1..n |-> CHOOSE x \in S : Rank(S, x) = k]
<1>1. n \in Nat /\ (\A x \in S : Rank(S, x) \in 1..n) /\ \A x, y \in S : x < y => Rank(S, x) < Rank(S, y)
  BY RankIs
<1>2. \A k \in 1..n : ts[k] \in S /\ Rank(S, ts[k]) = k
  <2>1. \A k \in 1..n : \E x \in S : Rank(S, x) = k
    BY RankIs
  <2> QED BY <2>1
<1> HIDE DEF ts
<1>3. ts \in [1..n -> S]
  BY <1>2 DEF ts
<1>4. \A x, y \in S : Rank(S, x) = Rank(S, y) => x = y
  <2> TAKE x, y \in S
  <2>1. x \in Nat /\ y \in Nat /\ Rank(S, x) \in Nat /\ Rank(S, y) \in Nat
    BY <1>1
  <2> QED BY <1>1, <2>1
<1>5. \A t \in S : \E k \in DOMAIN ts : ts[k] = t
  <2> TAKE t \in S
  <2>1. Rank(S, t) \in 1..n
    BY <1>1
  <2>2. ts[Rank(S, t)] = t
    BY <1>2, <1>4, <2>1
  <2> QED BY <1>3, <2>1, <2>2
<1>6. \A j, k \in DOMAIN ts : j < k => ts[j] < ts[k]
  <2> TAKE j, k \in DOMAIN ts
  <2> HAVE j < k
  <2>1. ts[j] \in S /\ ts[k] \in S /\ Rank(S, ts[j]) = j /\ Rank(S, ts[k]) = k
    BY <1>2, <1>3
  <2>2. ts[j] \in Nat /\ ts[k] \in Nat
    BY <2>1
  <2>3. j \in Nat /\ k \in Nat
    BY <1>1, <1>3
  <2>4. ts[k] < ts[j] => k < j
    <3>1. \A x, y \in S : x < y => Rank(S, x) < Rank(S, y)
      BY <1>1
    <3>2. ts[k] < ts[j] => Rank(S, ts[k]) < Rank(S, ts[j])
      BY <2>1, <3>1
    <3> QED BY <2>1, <3>2
  <2>5. ~(ts[k] < ts[j]) /\ ts[j] # ts[k]
    BY <2>1, <2>3, <2>4
  <2> QED BY <2>2, <2>5
<1>7. \E f \in [1..n -> S] : (\A t \in S : \E k \in DOMAIN f : f[k] = t) /\ \A j, k \in DOMAIN f : j < k => f[j] < f[k]
  BY <1>3, <1>5, <1>6
<1>8. Ascending(S) \in [1..n -> S] /\ \A t \in S : \E k \in DOMAIN Ascending(S) : Ascending(S)[k] = t
  BY <1>7 DEF Ascending
<1> QED BY <1>1, <1>8

LEMMA GreatestIs ==
  ASSUME NEW S \in SUBSET Nat, IsFiniteSet(S), S # {}
  PROVE  Max(S) \in S /\ \A y \in S : y <= Max(S)
<1>1. Cardinality(S) \in Nat /\ Cardinality(S) # 0
  BY FS_CardinalityType, FS_EmptySet
<1>2. PICK x \in S : Rank(S, x) = Cardinality(S)
  BY <1>1, RankIs
<1>3. {y \in S : y <= x} = S
  BY <1>2, FS_Subset DEF Rank
<1>4. \E z \in S : \A y \in S : z >= y
  BY <1>3
<1> QED BY <1>4 DEF Max

LEMMA MinOfTwo == \A a, b \in Nat : Min({a, b}) = IF a <= b THEN a ELSE b
<1> TAKE a, b \in Nat
<1>1. Min({a, b}) \in {a, b} /\ \A y \in {a, b} : Min({a, b}) <= y
  BY MinIs
<1> QED BY <1>1

(* With a batch size of one a unit is one token.                           *)
LEMMA SinglesAre ==
  ASSUME NEW u \in Units, BatchSize = 1
  PROVE  u = {Min(u)}
<1> DEFINE Before(t) == {s \in Tokens : Window[s] = Window[t] /\ s < t}
<1>1. \A t \in Tokens : IsFiniteSet(Before(t)) /\ Cardinality(Before(t)) \in Nat
  <2> TAKE t \in Tokens
  <2>1. Before(t) \in SUBSET Tokens
    OBVIOUS
  <2> HIDE DEF Before
  <2> QED BY <2>1, FetchConstants, FS_Subset, FS_CardinalityType
<1>2. \A t \in Tokens : Place(t) = Cardinality(Before(t))
  <2> TAKE t \in Tokens
  <2>1. Place(t) = Cardinality(Before(t)) \div 1
    BY DEF Place
  <2>2. \A n \in Nat : n \div 1 = n
    OBVIOUS
  <2> HIDE DEF Before
  <2> QED BY <1>1, <2>1, <2>2
<1>3. \A s, t \in Tokens : Window[s] = Window[t] /\ s < t => Place(s) # Place(t)
  <2> TAKE s, t \in Tokens
  <2> HAVE Window[s] = Window[t] /\ s < t
  <2>1. s \in Nat /\ t \in Nat /\ Tokens \in SUBSET Nat
    BY FetchConstants
  <2>2. \A x \in Before(s) : x \in Tokens /\ Window[x] = Window[t] /\ x < t
    <3> TAKE x \in Before(s)
    <3>1. x \in Nat /\ x < s /\ Window[x] = Window[s] /\ x \in Tokens
      BY <2>1
    <3> QED BY <2>1, <3>1
  <2>3. Before(s) \in SUBSET Before(t)
    BY <2>2
  <2>4. s \in Before(t) /\ s \notin Before(s)
    BY <2>1
  <2> HIDE DEF Before
  <2> QED BY <1>1, <1>2, <2>3, <2>4, FS_Subset
<1>4. \A t \in u : t = Min(u)
  <2> TAKE t \in u
  <2>0. Min(u) \in u /\ u = Unit(t) /\ u \in SUBSET Tokens
    BY UnitsAre
  <2>1. u = Unit(t) /\ t \in Tokens /\ Min(u) \in Unit(t) /\ t \in Nat /\ Min(u) \in Nat
    BY <2>0, FetchConstants
  <2>2. Window[Min(u)] = Window[t] /\ Place(Min(u)) = Place(t) /\ Min(u) \in Tokens
    BY <2>1 DEF Unit
  <2> QED BY <1>3, <2>1, <2>2
<1> QED BY <1>4, UnitsAre

LEMMA TasksAre ==
  ASSUME NEW q \in Seq(Tasks), q # <<>>
  PROVE  /\ Head(q) \in Tasks /\ Tail(q) \in Seq(Tasks)
         /\ \A t : Awaits(q, t) => Asks(Head(q), t) \/ Awaits(Tail(q), t)
         /\ \A t, i : Due(q, t, i) => (Asks(Head(q), t) /\ Reaches(Head(q), i)) \/ Due(Tail(q), t, i)
<1>1. Len(q) \in Nat /\ Len(q) >= 1 /\ DOMAIN q = 1..Len(q) /\ Head(q) = q[1] /\ q[1] \in Tasks
  OBVIOUS
<1>2. Tail(q) \in Seq(Tasks) /\ Len(Tail(q)) = Len(q) - 1
  OBVIOUS
<1>3. \A n \in DOMAIN q : n = 1 \/ (n - 1 \in DOMAIN Tail(q) /\ Tail(q)[n - 1] = q[n])
  OBVIOUS
<1>4. \A t : Awaits(q, t) => Asks(Head(q), t) \/ Awaits(Tail(q), t)
  BY <1>1, <1>3 DEF Awaits
<1>5. \A t, i : Due(q, t, i) => (Asks(Head(q), t) /\ Reaches(Head(q), i)) \/ Due(Tail(q), t, i)
  BY <1>1, <1>3 DEF Due
<1> QED BY <1>1, <1>2, <1>4, <1>5

LEMMA JoinedAre ==
  ASSUME NEW p \in Seq(Tasks), NEW q \in Seq(Tasks)
  PROVE  /\ p \o q \in Seq(Tasks)
         /\ \A t : Awaits(p, t) \/ Awaits(q, t) => Awaits(p \o q, t)
         /\ \A t, i : Due(p, t, i) \/ Due(q, t, i) => Due(p \o q, t, i)
<1>1. p \o q \in Seq(Tasks) /\ Len(p \o q) = Len(p) + Len(q) /\ Len(p) \in Nat /\ Len(q) \in Nat
  OBVIOUS
<1>2. \A n \in DOMAIN p : n \in DOMAIN (p \o q) /\ (p \o q)[n] = p[n]
  OBVIOUS
<1>3. \A n \in DOMAIN q : Len(p) + n \in DOMAIN (p \o q) /\ (p \o q)[Len(p) + n] = q[n]
  OBVIOUS
<1>4. \A t : Awaits(p, t) \/ Awaits(q, t) => Awaits(p \o q, t)
  BY <1>2, <1>3 DEF Awaits
<1>5. \A t, i : Due(p, t, i) \/ Due(q, t, i) => Due(p \o q, t, i)
  BY <1>2, <1>3 DEF Due
<1> QED BY <1>1, <1>4, <1>5

LEMMA RestIs ==
  ASSUME NEW q \in Seq(Tasks), NEW ts
  PROVE  /\ SubSeq(q, NextOther(q, ts), Len(q)) \in Seq(Tasks)
         /\ \A t : t \notin ts /\ Awaits(q, t) => Awaits(SubSeq(q, NextOther(q, ts), Len(q)), t)
         /\ \A t, i : t \notin ts /\ Due(q, t, i) => Due(SubSeq(q, NextOther(q, ts), Len(q)), t, i)
<1> DEFINE others == {k \in 1..Len(q) + 1 : k <= Len(q) => q[k].kind = "batch" \/ q[k].token \notin ts}
           m == NextOther(q, ts)
           r == SubSeq(q, m, Len(q))
<1>1. Len(q) \in Nat /\ DOMAIN q = 1..Len(q)
  OBVIOUS
<1>2. others \in SUBSET Nat /\ Len(q) + 1 \in others
  BY <1>1
<1>3. m \in others /\ \A k \in others : m <= k
  <2>1. m = Min(others)
    BY DEF NextOther
  <2> HIDE DEF others
  <2> QED BY <1>2, <2>1, MinIs
<1>4. m \in 1..Len(q) + 1
  BY <1>3
<1>5. \A k \in 1..Len(q) : k < m => q[k].kind # "batch" /\ q[k].token \in ts
  <2> TAKE k \in 1..Len(q)
  <2> HAVE k < m
  <2>1. k \notin others
    <3> HIDE DEF others
    <3> QED BY <1>3, <1>1, <1>4
  <2> QED BY <1>1, <2>1
<1> HIDE DEF m, others
<1>6. r \in Seq(Tasks) /\ Len(r) = Len(q) - m + 1
  BY <1>1, <1>4
<1>7. \A k \in 1..Len(q) : k >= m => k - m + 1 \in DOMAIN r /\ r[k - m + 1] = q[k]
  BY <1>1, <1>4
<1> HIDE DEF r
<1>8. \A k \in DOMAIN q : \A t : t \notin ts /\ Asks(q[k], t) =>
        \E n \in DOMAIN r : r[n] = q[k]
  <2> TAKE k \in DOMAIN q
  <2> TAKE t
  <2> HAVE t \notin ts /\ Asks(q[k], t)
  <2>1. k >= m
    BY <1>1, <1>4, <1>5 DEF Asks
  <2> QED BY <1>1, <1>7, <2>1
<1>9. \A t : t \notin ts /\ Awaits(q, t) => Awaits(r, t)
  BY <1>8 DEF Awaits
<1>10. \A t, i : t \notin ts /\ Due(q, t, i) => Due(r, t, i)
  BY <1>8 DEF Due
<1> QED BY <1>6, <1>9, <1>10 DEF m, r

-----------------------------------------------------------------------------
(* The work on a unit *)

LEMMA FirstTaskIs ==
  ASSUME NEW u \in Units, NEW from \in Nat, from < PaddedTo(Min(u))
  PROVE  LET task == ChunkTask(u, from)
         IN /\ task \in Tasks /\ task.from = from /\ from < task.to /\ task.to <= PaddedTo(Min(u))
            /\ \A t \in u : Asks(task, t)
<1>1. Min(u) \in Tokens /\ PaddedTo(Min(u)) \in Nat /\ from + ChunkLength \in Nat /\ from < from + ChunkLength
  <2>1. Min(u) \in Tokens
    BY UnitsAre
  <2>2. ChunkLength \in Nat /\ ChunkLength > 0
    BY FetchConstants
  <2> QED BY <2>1, <2>2, PaddedIs
<1>2. PICK to \in Nat : to = Min({from + ChunkLength, PaddedTo(Min(u))}) /\ from < to /\ to <= PaddedTo(Min(u))
  BY <1>1, MinOfTwo
<1>3. ChunkTask(u, from) = [kind |-> IF BatchSize > 1 THEN "batch" ELSE "minute", token |-> Min(u), from |-> from, to |-> to]
  BY <1>2 DEF ChunkTask, Task
<1>4. ChunkTask(u, from) \in Tasks
  BY <1>1, <1>2, <1>3 DEF Tasks
<1>5. \A t \in u : Asks(ChunkTask(u, from), t)
  <2>1. CASE BatchSize > 1
    BY <1>3, <2>1 DEF Asks
  <2>2. CASE ~(BatchSize > 1)
    <3>1. BatchSize = 1
      BY <2>2, FetchConstants
    <3> QED BY <1>3, <3>1, SinglesAre DEF Asks
  <2> QED BY <2>1, <2>2
<1> QED BY <1>2, <1>3, <1>4, <1>5

LEMMA OneTask ==
  ASSUME NEW k \in Tasks, NEW t
  PROVE  /\ <<k>> \in Seq(Tasks)
         /\ Asks(k, t) => Awaits(<<k>>, t)
         /\ \A i : Asks(k, t) /\ Reaches(k, i) => Due(<<k>>, t, i)
<1>1. <<k>> \in Seq(Tasks) /\ 1 \in DOMAIN <<k>> /\ <<k>>[1] = k
  OBVIOUS
<1> QED BY <1>1 DEF Awaits, Due

(* No job is no work. *)
LEMMA JobsAre ==
  ASSUME NEW u \in Units, NEW k \in Jobs(u)
  PROVE  /\ k # NoWork /\ k.unit = u /\ k.tasks \in Seq(Tasks) /\ k.to \in Nat /\ k.active \in SUBSET u
         /\ k.rows \in [u -> SUBSET Nat] /\ k.retry \in Nat /\ u # {}
         /\ \A t \in u : t \in Tokens /\ PaddedFrom(t) = PaddedFrom(Min(u))
<1>1. k.unit = u /\ k.tasks \in Seq(Tasks) /\ k.to \in Nat /\ k.active \in SUBSET u
      /\ k.rows \in [u -> SUBSET Nat] /\ k.retry \in Nat
  BY DEF Jobs
<1>2. u # {} /\ \A t \in u : t \in Tokens /\ PaddedFrom(t) = PaddedFrom(Min(u))
  BY UnitsAre
<1>3. k # NoWork
  BY <1>1, <1>2 DEF NoWork
<1> QED BY <1>1, <1>2, <1>3

(* A unit that is taken begins with its first chunk. *)
LEMMA TakenIsTracked ==
  ASSUME NEW u \in Units
  PROVE  WorkOn(u) \in Jobs(u) /\ KeepsTrack(WorkOn(u), gone, lost)
<1> DEFINE from == PaddedFrom(Min(u))
           task == ChunkTask(u, from)
<1>1. Min(u) \in Tokens /\ from \in Nat /\ from < PaddedTo(Min(u)) /\ u \in SUBSET Tokens
      /\ \A t \in u : PaddedFrom(t) = from
  BY UnitsAre, PaddedIs
<1> HIDE DEF from
<1>2. task \in Tasks /\ task.from = from /\ task.to \in Nat /\ \A t \in u : Asks(task, t)
  <2>1. task \in Tasks /\ task.from = from /\ \A t \in u : Asks(task, t)
    BY <1>1, FirstTaskIs
  <2> QED BY <2>1 DEF Tasks
<1> HIDE DEF task
<1>3. WorkOn(u) = [unit |-> u, tasks |-> <<task>>, to |-> task.to, active |-> u, rows |-> [t \in u |-> {}], retry |-> 0]
  BY DEF WorkOn, task, from
<1>4. <<task>> \in Seq(Tasks) /\ [t \in u |-> {}] \in [u -> SUBSET Nat] /\ 0 \in Nat
  BY <1>2
<1>5. WorkOn(u) \in Jobs(u)
  BY <1>2, <1>3, <1>4 DEF Jobs
<1>6. \A t \in u : Awaits(<<task>>, t) /\ \A i \in Nat : from <= i /\ i <= task.to => Due(<<task>>, t, i)
  BY <1>2, OneTask DEF Reaches
<1>7. \A t \in u : Offered(t) \in SUBSET Nat
  BY <1>1, FetchConstants DEF Offered
<1>8. KeepsTrack(WorkOn(u), gone, lost)
  BY <1>1, <1>3, <1>6, <1>7 DEF KeepsTrack
<1> QED BY <1>5, <1>8

LEMMA TrackGoesOn ==
  ASSUME NEW u \in Units, NEW k \in Jobs(u), KeepsTrack(k, gone, lost),
         NEW j \in Jobs(u), NEW failed, lost \subseteq failed, j.to = k.to, j.active \subseteq k.active,
         \A t \in k.active \ j.active : t \in gone \cup failed,
         \A t \in j.active :
           /\ j.rows[t] \subseteq Offered(t) /\ k.rows[t] \subseteq j.rows[t]
           /\ t \in gone /\ Awaits(k.tasks, t) => Awaits(j.tasks, t)
           /\ \A i \in Offered(t) : Due(k.tasks, t, i) => i \in j.rows[t] \/ Due(j.tasks, t, i)
  PROVE  KeepsTrack(j, gone, failed)
<1>1. j.unit = u /\ k.unit = u
  BY JobsAre
<1>2. \A t \in j.active : \A i \in Offered(t) :
        PaddedFrom(t) <= i /\ i <= j.to => (i \in j.rows[t] \/ Due(j.tasks, t, i))
  BY DEF KeepsTrack
<1>3. \A t \in j.active \cap gone : Awaits(j.tasks, t)
  BY DEF KeepsTrack
<1>4. \A t \in j.unit \ j.active : t \in gone \cup failed
  BY <1>1 DEF KeepsTrack
<1> QED BY <1>2, <1>3, <1>4 DEF KeepsTrack

(* What a worker that sends is at. *)
LEMMA SenderIs ==
  ASSUME WorkersOK, NEW w \in 1..Workers, worker[w].active # {}
  PROVE  /\ worker[w] # NoWork /\ worker = [v \in 1..Workers |-> worker[v]]
         /\ \E u \in Units : worker[w] \in Jobs(u) /\ KeepsTrack(worker[w], gone, lost)
<1>1. worker[w] # NoWork
  BY DEF NoWork
<1> QED BY <1>1 DEF WorkersOK

LEMMA AskedIs ==
  ASSUME NEW w, NEW u \in Units, worker[w] \in Jobs(u), worker[w].tasks # <<>>
  PROVE  /\ FirstTask(w) \in Tasks /\ FirstTask(w) = Head(worker[w].tasks)
         /\ \A t \in worker[w].active : t \in Asked(w) <=> Asks(FirstTask(w), t)
<1>1. worker[w].tasks \in Seq(Tasks)
  BY JobsAre
<1>2. FirstTask(w) \in Tasks /\ FirstTask(w) = Head(worker[w].tasks)
  BY <1>1, TasksAre DEF FirstTask
<1> QED BY <1>2 DEF Asked, IsBatch, Asks

(* Tasks in place of the one at hand that ask for no less. *)
LEMMA GoingOn ==
  ASSUME WorkersOK, NEW w \in 1..Workers, worker[w].active # {}, worker[w].tasks # <<>>,
         NEW p \in Seq(Tasks), GoesOn(w, p), lost' = lost,
         \A t \in worker[w].active : Asks(FirstTask(w), t) =>
           Awaits(p, t) /\ \A i \in Nat : Reaches(FirstTask(w), i) => Due(p, t, i)
  PROVE  \E u \in Units : worker[w] \in Jobs(u) /\ \E j \in Jobs(u) :
           worker' = [worker EXCEPT ![w] = j] /\ KeepsTrack(j, gone, lost')
<1>1. PICK u \in Units : worker[w] \in Jobs(u) /\ KeepsTrack(worker[w], gone, lost)
  BY SenderIs
<1> DEFINE k == worker[w]
           q == p \o Tail(k.tasks)
           j == [k EXCEPT !.tasks = q, !.retry = 0]
<1>2. k \in Jobs(u) /\ KeepsTrack(k, gone, lost)
  BY <1>1
<1>3. worker' = [worker EXCEPT ![w] = j]
  BY SenderIs, <1>2 DEF GoesOn, Jobs
<1>4. k.tasks \in Seq(Tasks) /\ k.active \in SUBSET u /\ k.rows \in [u -> SUBSET Nat] /\ \A t \in u : t \in Tokens
  BY <1>2, JobsAre
<1>5. FirstTask(w) = Head(k.tasks)
  BY DEF FirstTask
<1>6. q \in Seq(Tasks) /\ \A t \in k.active :
        /\ Awaits(k.tasks, t) => Awaits(q, t)
        /\ \A i \in Nat : Due(k.tasks, t, i) => Due(q, t, i)
  <2>1. Tail(k.tasks) \in Seq(Tasks)
    BY <1>4, TasksAre
  <2>2. q \in Seq(Tasks)
    BY <2>1, JoinedAre
  <2>3. ASSUME NEW t \in k.active
        PROVE  Awaits(k.tasks, t) => Awaits(q, t)
    <3>1. Awaits(k.tasks, t) => Awaits(p, t) \/ Awaits(Tail(k.tasks), t)
      BY <1>4, <1>5, TasksAre
    <3> QED BY <2>1, <3>1, JoinedAre
  <2>4. ASSUME NEW t \in k.active, NEW i \in Nat
        PROVE  Due(k.tasks, t, i) => Due(q, t, i)
    <3>1. Due(k.tasks, t, i) => Due(p, t, i) \/ Due(Tail(k.tasks), t, i)
      BY <1>4, <1>5, TasksAre
    <3> QED BY <2>1, <3>1, JoinedAre
  <2> QED BY <2>2, <2>3, <2>4
<1> HIDE DEF q
<1>7. j \in Jobs(u) /\ j.tasks = q /\ j.to = k.to /\ j.active = k.active /\ j.rows = k.rows
  BY <1>2, <1>6 DEF Jobs
<1> HIDE DEF k, j
<1>8. \A t \in k.active : Offered(t) \in SUBSET Nat /\ k.rows[t] \subseteq Offered(t)
  BY <1>2, <1>4, FetchConstants DEF Offered, KeepsTrack
<1>9. KeepsTrack(j, gone, lost)
  BY <1>2, <1>6, <1>7, <1>8, TrackGoesOn
<1> QED BY <1>1, <1>3, <1>7, <1>9

LEMMA AnsweredStep ==
  ASSUME WorkersOK, NEW w \in 1..Workers, Answered(w)
  PROVE  \E u \in Units : worker[w] \in Jobs(u) /\ \E j \in Jobs(u) :
           worker' = [worker EXCEPT ![w] = j] /\ KeepsTrack(j, gone, lost')
<1>0. worker[w].active # {} /\ worker[w].tasks # <<>> /\ ~Refused(w) /\ lost' = lost
  BY DEF Answered, Sends
<1>1. PICK u \in Units : worker[w] \in Jobs(u) /\ KeepsTrack(worker[w], gone, lost)
  BY <1>0, SenderIs
<1> DEFINE k == worker[w]
           rows == [t \in DOMAIN k.rows |-> IF t \in Asked(w) THEN k.rows[t] \cup Prices(t, FirstTask(w)) ELSE k.rows[t]]
           j == [k EXCEPT !.tasks = Tail(@), !.retry = 0, !.rows = rows]
<1>2. k \in Jobs(u) /\ KeepsTrack(k, gone, lost)
  BY <1>1
<1>3. worker' = [worker EXCEPT ![w] = j]
  BY <1>0, SenderIs, <1>2 DEF Answered, Jobs
<1>4. k.tasks \in Seq(Tasks) /\ k.active \in SUBSET u /\ k.rows \in [u -> SUBSET Nat] /\ \A t \in u : t \in Tokens
  BY <1>2, JobsAre
<1>5. FirstTask(w) \in Tasks /\ FirstTask(w) = Head(k.tasks)
      /\ \A t \in k.active : t \in Asked(w) <=> Asks(FirstTask(w), t)
  BY <1>0, <1>2, AskedIs
<1>6. \A t \in Tokens : Prices(t, FirstTask(w)) \in SUBSET Nat /\ Offered(t) \in SUBSET Nat
  BY FetchConstants DEF Prices, Offered
<1>7. rows \in [u -> SUBSET Nat]
  BY <1>4, <1>6
<1>8. Tail(k.tasks) \in Seq(Tasks)
  BY <1>0, <1>4, TasksAre
<1> DEFINE q == Tail(k.tasks)
<1> HIDE DEF rows, q
<1>9. j \in Jobs(u) /\ j.tasks = q /\ j.to = k.to /\ j.active = k.active /\ j.rows = rows
  BY <1>2, <1>7, <1>8 DEF Jobs, q
<1>10. ASSUME NEW t \in k.active, t \in Asked(w)
       PROVE  /\ t \notin gone /\ Prices(t, FirstTask(w)) \subseteq Offered(t)
              /\ \A i \in Offered(t) : Reaches(FirstTask(w), i) => i \in Prices(t, FirstTask(w))
  <2>1. t \notin gone /\ (FirstTask(w).kind # "coarse" => t \notin Coarse)
    BY <1>0, <1>10 DEF Refused
  <2>2. FirstTask(w).kind = "coarse" => t \in Coarse
    <3>1. FirstTask(w).kind = "coarse" => FirstTask(w).token \in Coarse /\ FirstTask(w).kind # "batch"
      BY <1>5 DEF Tasks
    <3> QED BY <1>5, <1>10, <3>1 DEF Asks
  <2>3. CASE FirstTask(w).kind = "coarse"
    <3>1. Offered(t) = History[t] \cap CoarseInstants
      BY <2>2, <2>3 DEF Offered
    <3> QED BY <2>1, <2>3, <3>1 DEF Prices, Reaches
  <2>4. CASE FirstTask(w).kind # "coarse"
    <3>1. Offered(t) = History[t]
      BY <2>1, <2>4 DEF Offered
    <3> QED BY <2>1, <2>4, <3>1 DEF Prices, Reaches
  <2> QED BY <2>3, <2>4
<1>11. ASSUME NEW t \in k.active
       PROVE  /\ rows[t] \subseteq Offered(t) /\ k.rows[t] \subseteq rows[t]
              /\ t \in gone /\ Awaits(k.tasks, t) => Awaits(q, t)
              /\ \A i \in Offered(t) : Due(k.tasks, t, i) => i \in rows[t] \/ Due(q, t, i)
  <2>1. k.rows[t] \subseteq Offered(t)
    BY <1>2 DEF KeepsTrack
  <2>2. rows[t] = IF t \in Asked(w) THEN k.rows[t] \cup Prices(t, FirstTask(w)) ELSE k.rows[t]
    BY <1>4 DEF rows
  <2>3. Awaits(k.tasks, t) => Asks(FirstTask(w), t) \/ Awaits(q, t)
    BY <1>0, <1>4, <1>5, TasksAre DEF q
  <2>4. \A i \in Offered(t) : Due(k.tasks, t, i) => (Asks(FirstTask(w), t) /\ Reaches(FirstTask(w), i)) \/ Due(q, t, i)
    BY <1>0, <1>4, <1>5, TasksAre DEF q
  <2> HIDE DEF k
  <2>5. CASE t \in Asked(w)
    BY <1>10, <2>1, <2>2, <2>3, <2>4, <2>5
  <2>6. CASE t \notin Asked(w)
    BY <1>5, <2>1, <2>2, <2>3, <2>4, <2>6
  <2> QED BY <2>5, <2>6
<1> HIDE DEF k, j
<1>12. KeepsTrack(j, gone, lost)
  BY <1>2, <1>9, <1>11, TrackGoesOn
<1> QED BY <1>0, <1>1, <1>3, <1>9, <1>12 DEF k

LEMMA HalveStep ==
  ASSUME WorkersOK, NEW w \in 1..Workers, Halve(w)
  PROVE  \E u \in Units : worker[w] \in Jobs(u) /\ \E j \in Jobs(u) :
           worker' = [worker EXCEPT ![w] = j] /\ KeepsTrack(j, gone, lost')
<1> DEFINE task == FirstTask(w)
           mid == task.from + (task.to - task.from) \div 2
           a == [task EXCEPT !.to = mid]
           b == [task EXCEPT !.from = mid]
<1>0. worker[w].active # {} /\ worker[w].tasks # <<>> /\ TooLong(w) /\ lost' = lost
      /\ GoesOn(w, Halves(FirstTask(w)))
  BY DEF Halve, Sends
<1>1. task \in Tasks
  BY <1>0, SenderIs, AskedIs
<1> HIDE DEF task
<1>2. task.from \in Nat /\ task.to \in Nat /\ task.to > task.from
  BY <1>0, <1>1, FetchConstants DEF Tasks, TooLong, task
<1>3. mid \in Nat
  <2>1. task.to - task.from \in Nat
    BY <1>2
  <2>2. \A n \in Nat : n \div 2 \in Nat
    OBVIOUS
  <2> QED BY <1>2, <2>1, <2>2
<1> HIDE DEF mid
<1>4. /\ a \in Tasks /\ a.kind = task.kind /\ a.token = task.token /\ a.from = task.from /\ a.to = mid
      /\ b \in Tasks /\ b.kind = task.kind /\ b.token = task.token /\ b.from = mid /\ b.to = task.to
  BY <1>1, <1>3 DEF Tasks
<1>5. Halves(task) = <<a, b>>
  BY DEF Halves, mid
<1> HIDE DEF a, b
<1> DEFINE p == <<a, b>>
<1>6. p \in Seq(Tasks) /\ 1 \in DOMAIN p /\ 2 \in DOMAIN p /\ p[1] = a /\ p[2] = b
  BY <1>4
<1> HIDE DEF p
<1>7. \A t : Asks(task, t) => Awaits(p, t) /\ \A i \in Nat : Reaches(task, i) => Due(p, t, i)
  <2> TAKE t
  <2> HAVE Asks(task, t)
  <2>1. Asks(a, t) /\ Asks(b, t)
    BY <1>4 DEF Asks
  <2>2. \A i \in Nat : Reaches(task, i) => Reaches(a, i) \/ Reaches(b, i)
    BY <1>3, <1>4 DEF Reaches
  <2>3. Awaits(p, t)
    BY <1>6, <2>1 DEF Awaits
  <2>4. \A i \in Nat : Reaches(task, i) => Due(p, t, i)
    BY <1>6, <2>1, <2>2 DEF Due
  <2> QED BY <2>3, <2>4
<1>8. GoesOn(w, p)
  BY <1>0, <1>5 DEF p, task
<1> QED BY <1>0, <1>6, <1>7, <1>8, GoingOn DEF task

LEMMA IsolateStep ==
  ASSUME WorkersOK, NEW w \in 1..Workers, Isolate(w)
  PROVE  \E u \in Units : worker[w] \in Jobs(u) /\ \E j \in Jobs(u) :
           worker' = [worker EXCEPT ![w] = j] /\ KeepsTrack(j, gone, lost')
<1> DEFINE task == FirstTask(w)
           S == worker[w].active
           n == Cardinality(S)
           ts == Ascending(S)
           p == [k \in 1..n |-> Task("minute", ts[k], task.from, task.to)]
<1>0. S # {} /\ worker[w].tasks # <<>> /\ lost' = lost /\ GoesOn(w, OneByOne(w))
  BY DEF Isolate, Sends
<1>1. PICK u \in Units : worker[w] \in Jobs(u)
  BY <1>0, SenderIs
<1>2. S \in SUBSET u /\ u \in SUBSET Tokens /\ IsFiniteSet(u)
  BY <1>1, JobsAre, UnitsAre
<1>3. S \in SUBSET Nat /\ IsFiniteSet(S)
  BY <1>2, FetchConstants, FS_Subset
<1>4. n \in Nat /\ ts \in [1..n -> S] /\ \A t \in S : \E k \in 1..n : ts[k] = t
  BY <1>3, AscendingIs
<1>5. task \in Tasks
  BY <1>0, <1>1, AskedIs
<1>6. OneByOne(w) = p
  BY <1>4 DEF OneByOne
<1> HIDE DEF ts, n, S, task
<1>7. \A k \in 1..n : p[k] = [kind |-> "minute", token |-> ts[k], from |-> task.from, to |-> task.to] /\ p[k] \in Tasks
  <2>1. \A t \in S : [kind |-> "minute", token |-> t, from |-> task.from, to |-> task.to] \in Tasks
    BY <1>2, <1>5 DEF Tasks
  <2> QED BY <1>4, <2>1 DEF Task
<1>8. p \in Seq(Tasks) /\ DOMAIN p = 1..n
  <2>1. p \in [1..n -> Tasks]
    BY <1>7
  <2> HIDE DEF p
  <2> QED BY <1>4, <2>1
<1> HIDE DEF p
<1>9. \A t \in S : Awaits(p, t) /\ \A i \in Nat : Reaches(task, i) => Due(p, t, i)
  <2> TAKE t \in S
  <2>1. PICK k \in 1..n : ts[k] = t
    BY <1>4
  <2>2. k \in DOMAIN p /\ p[k] = [kind |-> "minute", token |-> t, from |-> task.from, to |-> task.to]
    BY <1>7, <1>8, <2>1
  <2>3. Asks(p[k], t) /\ \A i : Reaches(task, i) => Reaches(p[k], i)
    BY <2>2 DEF Asks, Reaches
  <2> QED BY <2>2, <2>3 DEF Awaits, Due
<1>10. GoesOn(w, p)
  BY <1>0, <1>6
<1> QED BY <1>0, <1>8, <1>9, <1>10, GoingOn DEF task, S

LEMMA DropFidelityStep ==
  ASSUME WorkersOK, NEW w \in 1..Workers, DropFidelity(w)
  PROVE  \E u \in Units : worker[w] \in Jobs(u) /\ \E j \in Jobs(u) :
           worker' = [worker EXCEPT ![w] = j] /\ KeepsTrack(j, gone, lost')
<1> DEFINE task == FirstTask(w)
           a == [task EXCEPT !.kind = "coarse"]
<1>0. /\ worker[w].active # {} /\ worker[w].tasks # <<>> /\ Refused(w) /\ lost' = lost
      /\ task.kind = "minute" /\ task.token \notin gone /\ GoesOn(w, <<a>>)
  BY DEF DropFidelity, Sends
<1>1. task \in Tasks
  BY <1>0, SenderIs, AskedIs
<1>2. task.token \in Coarse
  BY <1>0 DEF Refused, Asked, IsBatch
<1> HIDE DEF task
<1>3. a \in Tasks /\ a.token = task.token /\ a.from = task.from /\ a.to = task.to
  BY <1>1, <1>2 DEF Tasks
<1> HIDE DEF a
<1>4. \A t : Asks(task, t) => Asks(a, t) /\ \A i : Reaches(task, i) => Reaches(a, i)
  BY <1>0, <1>3 DEF Asks, Reaches
<1>5. \A t : Asks(task, t) => Awaits(<<a>>, t) /\ \A i \in Nat : Reaches(task, i) => Due(<<a>>, t, i)
  BY <1>3, <1>4, OneTask
<1>6. <<a>> \in Seq(Tasks)
  BY <1>3
<1> QED BY <1>0, <1>5, <1>6, GoingOn DEF task

LEMMA DropStep ==
  ASSUME WorkersOK, NEW w \in 1..Workers, worker[w].active # {}, worker[w].tasks # <<>>,
         Drop(w, Asked(w)), lost \subseteq lost', Asked(w) \subseteq gone \cup lost'
  PROVE  \E u \in Units : worker[w] \in Jobs(u) /\ \E j \in Jobs(u) :
           worker' = [worker EXCEPT ![w] = j] /\ KeepsTrack(j, gone, lost')
<1>1. PICK u \in Units : worker[w] \in Jobs(u) /\ KeepsTrack(worker[w], gone, lost)
  BY SenderIs
<1> DEFINE k == worker[w]
           ts == Asked(w)
           rest == Tail(k.tasks)
           q == SubSeq(rest, NextOther(rest, ts), Len(rest))
           j == [k EXCEPT !.active = @ \ ts, !.retry = 0, !.tasks = q]
<1>2. k \in Jobs(u) /\ KeepsTrack(k, gone, lost)
  BY <1>1
<1>3. worker' = [worker EXCEPT ![w] = j]
  BY SenderIs, <1>2 DEF Drop, Jobs
<1>4. k.tasks \in Seq(Tasks) /\ k.active \in SUBSET u /\ k.rows \in [u -> SUBSET Nat] /\ \A t \in u : t \in Tokens
  BY <1>2, JobsAre
<1>5. FirstTask(w) = Head(k.tasks) /\ \A t \in k.active : t \in ts <=> Asks(FirstTask(w), t)
  BY <1>2, AskedIs
<1>6. rest \in Seq(Tasks)
  BY <1>4, TasksAre
<1>7. q \in Seq(Tasks) /\ \A t \in k.active \ ts :
        /\ Awaits(k.tasks, t) => Awaits(q, t)
        /\ \A i \in Nat : Due(k.tasks, t, i) => Due(q, t, i)
  <2>1. q \in Seq(Tasks)
    BY <1>6, RestIs
  <2>2. ASSUME NEW t \in k.active \ ts
        PROVE  Awaits(k.tasks, t) => Awaits(q, t)
    <3>1. Awaits(k.tasks, t) => Awaits(rest, t)
      BY <1>4, <1>5, TasksAre
    <3> QED BY <1>6, <3>1, RestIs
  <2>3. ASSUME NEW t \in k.active \ ts, NEW i \in Nat
        PROVE  Due(k.tasks, t, i) => Due(q, t, i)
    <3>1. Due(k.tasks, t, i) => Due(rest, t, i)
      BY <1>4, <1>5, TasksAre
    <3> QED BY <1>6, <3>1, RestIs
  <2> QED BY <2>1, <2>2, <2>3
<1> HIDE DEF q, ts
<1>8. j \in Jobs(u) /\ j.tasks = q /\ j.to = k.to /\ j.active = k.active \ ts /\ j.rows = k.rows
  BY <1>2, <1>4, <1>7 DEF Jobs
<1>9. \A t \in k.active : Offered(t) \in SUBSET Nat /\ k.rows[t] \subseteq Offered(t)
  BY <1>2, <1>4, FetchConstants DEF Offered, KeepsTrack
<1>10. \A t \in k.active \ j.active : t \in gone \cup lost'
  BY <1>8 DEF ts
<1>11. j.active \subseteq k.active
  BY <1>8
<1>12. \A t \in j.active :
           /\ j.rows[t] \subseteq Offered(t) /\ k.rows[t] \subseteq j.rows[t]
           /\ t \in gone /\ Awaits(k.tasks, t) => Awaits(j.tasks, t)
           /\ \A i \in Offered(t) : Due(k.tasks, t, i) => i \in j.rows[t] \/ Due(j.tasks, t, i)
  BY <1>7, <1>8, <1>9
<1> HIDE DEF k, j
<1>13. KeepsTrack(j, gone, lost')
  <2>1. \A failed : lost \subseteq failed /\ (\A t \in k.active \ j.active : t \in gone \cup failed) => KeepsTrack(j, gone, failed)
    BY <1>2, <1>8, <1>11, <1>12, TrackGoesOn
  <2> QED BY <1>10, <2>1
<1> QED BY <1>1, <1>3, <1>8, <1>13 DEF k

LEMMA PermanentStep ==
  ASSUME WorkersOK, NEW w \in 1..Workers, Permanent(w)
  PROVE  \E u \in Units : worker[w] \in Jobs(u) /\ \E j \in Jobs(u) :
           worker' = [worker EXCEPT ![w] = j] /\ KeepsTrack(j, gone, lost')
<1>1. worker[w].active # {} /\ worker[w].tasks # <<>> /\ lost' = lost /\ Drop(w, Asked(w))
      /\ ~IsBatch(w) /\ FirstTask(w).token \in gone
  BY DEF Permanent, Sends
<1>2. Asked(w) \subseteq gone \cup lost'
  BY <1>1 DEF Asked
<1> QED BY <1>1, <1>2, DropStep

LEMMA TransientStep ==
  ASSUME WorkersOK, NEW w \in 1..Workers, Transient(w)
  PROVE  \E u \in Units : worker[w] \in Jobs(u) /\ \E j \in Jobs(u) :
           worker' = [worker EXCEPT ![w] = j] /\ KeepsTrack(j, gone, lost')
<1>0. worker[w].active # {} /\ worker[w].tasks # <<>>
  BY DEF Transient, Sends
<1>1. CASE worker[w].retry < Retries
  <2>1. PICK u \in Units : worker[w] \in Jobs(u) /\ KeepsTrack(worker[w], gone, lost)
    BY <1>0, SenderIs
  <2> DEFINE k == worker[w]
             j == [k EXCEPT !.retry = @ + 1]
  <2>2. worker' = [worker EXCEPT ![w] = j] /\ lost' = lost
    BY <1>0, <1>1, SenderIs, <2>1 DEF Transient, Jobs
  <2>3. k \in Jobs(u) /\ KeepsTrack(k, gone, lost) /\ k.retry \in Nat
    BY <2>1, JobsAre
  <2>4. /\ j \in Jobs(u) /\ j.tasks = k.tasks /\ j.to = k.to /\ j.active = k.active
        /\ j.rows = k.rows /\ j.unit = k.unit
    BY <2>3 DEF Jobs
  <2> HIDE DEF k, j
  <2>5. KeepsTrack(j, gone, lost)
    BY <2>3, <2>4 DEF KeepsTrack
  <2> QED BY <2>1, <2>2, <2>4, <2>5 DEF k
<1>2. CASE ~(worker[w].retry < Retries)
  <2>1. Drop(w, Asked(w)) /\ lost' = lost \cup Asked(w)
    BY <1>2 DEF Transient
  <2> QED BY <1>0, <2>1, DropStep
<1> QED BY <1>1, <1>2

LEMMA NextChunkStep ==
  ASSUME WorkersOK, NEW w \in 1..Workers, NextChunk(w)
  PROVE  \E u \in Units : worker[w] \in Jobs(u) /\ \E j \in Jobs(u) :
           worker' = [worker EXCEPT ![w] = j] /\ KeepsTrack(j, gone, lost')
<1>1. PICK u \in Units : worker[w] \in Jobs(u) /\ KeepsTrack(worker[w], gone, lost)
  BY SenderIs DEF NextChunk
<1> DEFINE k == worker[w]
           task == ChunkTask(u, k.to)
           j == [k EXCEPT !.tasks = <<task>>, !.to = task.to]
<1>2. k \in Jobs(u) /\ KeepsTrack(k, gone, lost)
  BY <1>1
<1>3. k.unit = u /\ k.tasks = <<>> /\ k.to \in Nat /\ k.to < PaddedTo(Min(u)) /\ k.active \in SUBSET u
  BY <1>2, JobsAre DEF NextChunk
<1>4. worker' = [worker EXCEPT ![w] = j] /\ lost' = lost
  BY <1>2, <1>3, SenderIs DEF NextChunk, Jobs
<1>5. task \in Tasks /\ task.from = k.to /\ task.to \in Nat /\ \A t \in u : Asks(task, t)
  <2>1. task \in Tasks /\ task.from = k.to /\ \A t \in u : Asks(task, t)
    BY <1>3, FirstTaskIs
  <2> HIDE DEF task
  <2> QED BY <2>1 DEF Tasks
<1> HIDE DEF task
<1>6. <<task>> \in Seq(Tasks)
  BY <1>5
<1>7. j \in Jobs(u) /\ j.tasks = <<task>> /\ j.to = task.to /\ j.active = k.active /\ j.rows = k.rows /\ j.unit = k.unit
  BY <1>2, <1>5, <1>6 DEF Jobs
<1>8. \A t \in k.active : Awaits(<<task>>, t) /\ \A i \in Nat : k.to <= i /\ i <= task.to => Due(<<task>>, t, i)
  BY <1>3, <1>5, OneTask DEF Reaches
<1>9. \A t \in k.active : t \in Tokens /\ Offered(t) \in SUBSET Nat
  <2>1. \A t \in u : t \in Tokens
    BY UnitsAre
  <2>2. \A t \in Tokens : Offered(t) \in SUBSET Nat
    BY FetchConstants DEF Offered
  <2> QED BY <1>3, <2>1, <2>2
<1>10. \A t \in k.active : PaddedFrom(t) \in Nat
  BY <1>9, PaddedIs
<1>11. \A t, i : ~Due(k.tasks, t, i)
  BY <1>3 DEF Due
<1> HIDE DEF k, j
<1>12. \A t \in k.active : \A i \in Offered(t) :
         PaddedFrom(t) <= i /\ i <= task.to => (i \in k.rows[t] \/ Due(<<task>>, t, i))
  <2> TAKE t \in k.active
  <2> TAKE i \in Offered(t)
  <2> HAVE PaddedFrom(t) <= i /\ i <= task.to
  <2>1. i \in Nat
    BY <1>9
  <2>2. CASE i <= k.to
    BY <1>2, <1>11, <2>2 DEF KeepsTrack
  <2>3. CASE ~(i <= k.to)
    BY <1>3, <1>8, <2>1, <2>3
  <2> QED BY <2>2, <2>3
<1>13. KeepsTrack(j, gone, lost)
  BY <1>2, <1>7, <1>8, <1>12 DEF KeepsTrack
<1> QED BY <1>1, <1>4, <1>7, <1>13 DEF k

-----------------------------------------------------------------------------
(* Units from the queue to the results *)

LEMMA TrackLasts ==
  ASSUME NEW k, NEW away, NEW failed, KeepsTrack(k, away, failed), NEW more, failed \subseteq more
  PROVE  KeepsTrack(k, away, more)
BY DEF KeepsTrack

LEMMA TruthLasts ==
  ASSUME NEW t, NEW status, NEW away, NEW failed, TrueStatus(t, status, away, failed), NEW more, failed \subseteq more
  PROVE  TrueStatus(t, status, away, more)
BY DEF TrueStatus

LEMMA RunningIs ==
  ASSUME NEW wk, DOMAIN wk = 1..Workers, \A w \in 1..Workers : wk[w] # NoWork => \E u \in Units : wk[w] \in Jobs(u)
  PROVE  \A u : u \in {wk[w].unit : w \in DOMAIN wk} \ {{}} <=>
           \E w \in 1..Workers : wk[w] # NoWork /\ wk[w].unit = u
<1>1. \A w \in 1..Workers : wk[w] # NoWork => wk[w].unit # {}
  <2> TAKE w \in 1..Workers
  <2> HAVE wk[w] # NoWork
  <2>1. PICK u \in Units : wk[w] \in Jobs(u)
    OBVIOUS
  <2> QED BY <2>1, JobsAre
<1>2. NoWork.unit = {}
  BY DEF NoWork
<1> QED BY <1>1, <1>2

(* A step of a worker at its unit. *)
LEMMA JobStep ==
  ASSUME FetchInv, NEW w \in 1..Workers, NEW u \in Units, worker[w] \in Jobs(u), NEW j \in Jobs(u),
         worker' = [worker EXCEPT ![w] = j], lost \subseteq lost', KeepsTrack(j, gone, lost'),
         UNCHANGED <<gone, main, queue, finished, idle, outcome>>
  PROVE  FetchInv' /\ Inflight' = Inflight
<1>1. MainOK /\ WorkersOK /\ UnitsApart /\ NoUnitForgotten /\ ResultsAreTrue
  BY DEF FetchInv
<1>2. j # NoWork /\ j.unit = u /\ worker[w] # NoWork /\ worker[w].unit = u
  BY JobsAre
<1>3. /\ DOMAIN worker = 1..Workers /\ DOMAIN worker' = 1..Workers /\ worker'[w] = j
      /\ \A v \in 1..Workers : v # w => worker'[v] = worker[v]
      /\ worker' = [v \in 1..Workers |-> worker'[v]]
  BY <1>1 DEF WorkersOK
<1>4. \A v \in 1..Workers : worker'[v].unit = worker[v].unit /\ (worker'[v] = NoWork <=> worker[v] = NoWork)
  BY <1>2, <1>3
<1>5. WorkersOK'
  <2>1. ASSUME NEW v \in 1..Workers, worker'[v] # NoWork
        PROVE  (\E x \in Units : worker'[v] \in Jobs(x)) /\ KeepsTrack(worker'[v], gone, lost')
    <3>1. CASE v = w
      BY <1>3, <3>1
    <3>2. CASE v # w
      <4>1. (\E x \in Units : worker[v] \in Jobs(x)) /\ KeepsTrack(worker[v], gone, lost)
        BY <1>1, <1>3, <2>1, <3>2 DEF WorkersOK
      <4>2. KeepsTrack(worker[v], gone, lost')
        BY <4>1, TrackLasts
      <4> QED BY <1>3, <3>2, <4>1, <4>2
    <3> QED BY <3>1, <3>2
  <2>2. gone' = gone
    OBVIOUS
  <2>3. \A v \in 1..Workers : KeepsTrack(worker'[v], gone, lost') => KeepsTrack(worker[v], gone, lost)'
    BY <2>2 DEF KeepsTrack
  <2> QED BY <1>3, <2>1, <2>3 DEF WorkersOK
<1>6. Running' = Running
  <2>1. {worker'[v].unit : v \in DOMAIN worker'} = {worker[v].unit : v \in DOMAIN worker}
    BY <1>3, <1>4
  <2> QED BY <2>1 DEF Running
<1>7. Inflight' = Inflight /\ Unsubmitted' = Unsubmitted
  BY <1>6 DEF Inflight, Unsubmitted, Consumed, outcome
<1>8. UnitsApart'
  BY <1>1, <1>4, <1>7 DEF UnitsApart, outcome
<1>9. NoUnitForgotten'
  BY <1>1, <1>7 DEF NoUnitForgotten, outcome
<1>10. ResultsAreTrue'
  <2>1. \A t, status : TrueStatus(t, status, gone, lost) => TrueStatus(t, status, gone', lost')
    BY TruthLasts
  <2>2. /\ finished' = finished /\ results' = results /\ cache' = cache /\ main' = main
        /\ published' = published /\ gone' = gone
    BY DEF outcome
  <2> QED BY <1>1, <2>1, <2>2 DEF ResultsAreTrue
<1>11. MainOK'
  BY <1>1 DEF MainOK
<1> QED BY <1>5, <1>7, <1>8, <1>9, <1>10, <1>11 DEF FetchInv

LEMMA TakeUnitStep ==
  ASSUME FetchInv, NEW w \in 1..Workers, TakeUnit(w)
  PROVE  FetchInv' /\ Inflight' = Inflight
<1> DEFINE u == First(queue)
<1>1. MainOK /\ WorkersOK /\ UnitsApart /\ NoUnitForgotten /\ ResultsAreTrue
  BY DEF FetchInv
<1>2. /\ worker[w] = NoWork /\ queue # {} /\ worker' = [worker EXCEPT ![w] = WorkOn(u)] /\ queue' = queue \ {u}
      /\ gone' = gone /\ main' = main /\ finished' = finished /\ idle' = idle /\ lost' = lost
      /\ results' = results /\ cache' = cache /\ published' = published
  BY DEF TakeUnit, outcome
<1>3. queue \in SUBSET Units
  BY <1>1 DEF UnitsApart, Inflight
<1>4. u \in queue /\ u \in Units
  BY <1>2, <1>3, FirstIs
<1> HIDE DEF u
<1>5. WorkOn(u) \in Jobs(u) /\ KeepsTrack(WorkOn(u), gone, lost)
  BY <1>4, TakenIsTracked
<1>6. WorkOn(u) # NoWork /\ WorkOn(u).unit = u
  BY <1>4, <1>5, JobsAre
<1>7. /\ DOMAIN worker = 1..Workers /\ DOMAIN worker' = 1..Workers /\ worker'[w] = WorkOn(u)
      /\ \A v \in 1..Workers : v # w => worker'[v] = worker[v]
      /\ worker' = [v \in 1..Workers |-> worker'[v]]
  BY <1>1, <1>2 DEF WorkersOK
<1>8. WorkersOK'
  <2>1. \A v \in 1..Workers : worker'[v] # NoWork =>
          (\E x \in Units : worker'[v] \in Jobs(x)) /\ KeepsTrack(worker'[v], gone, lost)
    BY <1>1, <1>4, <1>5, <1>7 DEF WorkersOK
  <2>2. \A v \in 1..Workers : KeepsTrack(worker'[v], gone, lost) => KeepsTrack(worker[v], gone, lost)'
    BY <1>2 DEF KeepsTrack
  <2> QED BY <1>7, <2>1, <2>2 DEF WorkersOK
<1>9. \A x : x \in Running <=> \E v \in 1..Workers : worker[v] # NoWork /\ worker[v].unit = x
  BY <1>1, <1>7, RunningIs DEF Running, WorkersOK
<1>10. \A x : x \in Running' <=> \E v \in 1..Workers : worker'[v] # NoWork /\ worker'[v].unit = x
  <2>1. \A v \in 1..Workers : worker'[v] # NoWork => \E x \in Units : worker'[v] \in Jobs(x)
    BY <1>8 DEF WorkersOK
  <2>2. \A x : x \in {worker'[v].unit : v \in DOMAIN worker'} \ {{}} <=>
          \E v \in 1..Workers : worker'[v] # NoWork /\ worker'[v].unit = x
    BY <1>7, <2>1, RunningIs
  <2> QED BY <2>2 DEF Running
<1>11. Running' = Running \cup {u}
  <2>1. \A x : x \in Running' <=> x \in Running \/ x = u
    BY <1>2, <1>6, <1>7, <1>9, <1>10
  <2> QED BY <2>1
<1>12. Inflight' = Inflight
  BY <1>2, <1>4, <1>11 DEF Inflight
<1>13. Unsubmitted' = Unsubmitted
  BY <1>2, <1>12 DEF Unsubmitted, Consumed
<1>14. UnitsApart'
  <2>1. Inflight' \subseteq Units /\ queue' \cap DOMAIN finished' = {}
    BY <1>1, <1>2, <1>12 DEF UnitsApart
  <2>2. \A v \in 1..Workers : worker'[v] # NoWork => worker'[v].unit \notin queue' \cup DOMAIN finished'
    <3>1. u \notin queue' \cup DOMAIN finished'
      BY <1>1, <1>2, <1>4 DEF UnitsApart
    <3>2. \A v \in 1..Workers : worker[v] # NoWork => worker[v].unit \notin queue \cup DOMAIN finished
      BY <1>1 DEF UnitsApart
    <3> QED BY <1>2, <1>6, <1>7, <3>1, <3>2
  <2>3. \A v, x \in 1..Workers : worker'[x] # NoWork /\ v # x => worker'[v].unit # worker'[x].unit
    <3>1. \A v \in 1..Workers : worker[v].unit # u
      <4>1. NoWork.unit = {} /\ u # {}
        BY <1>4, <1>5, JobsAre DEF NoWork
      <4>2. \A v \in 1..Workers : worker[v] # NoWork => worker[v].unit \notin queue
        BY <1>1 DEF UnitsApart
      <4> QED BY <1>4, <4>1, <4>2
    <3>2. \A v, x \in 1..Workers : worker[x] # NoWork /\ v # x => worker[v].unit # worker[x].unit
      BY <1>1 DEF UnitsApart
    <3> QED BY <1>6, <1>7, <3>1, <3>2
  <2>4. /\ \A t \in DOMAIN results' : t \in Tokens /\ Unit(t) \subseteq DOMAIN results'
        /\ \A x \in Inflight' : x \cap DOMAIN results' = {}
    BY <1>1, <1>2, <1>12 DEF UnitsApart
  <2> QED BY <2>1, <2>2, <2>3, <2>4 DEF UnitsApart
<1>15. NoUnitForgotten'
  BY <1>1, <1>2, <1>12, <1>13 DEF NoUnitForgotten
<1>16. ResultsAreTrue'
  BY <1>1, <1>2 DEF ResultsAreTrue
<1>17. MainOK'
  BY <1>1, <1>2 DEF MainOK
<1> QED BY <1>8, <1>12, <1>14, <1>15, <1>16, <1>17 DEF FetchInv

(* What a worker hands over is the truth. *)
LEMMA ResultIsTrue ==
  ASSUME WorkersOK, NEW w \in 1..Workers, Finish(w), NEW u \in Units, worker[w] \in Jobs(u), NEW t \in u
  PROVE  /\ TrueStatus(t, Result(w, t).status, gone, lost)
         /\ Result(w, t).rows = IF Result(w, t).status = "error" THEN {} ELSE Available(t)
<1> DEFINE k == worker[w]
           rows == InWindow(t, k.rows[t])
<1>1. k.unit = u /\ k # NoWork /\ k.active \in SUBSET u /\ k.rows \in [u -> SUBSET Nat]
      /\ t \in Tokens /\ PaddedFrom(t) = PaddedFrom(Min(u)) /\ k.tasks \in Seq(Tasks) /\ k.to \in Nat
  BY JobsAre
<1>2. KeepsTrack(k, gone, lost)
  BY <1>1 DEF WorkersOK
<1>3. CASE t \notin k.active
  <2>1. Result(w, t) = [status |-> "error", rows |-> {}]
    BY <1>3 DEF Result
  <2>2. t \in gone \cup lost
    BY <1>1, <1>2, <1>3 DEF KeepsTrack
  <2> QED BY <2>1, <2>2 DEF TrueStatus
<1>4. CASE t \in k.active
  <2>1. k.tasks = <<>> /\ k.to = PaddedTo(Min(u))
    BY <1>1, <1>4 DEF Finish
  <2>2. \A i : ~Due(k.tasks, t, i) /\ ~Awaits(k.tasks, t)
    BY <2>1 DEF Due, Awaits
  <2>3. t \notin gone /\ k.rows[t] \subseteq Offered(t)
        /\ \A i \in Offered(t) : PaddedFrom(t) <= i /\ i <= k.to => i \in k.rows[t]
    BY <1>2, <1>4, <2>2 DEF KeepsTrack
  <2>4. Offered(t) \in SUBSET Nat /\ Available(t) = InWindow(t, Offered(t))
    BY <1>1, FetchConstants DEF Available, Offered
  <2>5. /\ PaddedFrom(t) \in Nat /\ PaddedTo(t) \in Nat /\ Window[t].from \in Nat /\ Window[t].to \in Nat
        /\ PaddedFrom(t) <= Window[t].from /\ Window[t].to <= PaddedTo(t)
    BY <1>1, PaddedIs, FetchConstants
  <2>6. PaddedTo(t) = PaddedTo(Min(u))
    BY UnitsAre
  <2> HIDE DEF k
  <2>7. rows = Available(t)
    <3>1. \A i \in rows : i \in Available(t)
      BY <2>3, <2>4 DEF InWindow
    <3>2. \A i \in Available(t) : i \in rows
      <4> TAKE i \in Available(t)
      <4>1. i \in Offered(t) /\ Window[t].from <= i /\ i <= Window[t].to /\ i \in Nat
        BY <2>4 DEF InWindow
      <4>2. PaddedFrom(t) <= i /\ i <= k.to
        BY <2>1, <2>5, <2>6, <4>1
      <4> QED BY <2>3, <4>1, <4>2 DEF InWindow
    <3> QED BY <3>1, <3>2
  <2>8. Result(w, t) = [status |-> IF rows = {} THEN "empty" ELSE "success", rows |-> rows]
    BY <1>4 DEF Result, k
  <2> QED BY <2>3, <2>7, <2>8 DEF TrueStatus
<1> QED BY <1>3, <1>4

LEMMA FinishStep ==
  ASSUME FetchInv, NEW w \in 1..Workers, Finish(w)
  PROVE  FetchInv' /\ Inflight' = Inflight
<1>1. MainOK /\ WorkersOK /\ UnitsApart /\ NoUnitForgotten /\ ResultsAreTrue
  BY DEF FetchInv
<1>2. worker[w] # NoWork
  BY DEF Finish
<1>3. PICK u \in Units : worker[w] \in Jobs(u)
  BY <1>1, <1>2 DEF WorkersOK
<1>4. worker[w].unit = u /\ u # {} /\ NoWork.unit = {}
  BY <1>3, JobsAre DEF NoWork
<1>5. /\ finished' = [v \in DOMAIN finished \cup {u} |-> IF v = u THEN [t \in u |-> Result(w, t)] ELSE finished[v]]
      /\ worker' = [worker EXCEPT ![w] = NoWork]
      /\ gone' = gone /\ main' = main /\ queue' = queue /\ idle' = idle /\ lost' = lost
      /\ results' = results /\ cache' = cache /\ published' = published
  BY <1>4 DEF Finish, outcome
<1>6. /\ DOMAIN worker = 1..Workers /\ DOMAIN worker' = 1..Workers /\ worker'[w] = NoWork
      /\ \A v \in 1..Workers : v # w => worker'[v] = worker[v]
      /\ worker' = [v \in 1..Workers |-> worker'[v]]
  BY <1>1, <1>5 DEF WorkersOK
<1>7. WorkersOK'
  <2>1. \A v \in 1..Workers : worker'[v] # NoWork =>
          (\E x \in Units : worker'[v] \in Jobs(x)) /\ KeepsTrack(worker'[v], gone, lost)
    BY <1>1, <1>6 DEF WorkersOK
  <2>2. \A v \in 1..Workers : KeepsTrack(worker'[v], gone, lost) => KeepsTrack(worker[v], gone, lost)'
    BY <1>5 DEF KeepsTrack
  <2> QED BY <1>6, <2>1, <2>2 DEF WorkersOK
<1>8. \A x : x \in Running <=> \E v \in 1..Workers : worker[v] # NoWork /\ worker[v].unit = x
  BY <1>1, <1>6, RunningIs DEF Running, WorkersOK
<1>9. \A x : x \in Running' <=> \E v \in 1..Workers : worker'[v] # NoWork /\ worker'[v].unit = x
  <2>1. \A v \in 1..Workers : worker'[v] # NoWork => \E x \in Units : worker'[v] \in Jobs(x)
    BY <1>7 DEF WorkersOK
  <2>2. \A x : x \in {worker'[v].unit : v \in DOMAIN worker'} \ {{}} <=>
          \E v \in 1..Workers : worker'[v] # NoWork /\ worker'[v].unit = x
    BY <1>6, <2>1, RunningIs
  <2> QED BY <2>2 DEF Running
<1>10. \A v \in 1..Workers : v # w => worker[v].unit # u
  BY <1>1, <1>2, <1>4 DEF UnitsApart
<1>11. Running = Running' \cup {u}
  <2>1. \A x : x \in Running <=> x \in Running' \/ x = u
    BY <1>2, <1>4, <1>6, <1>8, <1>9
  <2> QED BY <2>1
<1>12. DOMAIN finished' = DOMAIN finished \cup {u}
  BY <1>5
<1>13. Inflight' = Inflight
  BY <1>5, <1>11, <1>12 DEF Inflight
<1>14. Unsubmitted' = Unsubmitted
  BY <1>5, <1>13 DEF Unsubmitted, Consumed
<1>15. UnitsApart'
  <2>0. u \notin queue /\ u \notin DOMAIN finished
    BY <1>1, <1>2, <1>4 DEF UnitsApart
  <2>1. Inflight' \subseteq Units /\ queue' \cap DOMAIN finished' = {}
    BY <1>1, <1>5, <1>12, <1>13, <2>0 DEF UnitsApart
  <2>2. \A v \in 1..Workers : worker'[v] # NoWork => worker'[v].unit \notin queue' \cup DOMAIN finished'
    BY <1>1, <1>5, <1>6, <1>10, <1>12 DEF UnitsApart
  <2>3. \A v, x \in 1..Workers : worker'[x] # NoWork /\ v # x => worker'[v].unit # worker'[x].unit
    <3> TAKE v, x \in 1..Workers
    <3> HAVE worker'[x] # NoWork /\ v # x
    <3>1. x # w /\ worker'[x] = worker[x] /\ worker[x].unit # {}
      <4>1. x # w /\ worker'[x] = worker[x]
        BY <1>6
      <4>2. PICK y \in Units : worker[x] \in Jobs(y)
        BY <1>1, <4>1 DEF WorkersOK
      <4> QED BY <4>1, <4>2, JobsAre
    <3>2. CASE v = w
      BY <1>4, <1>6, <3>1, <3>2
    <3>3. CASE v # w
      BY <1>1, <1>6, <3>1, <3>3 DEF UnitsApart
    <3> QED BY <3>2, <3>3
  <2>4. /\ \A t \in DOMAIN results' : t \in Tokens /\ Unit(t) \subseteq DOMAIN results'
        /\ \A x \in Inflight' : x \cap DOMAIN results' = {}
    BY <1>1, <1>5, <1>13 DEF UnitsApart
  <2> QED BY <2>1, <2>2, <2>3, <2>4 DEF UnitsApart
<1>16. NoUnitForgotten'
  BY <1>1, <1>5, <1>13, <1>14 DEF NoUnitForgotten
<1>17. ResultsAreTrue'
  <2>1. \A t \in u : /\ TrueStatus(t, Result(w, t).status, gone, lost)
                     /\ Result(w, t).rows = IF Result(w, t).status = "error" THEN {} ELSE Available(t)
    BY <1>1, <1>3, ResultIsTrue
  <2>2. \A v \in DOMAIN finished' : \A t \in v :
          /\ TrueStatus(t, finished'[v][t].status, gone, lost)
          /\ finished'[v][t].rows = IF finished'[v][t].status = "error" THEN {} ELSE Available(t)
    <3> TAKE v \in DOMAIN finished'
    <3> TAKE t \in v
    <3>1. CASE v = u
      <4>1. finished'[v][t] = Result(w, t)
        BY <1>5, <3>1
      <4> QED BY <2>1, <3>1, <4>1
    <3>2. CASE v # u
      <4>1. v \in DOMAIN finished /\ finished'[v] = finished[v]
        BY <1>5, <1>12, <3>2
      <4> QED BY <1>1, <4>1 DEF ResultsAreTrue
    <3> QED BY <3>1, <3>2
  <2> QED BY <1>1, <1>5, <2>2 DEF ResultsAreTrue
<1>18. MainOK'
  BY <1>1, <1>5, <1>12 DEF MainOK
<1> QED BY <1>7, <1>13, <1>15, <1>16, <1>17, <1>18 DEF FetchInv

-----------------------------------------------------------------------------
(* The main thread *)

LEMMA NothingCached == <<>> = [t \in {} |-> Available(t)] /\ DOMAIN <<>> = {}
OBVIOUS

(* A run that fails forgets what is queued and what is cached. *)
LEMMA FailsStep ==
  ASSUME FetchInv, Fails, idle' \in 0..HardTimeout,
         gone' = gone, lost' = lost, results' = results, published' = published
  PROVE  FetchInv' /\ Inflight' \subseteq Inflight
<1>1. MainOK /\ WorkersOK /\ UnitsApart /\ NoUnitForgotten /\ ResultsAreTrue
  BY DEF FetchInv
<1>2. /\ main' = [pc |-> "failed", done |-> {}] /\ queue' = {} /\ cache' = <<>>
      /\ worker' = worker /\ finished' = finished
  BY DEF Fails, Goes
<1>3. main'.pc = "failed" /\ main'.done = {}
  BY <1>2
<1>4. Running' = Running /\ Inflight' \subseteq Inflight
  BY <1>2 DEF Running, Inflight
<1>5. WorkersOK'
  BY <1>1, <1>2 DEF WorkersOK, KeepsTrack
<1>6. UnitsApart'
  BY <1>1, <1>2, <1>4 DEF UnitsApart
<1>7. NoUnitForgotten'
  BY <1>3 DEF NoUnitForgotten
<1>8. ResultsAreTrue'
  <2>1. cache' = [t \in DOMAIN cache' |-> Available(t)]
    BY <1>2, NothingCached
  <2> QED BY <1>1, <1>2, <1>3, <2>1 DEF ResultsAreTrue, Ended
<1>9. MainOK'
  BY <1>1, <1>2, <1>3 DEF MainOK, Ended
<1> QED BY <1>4, <1>5, <1>6, <1>7, <1>8, <1>9 DEF FetchInv

(* Steps of the main thread, and of the clock, that leave the pool alone.  *)
LEMMA QuietStep ==
  ASSUME FetchInv, main' = [pc |-> main'.pc, done |-> main'.done], main'.done \subseteq DOMAIN finished,
         main'.pc \in Ended \cup {"wait", "take", "audit", "publish"}, idle' \in 0..HardTimeout,
         gone' = gone, pool' = pool, lost' = lost, results' = results,
         NoUnitForgotten', cache' = [t \in DOMAIN cache' |-> Available(t)],
         main'.pc \notin Ended => DOMAIN cache' = {t \in DOMAIN results : results[t] = "success"},
         main'.pc = "publish" => \A t \in DOMAIN results : results[t] # "error",
         main'.pc = "published" =>
           published' = [t \in {s \in Tokens : Available(s) # {} /\ s \notin gone} |-> Available(t)]
  PROVE  FetchInv' /\ Inflight' = Inflight
<1>1. MainOK /\ WorkersOK /\ UnitsApart /\ NoUnitForgotten /\ ResultsAreTrue
  BY DEF FetchInv
<1>2. queue' = queue /\ worker' = worker /\ finished' = finished
  BY DEF pool
<1>3. Running' = Running /\ Inflight' = Inflight
  BY <1>2 DEF Running, Inflight
<1>4. WorkersOK'
  BY <1>1, <1>2 DEF WorkersOK, KeepsTrack
<1>5. UnitsApart'
  BY <1>1, <1>2, <1>3 DEF UnitsApart
<1>6. ResultsAreTrue'
  BY <1>1, <1>2 DEF ResultsAreTrue
<1>7. MainOK'
  BY <1>1, <1>2 DEF MainOK
<1> QED BY <1>3, <1>4, <1>5, <1>6, <1>7 DEF FetchInv

LEMMA PollStep ==
  ASSUME FetchInv, Poll
  PROVE  FetchInv' /\ Inflight' \subseteq Inflight
<1>0. MainOK /\ NoUnitForgotten /\ ResultsAreTrue /\ HardTimeout \in Nat
  BY FetchConstants DEF FetchInv
<1>1. /\ main.pc = "wait" /\ idle' = IdleAfter(DOMAIN finished) /\ gone' = gone /\ results' = results
      /\ published' = published /\ lost' = lost
  BY DEF Poll
<1>2. idle' \in 0..HardTimeout
  BY <1>0, <1>1 DEF IdleAfter, MainOK
<1>3. CASE DOMAIN finished = {} /\ IdleAfter(DOMAIN finished) = HardTimeout
  <2>1. Fails
    BY <1>3 DEF Poll
  <2> QED BY <1>1, <1>2, <2>1, FailsStep
<1>4. CASE ~(DOMAIN finished = {} /\ IdleAfter(DOMAIN finished) = HardTimeout)
  <2>1. /\ main' = IF DOMAIN finished = {} THEN main ELSE [pc |-> "take", done |-> DOMAIN finished]
        /\ pool' = pool /\ cache' = cache
    BY <1>4 DEF Poll
  <2>2. main' = [pc |-> main'.pc, done |-> main'.done] /\ main'.pc \in {"wait", "take"} /\ main'.done \subseteq DOMAIN finished
    BY <1>0, <1>1, <2>1 DEF MainOK
  <2>3. queue' = queue /\ worker' = worker /\ finished' = finished
    BY <2>1 DEF pool
  <2>4. Inflight' = Inflight /\ Unsubmitted' = Unsubmitted
    BY <1>1, <2>3 DEF Inflight, Running, Unsubmitted, Consumed
  <2>5. NoUnitForgotten'
    BY <1>0, <1>1, <2>2, <2>4 DEF NoUnitForgotten
  <2>6. cache' = [t \in DOMAIN cache' |-> Available(t)] /\ DOMAIN cache' = {t \in DOMAIN results : results[t] = "success"}
    BY <1>0, <1>1, <2>1 DEF ResultsAreTrue, Ended
  <2> QED BY <1>1, <1>2, <2>1, <2>2, <2>5, <2>6, QuietStep
<1> QED BY <1>3, <1>4

LEMMA SubmitIs ==
  Submit(Unsubmitted) \subseteq Unsubmitted /\ (Submit(Unsubmitted) = {} => Unsubmitted = {})
  /\ \E x : Submit(Unsubmitted) \subseteq {x}
<1>1. Unsubmitted \in SUBSET Units
  BY DEF Unsubmitted
<1>2. Unsubmitted # {} => First(Unsubmitted) \in Unsubmitted
  BY <1>1, FirstIs
<1> QED BY <1>2 DEF Submit

LEMMA TakeStep ==
  ASSUME FetchInv, NEW u \in main.done, Take(u)
  PROVE  /\ FetchInv'
         /\ Inflight' \subseteq Inflight \/ (u \in Inflight /\ Inflight' = (Inflight \ {u}) \cup Submit(Unsubmitted))
<1>1. MainOK /\ WorkersOK /\ UnitsApart /\ NoUnitForgotten /\ ResultsAreTrue
  BY DEF FetchInv
<1>2. /\ main.pc = "take" /\ idle' = idle /\ published' = published /\ lost' = lost /\ gone' = gone
  BY DEF Take
<1>3. idle' \in 0..HardTimeout
  BY <1>1, <1>2 DEF MainOK
<1>4. CASE Fails /\ results' = results
  BY <1>2, <1>3, <1>4, FailsStep
<1>5. CASE ~(Fails /\ results' = results)
  <2> DEFINE good == {t \in u : finished[u][t].rows # {}}
             s == Submit(Unsubmitted)
  <2>1. /\ cache' = [t \in DOMAIN cache \cup good |-> IF t \in u THEN finished[u][t].rows ELSE cache[t]]
        /\ results' = [t \in DOMAIN results \cup u |-> IF t \in u THEN finished[u][t].status ELSE results[t]]
        /\ finished' = [v \in DOMAIN finished \ {u} |-> finished[v]]
        /\ queue' = queue \cup s
        /\ main' = [pc |-> IF main.done = {u} THEN "wait" ELSE "take", done |-> main.done \ {u}]
        /\ worker' = worker
    BY <1>5 DEF Take
  <2>2. s \subseteq Unsubmitted /\ (s = {} => Unsubmitted = {})
    BY SubmitIs
  <2> HIDE DEF s
  <2>3. u \in DOMAIN finished /\ u \in Inflight /\ u \in Units /\ u \notin queue
    BY <1>1 DEF MainOK, Inflight, UnitsApart
  <2>4. Running' = Running /\ u \notin Running
    <3>1. \A x : x \in Running <=> \E v \in 1..Workers : worker[v] # NoWork /\ worker[v].unit = x
      BY <1>1, RunningIs DEF Running, WorkersOK
    <3>2. u \notin Running
      BY <1>1, <2>3, <3>1 DEF UnitsApart
    <3> QED BY <2>1, <3>2 DEF Running
  <2>5. DOMAIN finished' = DOMAIN finished \ {u} /\ DOMAIN results' = DOMAIN results \cup u
        /\ \A v \in DOMAIN finished' : finished'[v] = finished[v]
    BY <2>1
  <2>6. Inflight' = (Inflight \ {u}) \cup s
    BY <2>1, <2>3, <2>4, <2>5 DEF Inflight
  <2>7. s \cap Inflight = {} /\ s \subseteq Units /\ s \cap Consumed = {}
    BY <2>2 DEF Unsubmitted
  <2>8. u \cap DOMAIN results = {} /\ DOMAIN cache \subseteq DOMAIN results
        /\ DOMAIN cache = {t \in DOMAIN results : results[t] = "success"}
    BY <1>1, <1>2, <2>3 DEF UnitsApart, ResultsAreTrue, Ended
  <2>9. main'.pc \in {"wait", "take"} /\ main'.done = main.done \ {u} /\ main' = [pc |-> main'.pc, done |-> main'.done]
    BY <2>1
  <2>10. MainOK'
    BY <1>1, <1>3, <2>5, <2>9 DEF MainOK
  <2>11. WorkersOK'
    BY <1>1, <1>2, <2>1 DEF WorkersOK, KeepsTrack
  <2>12. UnitsApart'
    <3>1. Inflight' \subseteq Units
      BY <1>1, <2>6, <2>7 DEF UnitsApart
    <3>2. queue' \cap DOMAIN finished' = {}
      BY <1>1, <2>1, <2>5, <2>7 DEF UnitsApart, Inflight
    <3>3. \A w \in 1..Workers : worker'[w] # NoWork => worker'[w].unit \notin queue' \cup DOMAIN finished'
      <4> TAKE w \in 1..Workers
      <4> HAVE worker'[w] # NoWork
      <4>1. worker[w].unit \in Running
        BY <1>1, <2>1, RunningIs DEF Running, WorkersOK
      <4>2. worker[w].unit \notin s
        BY <2>7, <4>1 DEF Inflight
      <4>3. worker[w].unit \notin queue \cup DOMAIN finished
        BY <1>1, <2>1 DEF UnitsApart
      <4> QED BY <2>1, <2>5, <4>2, <4>3
    <3>4. \A v, w \in 1..Workers : worker'[w] # NoWork /\ v # w => worker'[v].unit # worker'[w].unit
      BY <1>1, <2>1 DEF UnitsApart
    <3>5. \A t \in DOMAIN results' : t \in Tokens /\ Unit(t) \subseteq DOMAIN results'
      BY <1>1, <2>3, <2>5, UnitsAre DEF UnitsApart
    <3>6. ASSUME NEW v \in Inflight'
          PROVE  v \cap DOMAIN results' = {}
      <4>1. CASE v \in Inflight \ {u}
        <5>1. v \in Units /\ v \cap DOMAIN results = {}
          BY <1>1, <4>1 DEF UnitsApart
        <5>2. v \cap u = {}
          BY <2>3, <4>1, <5>1, UnitsDiffer
        <5> QED BY <2>5, <5>1, <5>2
      <4>2. CASE v \in s
        <5>1. v \in Units /\ v # u /\ v \notin Consumed
          BY <2>3, <2>7, <4>2
        <5>2. v \cap u = {}
          BY <2>3, <5>1, UnitsDiffer
        <5>3. ASSUME NEW t \in v, t \in DOMAIN results
              PROVE  FALSE
          <6>1. Unit(t) = v
            BY <5>1, UnitsAre
          <6>2. v \subseteq DOMAIN results
            BY <1>1, <5>3, <6>1 DEF UnitsApart
          <6> QED BY <5>1, <6>2 DEF Consumed
        <5> QED BY <2>5, <5>2, <5>3
      <4> QED BY <2>6, <4>1, <4>2
    <3> QED BY <3>1, <3>2, <3>3, <3>4, <3>5, <3>6 DEF UnitsApart
  <2>13. NoUnitForgotten'
    <3>1. ASSUME Inflight' = {}
          PROVE  Unsubmitted' = {}
      <4>1. s = {} /\ Inflight \subseteq {u}
        BY <2>6, <3>1
      <4>2. Unsubmitted = {}
        BY <2>2, <4>1
      <4>3. Consumed \cup {u} \subseteq Consumed'
        BY <2>3, <2>5 DEF Consumed
      <4>4. \A v \in Units : v \in Inflight \cup Consumed
        BY <4>2 DEF Unsubmitted
      <4>5. \A v \in Units : v \in Consumed'
        BY <4>1, <4>3, <4>4
      <4> QED BY <4>5 DEF Unsubmitted
    <3> QED BY <2>9, <3>1 DEF NoUnitForgotten
  <2>14. ResultsAreTrue'
    <3>1. \A t \in u : /\ TrueStatus(t, finished[u][t].status, gone, lost)
                       /\ finished[u][t].rows = IF finished[u][t].status = "error" THEN {} ELSE Available(t)
      BY <1>1, <2>3 DEF ResultsAreTrue
    <3>2. \A v \in DOMAIN finished' : \A t \in v :
            /\ TrueStatus(t, finished'[v][t].status, gone, lost)
            /\ finished'[v][t].rows = IF finished'[v][t].status = "error" THEN {} ELSE Available(t)
      <4>1. \A v \in DOMAIN finished' : v \in DOMAIN finished /\ finished'[v] = finished[v]
        BY <2>5
      <4> QED BY <1>1, <4>1 DEF ResultsAreTrue
    <3>3. \A t \in DOMAIN results' : results'[t] = IF t \in u THEN finished[u][t].status ELSE results[t]
      BY <2>1
    <3>4. \A t \in DOMAIN results' : TrueStatus(t, results'[t], gone, lost)
      BY <1>1, <2>5, <3>1, <3>3 DEF ResultsAreTrue
    <3>5. \A t \in u : finished[u][t].rows # {} <=> finished[u][t].status = "success"
      BY <3>1 DEF TrueStatus
    <3>6. \A t \in DOMAIN cache : cache[t] = Available(t) /\ t \notin u
      BY <1>1, <2>8 DEF ResultsAreTrue
    <3>7. \A t \in good : finished[u][t].rows = Available(t)
      BY <3>1
    <3>8. DOMAIN cache' = DOMAIN cache \cup good /\ cache' = [t \in DOMAIN cache \cup good |-> Available(t)]
      BY <2>1, <3>6, <3>7
    <3>9. DOMAIN cache' = {t \in DOMAIN results' : results'[t] = "success"}
      <4>1. \A t : t \in good <=> t \in u /\ finished[u][t].status = "success"
        BY <3>5
      <4> HIDE DEF good
      <4>2. \A t : t \in DOMAIN cache' <=> t \in DOMAIN results' /\ results'[t] = "success"
        BY <2>5, <2>8, <3>3, <3>8, <4>1
      <4> QED BY <4>2
    <3> HIDE DEF good
    <3> QED BY <1>2, <2>9, <3>2, <3>4, <3>8, <3>9 DEF ResultsAreTrue
  <2> QED BY <2>3, <2>6, <2>10, <2>11, <2>12, <2>13, <2>14 DEF FetchInv, s
<1> QED BY <1>4, <1>5

LEMMA EndStep ==
  ASSUME FetchInv, EndOfStream
  PROVE  FetchInv' /\ Inflight' = Inflight
<1>1. MainOK /\ UnitsApart /\ NoUnitForgotten /\ ResultsAreTrue
  BY DEF FetchInv
<1>2. /\ main.pc = "wait" /\ Inflight = {} /\ main' = [pc |-> "audit", done |-> {}] /\ idle' = idle
      /\ gone' = gone /\ pool' = pool /\ lost' = lost /\ results' = results /\ cache' = cache
  BY DEF EndOfStream, Goes, outcome
<1>3. Tokens \subseteq DOMAIN results
  <2>1. Unsubmitted = {}
    BY <1>1, <1>2 DEF NoUnitForgotten
  <2>2. \A v \in Units : v \subseteq DOMAIN results
    BY <1>2, <2>1 DEF Unsubmitted, Consumed
  <2>3. \A t \in Tokens : t \in Unit(t) /\ Unit(t) \in Units
    BY UnitIs DEF Units
  <2> QED BY <2>2, <2>3
<1>4. NoUnitForgotten'
  BY <1>2, <1>3 DEF NoUnitForgotten
<1>5. cache' = [t \in DOMAIN cache' |-> Available(t)] /\ DOMAIN cache' = {t \in DOMAIN results : results[t] = "success"}
  BY <1>1, <1>2 DEF ResultsAreTrue, Ended
<1>6. main'.pc = "audit" /\ main'.done = {}
  BY <1>2
<1>7. idle' \in 0..HardTimeout
  BY <1>1, <1>2 DEF MainOK
<1> QED BY <1>2, <1>4, <1>5, <1>6, <1>7, QuietStep

LEMMA AuditStep ==
  ASSUME FetchInv, Audit
  PROVE  FetchInv' /\ Inflight' = Inflight
<1>1. MainOK /\ NoUnitForgotten /\ ResultsAreTrue
  BY DEF FetchInv
<1>2. main.pc = "audit" /\ idle' = idle /\ gone' = gone /\ pool' = pool /\ lost' = lost /\ results' = results
  BY DEF Audit
<1>3. /\ main' = [pc |-> main'.pc, done |-> {}] /\ main'.pc \in {"publish", "failed", "refused"}
      /\ main'.pc = "failed" => cache' = <<>>
      /\ main'.pc # "failed" => cache' = cache
      /\ main'.pc = "publish" => {results[t] : t \in DOMAIN results} \subseteq Acceptable
  BY DEF Audit, Goes
<1>4. NoUnitForgotten'
  BY <1>1, <1>2, <1>3 DEF NoUnitForgotten
<1>5. cache' = [t \in DOMAIN cache' |-> Available(t)]
  <2>1. CASE main'.pc = "failed"
    BY <1>3, <2>1, NothingCached
  <2>2. CASE main'.pc # "failed"
    BY <1>1, <1>3, <2>2 DEF ResultsAreTrue
  <2> QED BY <2>1, <2>2
<1>6. main'.pc \notin Ended => DOMAIN cache' = {t \in DOMAIN results : results[t] = "success"}
  BY <1>1, <1>2, <1>3 DEF ResultsAreTrue, Ended
<1>7. main'.pc = "publish" => \A t \in DOMAIN results : results[t] # "error"
  BY <1>3 DEF Acceptable
<1>8. idle' \in 0..HardTimeout
  BY <1>1, <1>2 DEF MainOK
<1>9. main'.pc \in Ended \cup {"wait", "take", "audit", "publish"} /\ main'.done = {} /\ main'.pc # "published"
  BY <1>3 DEF Ended
<1>10. main' = [pc |-> main'.pc, done |-> main'.done]
  BY <1>3, <1>9
<1> QED BY <1>2, <1>4, <1>5, <1>6, <1>7, <1>8, <1>9, <1>10, QuietStep

LEMMA PublishStep ==
  ASSUME FetchInv, Publish
  PROVE  FetchInv' /\ Inflight' = Inflight
<1>1. MainOK /\ UnitsApart /\ NoUnitForgotten /\ ResultsAreTrue
  BY DEF FetchInv
<1>2. /\ main.pc = "publish" /\ idle' = idle /\ gone' = gone /\ pool' = pool /\ lost' = lost
      /\ results' = results /\ cache' = <<>>
  BY DEF Publish
<1>3. /\ main' = [pc |-> main'.pc, done |-> {}] /\ main'.pc \in {"published", "failed"}
      /\ main'.pc = "published" => published' = cache
  BY DEF Publish, Goes
<1>4. NoUnitForgotten'
  BY <1>1, <1>2, <1>3 DEF NoUnitForgotten
<1>5. cache = [t \in {s \in Tokens : Available(s) # {} /\ s \notin gone} |-> Available(t)]
  <2>1. Tokens \subseteq DOMAIN results /\ DOMAIN results \subseteq Tokens
    BY <1>1, <1>2 DEF NoUnitForgotten, UnitsApart
  <2>2. \A t \in DOMAIN results : results[t] = "success" <=> Available(t) # {} /\ t \notin gone
    BY <1>1, <1>2 DEF ResultsAreTrue, TrueStatus
  <2>3. DOMAIN cache = {t \in DOMAIN results : results[t] = "success"} /\ cache = [t \in DOMAIN cache |-> Available(t)]
    BY <1>1, <1>2 DEF ResultsAreTrue, Ended
  <2>4. DOMAIN cache = {s \in Tokens : Available(s) # {} /\ s \notin gone}
    BY <2>1, <2>2, <2>3
  <2> QED BY <2>3, <2>4
<1>6. cache' = [t \in DOMAIN cache' |-> Available(t)]
  BY <1>2, NothingCached
<1>7. idle' \in 0..HardTimeout
  BY <1>1, <1>2 DEF MainOK
<1>8. main'.pc \in Ended /\ main'.done = {} /\ main'.pc # "publish" /\ main' = [pc |-> main'.pc, done |-> main'.done]
  BY <1>3 DEF Ended
<1> QED BY <1>2, <1>3, <1>4, <1>5, <1>6, <1>7, <1>8, QuietStep

LEMMA TickStep ==
  ASSUME FetchInv, Tick
  PROVE  FetchInv' /\ Inflight' = Inflight
<1>1. MainOK /\ NoUnitForgotten /\ ResultsAreTrue /\ HardTimeout \in Nat
  BY FetchConstants DEF FetchInv
<1>2. /\ main' = main /\ gone' = gone /\ pool' = pool /\ lost' = lost /\ results' = results /\ cache' = cache
      /\ published' = published /\ idle' = Min({idle + 1, HardTimeout})
  BY DEF Tick, outcome
<1>3. idle' \in 0..HardTimeout
  <2>1. idle \in Nat /\ idle + 1 \in Nat
    BY <1>1 DEF MainOK
  <2> QED BY <1>1, <1>2, <2>1, MinOfTwo
<1>4. NoUnitForgotten'
  <2>1. Inflight' = Inflight /\ Unsubmitted' = Unsubmitted
    BY <1>2 DEF Inflight, Running, Unsubmitted, Consumed, pool
  <2> QED BY <1>1, <1>2, <2>1 DEF NoUnitForgotten
<1>5. main' = [pc |-> main'.pc, done |-> main'.done] /\ main'.done \subseteq DOMAIN finished
      /\ main'.pc \in Ended \cup {"wait", "take", "audit", "publish"}
  BY <1>1, <1>2 DEF MainOK
<1>6. /\ cache' = [t \in DOMAIN cache' |-> Available(t)]
      /\ main'.pc \notin Ended => DOMAIN cache' = {t \in DOMAIN results : results[t] = "success"}
      /\ main'.pc = "publish" => \A t \in DOMAIN results : results[t] # "error"
      /\ main'.pc = "published" =>
           published' = [t \in {s \in Tokens : Available(s) # {} /\ s \notin gone} |-> Available(t)]
  BY <1>1, <1>2 DEF ResultsAreTrue
<1> QED BY <1>2, <1>3, <1>4, <1>5, <1>6, QuietStep

-----------------------------------------------------------------------------
(* Outcomes *)

LEMMA InitIsTrue == FetchInit => FetchInv
<1> SUFFICES ASSUME FetchInit
             PROVE  FetchInv
  OBVIOUS
<1>1. /\ main = [pc |-> "wait", done |-> {}] /\ worker = [w \in 1..Workers |-> NoWork] /\ finished = <<>>
      /\ results = <<>> /\ cache = <<>> /\ idle = 0
  BY DEF FetchInit
<1>2. queue \in SUBSET Units /\ Cardinality(queue) = Min({MaxInflight, Cardinality(Units)})
  BY DEF FetchInit
<1>3. DOMAIN finished = {} /\ DOMAIN results = {} /\ DOMAIN cache = {} /\ cache = [t \in DOMAIN cache |-> Available(t)]
  BY <1>1, NothingCached
<1>4. Running = {}
  BY <1>1 DEF Running, NoWork
<1>5. Inflight = queue
  BY <1>3, <1>4 DEF Inflight
<1>6. MainOK
  BY <1>1, FetchConstants DEF MainOK
<1>7. WorkersOK
  BY <1>1 DEF WorkersOK
<1>8. UnitsApart
  BY <1>1, <1>2, <1>3, <1>5 DEF UnitsApart
<1>9. queue = {} => Units = {}
  <2>1. IsFiniteSet(Units) /\ Cardinality(Units) \in Nat /\ MaxInflight \in Nat /\ MaxInflight > 0
    BY UnitsFinite, FS_CardinalityType, FetchConstants
  <2>2. Min({MaxInflight, Cardinality(Units)}) = IF MaxInflight <= Cardinality(Units) THEN MaxInflight ELSE Cardinality(Units)
    BY <2>1, MinOfTwo
  <2>3. Cardinality({}) = 0
    BY FS_EmptySet
  <2>4. queue = {} => Cardinality(Units) = 0
    BY <1>2, <2>1, <2>2, <2>3
  <2> QED BY <2>1, <2>4, FS_EmptySet
<1>10. NoUnitForgotten
  BY <1>1, <1>5, <1>9 DEF NoUnitForgotten, Unsubmitted
<1>11. ResultsAreTrue
  BY <1>1, <1>3 DEF ResultsAreTrue, Ended
<1> QED BY <1>6, <1>7, <1>8, <1>10, <1>11 DEF FetchInv

LEMMA WorkerStep ==
  ASSUME FetchInv, NEW w \in 1..Workers,
         \/ Answered(w) \/ Halve(w) \/ Isolate(w) \/ DropFidelity(w)
         \/ Permanent(w) \/ Transient(w) \/ NextChunk(w)
  PROVE  FetchInv' /\ Inflight' = Inflight
<1>1. WorkersOK
  BY DEF FetchInv
<1>2. \E u \in Units : worker[w] \in Jobs(u) /\ \E j \in Jobs(u) :
         worker' = [worker EXCEPT ![w] = j] /\ KeepsTrack(j, gone, lost')
  BY <1>1, AnsweredStep, HalveStep, IsolateStep, DropFidelityStep, PermanentStep, TransientStep, NextChunkStep
<1>3. UNCHANGED <<gone, main, queue, finished, idle, outcome>> /\ lost \subseteq lost'
  <2>1. CASE NextChunk(w)
    BY <2>1 DEF NextChunk
  <2>2. CASE Transient(w)
    <3>1. lost \subseteq lost'
      BY <2>2 DEF Transient
    <3> QED BY <2>2, <3>1 DEF Transient, Sends
  <2>3. CASE ~NextChunk(w) /\ ~Transient(w)
    BY <2>3 DEF Answered, Halve, Isolate, DropFidelity, Permanent, Sends
  <2> QED BY <2>1, <2>2, <2>3
<1> QED BY <1>2, <1>3, JobStep

LEMMA StepIsTrue == FetchInv /\ [FetchNext]_fetchVars => FetchInv'
<1> SUFFICES ASSUME FetchInv, [FetchNext]_fetchVars
             PROVE  FetchInv'
  OBVIOUS
<1>1. ASSUME NEW w \in 1..Workers,
             \/ TakeUnit(w) \/ Answered(w) \/ Halve(w) \/ Isolate(w) \/ DropFidelity(w)
             \/ Permanent(w) \/ Transient(w) \/ NextChunk(w) \/ Finish(w)
      PROVE  FetchInv'
  BY <1>1, TakeUnitStep, WorkerStep, FinishStep
<1>2. CASE Main
  BY <1>2, PollStep, TakeStep, EndStep, AuditStep, PublishStep DEF Main
<1>3. CASE Tick
  BY <1>3, TickStep
<1>4. CASE UNCHANGED fetchVars
  <2>1. /\ gone' = gone /\ main' = main /\ queue' = queue /\ worker' = worker /\ finished' = finished /\ idle' = idle
        /\ results' = results /\ cache' = cache /\ published' = published /\ lost' = lost
    BY <1>4 DEF fetchVars, pool, outcome
  <2>2. MainOK' /\ WorkersOK' /\ ResultsAreTrue'
    BY <2>1 DEF FetchInv, MainOK, WorkersOK, KeepsTrack, ResultsAreTrue
  <2>3. Inflight' = Inflight /\ Unsubmitted' = Unsubmitted
    BY <2>1 DEF Inflight, Running, Unsubmitted, Consumed
  <2>4. UnitsApart' /\ NoUnitForgotten'
    BY <2>1, <2>3 DEF FetchInv, UnitsApart, NoUnitForgotten
  <2> QED BY <2>2, <2>4 DEF FetchInv
<1> QED BY <1>1, <1>2, <1>3, <1>4 DEF FetchNext

LEMMA SpecIsTrue == FetchSpec => []FetchInv
BY InitIsTrue, StepIsTrue, PTL DEF FetchSpec

(* Requests between two fillings of the limiter: what is spent and what is *)
(* left stay within the greatest rate, however it is tuned.                *)
LEMMA TunedIsPaced ==
  ASSUME NEW M \in Nat, NEW R \in Nat, NEW r \in Nat, NEW n \in Nat, NEW p \in Nat, R > 0, r <= M, p <= R,
         n * R + p * M <= M * R
  PROVE  /\ (p * r) \div R \in 0..r
         /\ n * r + ((p * r) \div R) * M <= M * r
<1> DEFINE q == (p * r) \div R
<1>1. p * r \in Nat
  OBVIOUS
<1>2. q \in Nat /\ q * R <= p * r
  <2>1. \A x \in Nat : x \div R \in Nat /\ (x \div R) * R <= x
    OBVIOUS
  <2> QED BY <1>1, <2>1
<1> HIDE DEF q
<1>3. q <= r
  <2>1. p * r <= R * r
    OBVIOUS
  <2>2. q * R <= r * R
    BY <1>2, <2>1
  <2>3. r * R \in Nat /\ q * R \in Nat /\ R * r = r * R
    BY <1>2
  <2>4. q > r => q * R >= (r + 1) * R
    BY <1>2
  <2>5. (r + 1) * R = r * R + R
    OBVIOUS
  <2> QED BY <1>2, <2>2, <2>3, <2>4, <2>5
<1>4. (n * r + q * M) * R <= (M * r) * R
  <2>1. q * R * M <= p * r * M
    BY <1>2
  <2>2. (n * R + p * M) * r <= (M * R) * r
    OBVIOUS
  <2>3. (n * r + q * M) * R = n * R * r + q * R * M
    BY <1>2
  <2>4. (n * R + p * M) * r = n * R * r + p * r * M
    OBVIOUS
  <2>5. (M * R) * r = (M * r) * R
    OBVIOUS
  <2>6. n * R * r \in Nat /\ q * R * M \in Nat /\ p * r * M \in Nat /\ (M * r) * R \in Nat
    BY <1>2
  <2> QED BY <2>1, <2>2, <2>3, <2>4, <2>5, <2>6
<1>5. \A x, y \in Nat : x * R <= y * R => x <= y
  <2> TAKE x, y \in Nat
  <2>1. x > y => x * R >= (y + 1) * R
    OBVIOUS
  <2>2. (y + 1) * R = y * R + R
    OBVIOUS
  <2> QED BY <2>1, <2>2
<1>6. n * r + q * M \in Nat /\ M * r \in Nat
  BY <1>2
<1> QED BY <1>2, <1>3, <1>4, <1>5, <1>6 DEF q

-----------------------------------------------------------------------------
(* Bounds *)

LEMMA RatesAre == Max(Rates) \in Rates /\ \A r \in Rates : r \in Nat /\ r > 0 /\ r <= Max(Rates)
BY FetchConstants, GreatestIs

LEMMA SendsIsPaced ==
  ASSUME Paced, NEW w \in 1..Workers, Sends(w)
  PROVE  Paced'
<1>1. PICK M \in Nat : M = Max(Rates) /\ rate \in Nat /\ rate <= M
  BY RatesAre DEF Paced
<1>2. /\ permits \in Nat /\ sent \in Nat /\ permits <= rate /\ sent * rate + permits * M <= M * rate
      /\ permits >= 1 /\ permits' = permits - 1 /\ sent' = sent + 1 /\ rate' = rate
  BY <1>1 DEF Paced, Sends, HasPermit
<1>3. (sent + 1) * rate + (permits - 1) * M <= M * rate
  <2>1. (sent + 1) * rate = sent * rate + rate /\ (permits - 1) * M = permits * M - M
    BY <1>1, <1>2
  <2>2. sent * rate \in Nat /\ permits * M \in Nat /\ M * rate \in Nat
    BY <1>1, <1>2
  <2> QED BY <1>1, <1>2, <2>1, <2>2
<1>4. permits' \in 0..rate' /\ sent' \in Nat /\ rate' \in Rates
  BY <1>1, <1>2 DEF Paced
<1> QED BY <1>1, <1>2, <1>3, <1>4 DEF Paced

LEMMA TuneIsPaced ==
  ASSUME Paced, Tune, sent' = sent
  PROVE  Paced'
<1>1. PICK M \in Nat : M = Max(Rates) /\ rate \in Nat /\ rate <= M /\ rate > 0
  BY RatesAre DEF Paced
<1>2. PICK r \in Rates : rate' = r /\ permits' = (permits * r) \div rate
  BY DEF Tune
<1>3. r \in Nat /\ r <= M
  BY <1>1, RatesAre
<1>4. permits \in Nat /\ sent \in Nat /\ permits <= rate /\ sent * rate + permits * M <= M * rate
  BY <1>1 DEF Paced
<1>5. permits' \in 0..r /\ sent * r + permits' * M <= M * r
  BY <1>1, <1>2, <1>3, <1>4, TunedIsPaced
<1> QED BY <1>1, <1>2, <1>4, <1>5 DEF Paced

LEMMA TickIsPaced ==
  ASSUME Paced, Tick
  PROVE  Paced'
<1>1. PICK M \in Nat : M = Max(Rates) /\ rate \in Nat /\ rate > 0
  BY RatesAre DEF Paced
<1>2. permits' = rate /\ sent' = 0 /\ rate' = rate
  BY DEF Tick
<1>3. 0 * rate + rate * M <= M * rate
  BY <1>1
<1> QED BY <1>1, <1>2, <1>3 DEF Paced

LEMMA PaceStep ==
  ASSUME Paced, [FetchNext]_fetchVars
  PROVE  Paced'
<1>1. CASE pace' = pace
  BY <1>1 DEF Paced, pace
<1>2. ASSUME NEW w \in 1..Workers, Sends(w)
      PROVE  Paced'
  BY <1>2, SendsIsPaced
<1>3. CASE Poll
  BY <1>3, TuneIsPaced DEF Poll
<1>4. CASE Tick
  BY <1>4, TickIsPaced
<1>5. ASSUME NEW w \in 1..Workers,
             TakeUnit(w) \/ NextChunk(w) \/ Finish(w)
      PROVE  Paced'
  BY <1>1, <1>5 DEF TakeUnit, NextChunk, Finish
<1>6. ASSUME NEW w \in 1..Workers,
             Answered(w) \/ Halve(w) \/ Isolate(w) \/ DropFidelity(w) \/ Permanent(w) \/ Transient(w)
      PROVE  Paced'
  BY <1>2, <1>6 DEF Answered, Halve, Isolate, DropFidelity, Permanent, Transient
<1>7. ASSUME NEW u \in main.done, Take(u)
      PROVE  Paced'
  BY <1>1, <1>7 DEF Take
<1>8. CASE EndOfStream \/ Audit \/ Publish
  BY <1>1, <1>8 DEF EndOfStream, Audit, Publish
<1>9. CASE UNCHANGED fetchVars
  BY <1>1, <1>9 DEF fetchVars
<1> QED BY <1>3, <1>4, <1>5, <1>6, <1>7, <1>8, <1>9 DEF FetchNext, Main

(* One unit comes for each that was taken. *)
LEMMA InflightStep ==
  ASSUME FetchInv, InflightIsBounded, [FetchNext]_fetchVars
  PROVE  InflightIsBounded'
<1>1. Inflight \in SUBSET Units
  BY DEF FetchInv, UnitsApart
<1>2. IsFiniteSet(Inflight) /\ Cardinality(Inflight) \in Nat /\ MaxInflight \in Nat
  BY <1>1, UnitsFinite, FS_Subset, FS_CardinalityType, FetchConstants
<1>3. CASE Inflight' \in SUBSET Inflight
  <2>1. Cardinality(Inflight') <= Cardinality(Inflight) /\ Cardinality(Inflight') \in Nat
    BY <1>2, <1>3, FS_Subset, FS_CardinalityType
  <2> QED BY <1>2, <2>1 DEF InflightIsBounded
<1>4. ASSUME NEW u \in Inflight, Inflight' = (Inflight \ {u}) \cup Submit(Unsubmitted)
      PROVE  InflightIsBounded'
  <2>1. PICK x : Submit(Unsubmitted) \subseteq {x}
    BY SubmitIs
  <2>2. IsFiniteSet(Inflight \ {u}) /\ Cardinality(Inflight \ {u}) = Cardinality(Inflight) - 1
    BY <1>2, FS_RemoveElement
  <2>3. /\ IsFiniteSet((Inflight \ {u}) \cup {x})
        /\ Cardinality((Inflight \ {u}) \cup {x}) <= Cardinality(Inflight)
    <3> DEFINE rest == Inflight \ {u}
    <3> HIDE DEF rest
    <3>1. IsFiniteSet(rest) /\ Cardinality(rest) = Cardinality(Inflight) - 1
      BY <2>2 DEF rest
    <3>2. /\ IsFiniteSet(rest \cup {x})
          /\ Cardinality(rest \cup {x}) = IF x \in rest THEN Cardinality(rest) ELSE Cardinality(rest) + 1
      BY <3>1, FS_AddElement
    <3>3. Cardinality(rest \cup {x}) <= Cardinality(Inflight)
      BY <1>2, <3>1, <3>2
    <3> QED BY <3>2, <3>3 DEF rest
  <2>4. Inflight' \in SUBSET ((Inflight \ {u}) \cup {x})
    BY <1>4, <2>1
  <2>5. Cardinality(Inflight') <= Cardinality((Inflight \ {u}) \cup {x})
        /\ Cardinality(Inflight') \in Nat /\ Cardinality((Inflight \ {u}) \cup {x}) \in Nat
    BY <2>3, <2>4, FS_Subset, FS_CardinalityType
  <2> QED BY <1>2, <2>3, <2>5 DEF InflightIsBounded
<1>5. ASSUME NEW w \in 1..Workers,
             \/ TakeUnit(w) \/ Answered(w) \/ Halve(w) \/ Isolate(w) \/ DropFidelity(w)
             \/ Permanent(w) \/ Transient(w) \/ NextChunk(w) \/ Finish(w)
      PROVE  Inflight' = Inflight
  BY <1>5, TakeUnitStep, WorkerStep, FinishStep
<1>6. CASE Main
  <2>1. ASSUME NEW u \in main.done, Take(u)
        PROVE  InflightIsBounded'
    BY <1>3, <1>4, <2>1, TakeStep
  <2>2. CASE Poll \/ EndOfStream \/ Audit \/ Publish
    <3>1. Inflight' \in SUBSET Inflight
      BY <2>2, PollStep, EndStep, AuditStep, PublishStep
    <3> QED BY <1>3, <3>1
  <2> QED BY <1>6, <2>1, <2>2 DEF Main
<1>7. CASE Tick
  BY <1>3, <1>7, TickStep
<1>8. CASE UNCHANGED fetchVars
  <2>1. Inflight' = Inflight
    BY <1>8 DEF fetchVars, pool, Inflight, Running
  <2> QED BY <1>3, <2>1
<1>9. CASE \E w \in 1..Workers :
             \/ TakeUnit(w) \/ Answered(w) \/ Halve(w) \/ Isolate(w) \/ DropFidelity(w)
             \/ Permanent(w) \/ Transient(w) \/ NextChunk(w) \/ Finish(w)
  BY <1>3, <1>5, <1>9
<1> QED BY <1>6, <1>7, <1>8, <1>9 DEF FetchNext

LEMMA CacheStep ==
  ASSUME FetchInv, CacheIsRemoved, [FetchNext]_fetchVars
  PROVE  CacheIsRemoved'
<1>1. CASE main' = main /\ cache' = cache
  BY <1>1 DEF CacheIsRemoved
<1>2. ASSUME NEW w \in 1..Workers,
             \/ TakeUnit(w) \/ Answered(w) \/ Halve(w) \/ Isolate(w) \/ DropFidelity(w)
             \/ Permanent(w) \/ Transient(w) \/ NextChunk(w) \/ Finish(w)
      PROVE  main' = main /\ cache' = cache
  BY <1>2 DEF TakeUnit, Answered, Halve, Isolate, DropFidelity, Permanent, Transient, NextChunk, Finish, Sends, outcome
<1>3. CASE Fails
  BY <1>3 DEF CacheIsRemoved, Fails
<1>4. CASE Poll /\ ~Fails
  <2>1. main.pc = "wait" /\ (main' = main \/ main'.pc = "take")
    BY <1>4 DEF Poll
  <2> QED BY <2>1 DEF CacheIsRemoved
<1>5. ASSUME NEW u \in main.done, Take(u), ~Fails
      PROVE  CacheIsRemoved'
  <2>1. main'.pc \in {"wait", "take"}
    BY <1>5 DEF Take
  <2> QED BY <2>1 DEF CacheIsRemoved
<1>6. CASE EndOfStream \/ Audit \/ Publish
  BY <1>6 DEF EndOfStream, Audit, Publish, Goes, CacheIsRemoved
<1>7. CASE Tick
  BY <1>1, <1>7 DEF Tick, outcome
<1>8. CASE UNCHANGED fetchVars
  BY <1>1, <1>8 DEF fetchVars, outcome
<1>9. CASE \E w \in 1..Workers :
             \/ TakeUnit(w) \/ Answered(w) \/ Halve(w) \/ Isolate(w) \/ DropFidelity(w)
             \/ Permanent(w) \/ Transient(w) \/ NextChunk(w) \/ Finish(w)
  BY <1>1, <1>2, <1>9
<1> QED BY <1>3, <1>4, <1>5, <1>6, <1>7, <1>8, <1>9 DEF FetchNext, Main

LEMMA InitIsBounded == FetchInit => FetchBounds
<1> SUFFICES ASSUME FetchInit
             PROVE  FetchBounds
  OBVIOUS
<1>1. Paced
  <2>1. PICK r \in Rates : r = Min(Rates)
    BY MinIs, FetchConstants
  <2>2. PICK M \in Nat : M = Max(Rates) /\ r \in Nat /\ r > 0
    BY RatesAre
  <2>3. rate = r /\ permits = r /\ sent = 0
    BY <2>1 DEF FetchInit
  <2>4. 0 * r + r * M <= M * r
    BY <2>2
  <2> QED BY <2>2, <2>3, <2>4 DEF Paced
<1>2. InflightIsBounded
  <2>1. /\ worker = [w \in 1..Workers |-> NoWork] /\ finished = <<>>
        /\ Cardinality(queue) = Min({MaxInflight, Cardinality(Units)})
    BY DEF FetchInit
  <2>2. Inflight = queue
    BY <2>1 DEF Inflight, Running, NoWork
  <2>3. Cardinality(Units) \in Nat /\ MaxInflight \in Nat
    BY UnitsFinite, FS_CardinalityType, FetchConstants
  <2> QED BY <2>1, <2>2, <2>3, MinOfTwo DEF InflightIsBounded
<1>3. CacheIsRemoved
  BY DEF FetchInit, CacheIsRemoved
<1> QED BY <1>1, <1>2, <1>3 DEF FetchBounds

LEMMA StepIsBounded == FetchInv /\ FetchBounds /\ [FetchNext]_fetchVars => FetchBounds'
BY PaceStep, InflightStep, CacheStep DEF FetchBounds

LEMMA SpecIsBounded == FetchSpec => [](FetchInv /\ FetchBounds)
<1>1. FetchInit => FetchInv /\ FetchBounds
  BY InitIsTrue, InitIsBounded
<1>2. FetchInv /\ FetchBounds /\ [FetchNext]_fetchVars => FetchInv' /\ FetchBounds'
  BY StepIsTrue, StepIsBounded
<1> QED BY <1>1, <1>2, PTL DEF FetchSpec

LEMMA PacedIsWithin == Paced => IsPaced
<1> SUFFICES ASSUME Paced
             PROVE  IsPaced
  OBVIOUS
<1>1. PICK M \in Nat : M = Max(Rates) /\ rate \in Nat /\ rate > 0
  BY RatesAre DEF Paced
<1>2. sent \in Nat /\ permits \in Nat /\ sent * rate + permits * M <= M * rate
  BY <1>1 DEF Paced
<1>3. permits * M \in Nat /\ sent * rate \in Nat /\ M * rate \in Nat
  BY <1>1, <1>2
<1>4. sent * rate <= M * rate
  BY <1>2, <1>3
<1>5. sent > M => sent * rate >= (M + 1) * rate
  BY <1>1, <1>2
<1>6. (M + 1) * rate = M * rate + rate
  BY <1>1
<1>7. sent <= M
  BY <1>1, <1>2, <1>3, <1>4, <1>5, <1>6
<1> QED BY <1>1, <1>7 DEF IsPaced

(* Outcomes of a minute run, OutcomesAreTrue: for any tokens and windows,  *)
(* any number of workers and units in flight, whatever is halved, isolated *)
(* or dropped, each token has one result and it is the truth of it.        *)
THEOREM FetchOutcomesAreTrue == FetchSpec => []OutcomesAreTrue
<1>1. FetchInv /\ FetchBounds => OutcomesAreTrue
  <2> SUFFICES ASSUME FetchInv, FetchBounds
               PROVE  OutcomesAreTrue
    OBVIOUS
  <2>1. MainOK /\ WorkersOK /\ UnitsApart /\ NoUnitForgotten /\ ResultsAreTrue /\ Paced
    BY DEF FetchInv, FetchBounds
  <2>2. \A w \in 1..Workers : worker[w] # NoWork => worker[w].active \subseteq worker[w].unit
    <3> TAKE w \in 1..Workers
    <3> HAVE worker[w] # NoWork
    <3>1. PICK u \in Units : worker[w] \in Jobs(u)
      BY <2>1 DEF WorkersOK
    <3> QED BY <3>1, JobsAre
  <2>3. NoWork.unit = {} /\ NoWork.active = {}
    BY DEF NoWork
  <2>4. FetchTypeOK
    BY <2>1, <2>2, <2>3 DEF FetchTypeOK, MainOK, Paced
  <2>5. EachTokenOnce
    <3>1. main.pc \in {"audit", "publish", "published"} => DOMAIN results = Tokens
      BY <2>1 DEF NoUnitForgotten, UnitsApart
    <3>2. \A w \in 1..Workers : worker[w].unit # {} =>
            worker[w].unit \notin queue \cup DOMAIN finished \cup {worker[v].unit : v \in (1..Workers) \ {w}}
      <4> TAKE w \in 1..Workers
      <4> HAVE worker[w].unit # {}
      <4>1. worker[w] # NoWork
        BY <2>3
      <4> QED BY <2>1, <4>1 DEF UnitsApart
    <3> QED BY <3>1, <3>2 DEF EachTokenOnce
  <2>6. SuccessIsComplete
    BY <2>1 DEF ResultsAreTrue, SuccessIsComplete
  <2>7. RowsAreResults
    BY <2>1 DEF ResultsAreTrue, RowsAreResults
  <2>8. ErrorsAreEarned
    BY <2>1 DEF ResultsAreTrue, ErrorsAreEarned, TrueStatus
  <2> QED BY <2>4, <2>5, <2>6, <2>7, <2>8 DEF OutcomesAreTrue
<1> QED BY <1>1, SpecIsBounded, PTL

(* Bounds of a minute run, StaysInBounds: no more requests than the rate   *)
(* allows, no more units in flight than MaxInflight, and no cache is left. *)
THEOREM FetchStaysInBounds == FetchSpec => []StaysInBounds
<1>1. FetchBounds => StaysInBounds
  BY PacedIsWithin DEF FetchBounds, StaysInBounds
<1> QED BY <1>1, SpecIsBounded, PTL
=============================================================================
