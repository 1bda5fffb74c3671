----------------------------- MODULE CatalogCrawl -----------------------------
(***************************************************************************)
(* The global Polymarket catalog: crawls that page through four passes of  *)
(* Gamma, checkpoint every page, resume and activate as one observation;   *)
(* the cumulative mart built from the complete crawls; and its immutable   *)
(* releases.                                                               *)
(*                                                                         *)
(* One process at a time holds the database; the source changes under it.  *)
(* An item is its number, a page holds one item, and a row tells only what *)
(* the catalog decides on: what it contains, whether it is tradable and    *)
(* its condition.  Each statement of a crawl commits by itself.            *)
(***************************************************************************)
EXTENDS Integers, Sequences, FiniteSets, FiniteSetsExt, SequencesExt

CONSTANTS
  Crawls,        \* crawl identifiers
  Events, Markets,  \* numbers Gamma may list
  Membership,      \* pairs of an event and a market of it
  FirstListed,   \* items and tradable markets Gamma begins with
  FirstTradable,
  Versions,      \* dataset versions
  MaxPages,      \* max_pages, or 0 for none
  MaxChanges,    \* bound: changes of the source
  Faults         \* subset of {"transport", "malformed", "conflict", "crash"}

ASSUME CatalogAssumption ==
  /\ Events \subseteq Nat \ {0} /\ Markets \subseteq Nat \ {0} /\ IsFiniteSet(Events \cup Markets)
  /\ Membership \subseteq Events \X Markets
  /\ MaxPages \in Nat /\ MaxChanges \in Nat
  /\ Faults \subseteq {"transport", "malformed", "conflict", "crash"}

VARIABLES
  listed,        \* items Gamma lists
  closed,        \* those of them it lists as closed
  tradable,      \* markets with evidence of tradability
  condition,     \* the condition of each market
  changes,
  runs,          \* crawl_runs
  pages,         \* crawl_pages
  issues,        \* crawls with a row in crawl_issues
  snapshots,     \* event, market and event-market snapshots
  mart,          \* polymarket_graph_catalog
  releases,      \* release directories
  clock,         \* the number of instants recorded so far
  job,           \* what the process is doing
  since          \* history: what was listed when a crawl began

source  == <<listed, closed, tradable, condition, changes>>
crawled == <<runs, pages, issues, snapshots, clock, since>>
vars    == <<source, crawled, mart, releases, job>>

Items == {<<"event", e>> : e \in Events} \cup {<<"market", m>> : m \in Markets}
ASSUME ListedAssumption == FirstListed \subseteq Items

ClosedFirst == <<[kind |-> "event", closed |-> TRUE], [kind |-> "event", closed |-> FALSE],
                 [kind |-> "market", closed |-> TRUE], [kind |-> "market", closed |-> FALSE]>>

(* CATALOG_PASSES, in their order. *)
Passes == <<[kind |-> "event", closed |-> FALSE], [kind |-> "event", closed |-> TRUE],
            [kind |-> "market", closed |-> FALSE], [kind |-> "market", closed |-> TRUE]>>

NewRun    == [status |-> "none", observed |-> 0, completed |-> 0]
NoGraph   == [events |-> {}, markets |-> {}, edges |-> {}]
NoRelease == [graph |-> NoGraph, crawl |-> "none"]
Idle      == [pc |-> "idle", crawl |-> "none", pass |-> 1, retried |-> FALSE, error |-> "none",
              version |-> "none", release |-> NoRelease]

Init ==
  /\ listed = FirstListed /\ closed = {} /\ tradable = FirstTradable
  /\ condition = [m \in Markets |-> 1] /\ changes = 0
  /\ runs = [c \in Crawls |-> NewRun]
  /\ pages = [c \in Crawls |-> [p \in 1..Len(Passes) |-> <<>>]]
  /\ issues = {} /\ snapshots = [c \in Crawls |-> NoGraph]
  /\ mart = NoGraph /\ releases = [v \in Versions |-> NoRelease]
  /\ clock = 0 /\ job = Idle /\ since = [c \in Crawls |-> {}]

----------------------------------------------------------------------------
(* Gamma *)

Listing(p) == {i[2] : i \in {x \in listed : x[1] = Passes[p].kind /\ (x \in closed) = Passes[p].closed}}

MarketRow(m) == [market |-> m, tradable |-> m \in tradable, condition |-> condition[m]]

(* What a row says: itself and what is nested in it. *)
Row(p, n) ==
  IF Passes[p].kind = "event"
  THEN LET inside == {m \in Markets : <<n, m>> \in Membership /\ <<"market", m>> \in listed}
       IN [events |-> {n}, markets |-> {MarketRow(m) : m \in inside}, edges |-> {<<n, m>> : m \in inside}]
  ELSE LET around == {e \in Events : <<e, n>> \in Membership /\ <<"event", e>> \in listed}
       IN [events |-> around, markets |-> {MarketRow(n)}, edges |-> {<<e, n>> : e \in around}]

(* One keyset page after a cursor; no next cursor is 0. *)
Page(p, cursor) ==
  LET rest == {n \in Listing(p) : n > cursor}
  IN IF rest = {} THEN [id |-> 0, row |-> NoGraph, next |-> 0]
     ELSE [id |-> Min(rest), row |-> Row(p, Min(rest)), next |-> IF Cardinality(rest) = 1 THEN 0 ELSE Min(rest)]

----------------------------------------------------------------------------
(* Crawling *)

AnyCrawl(c) == TRUE
IsOpen(c) == runs[c].status # "complete"

(* A crawl that is complete is not run again; any other one is resumed and *)
(* keeps the instant it was first started at.                              *)
Start(c) ==
  /\ job.pc = "idle" /\ IsOpen(c)
  /\ job' = [Idle EXCEPT !.pc = "pass", !.crawl = c]
  /\ IF runs[c].status = "none"
     THEN /\ clock' = clock + 1
          /\ runs' = [runs EXCEPT ![c] = [NewRun EXCEPT !.status = "running", !.observed = clock + 1]]
          /\ since' = [since EXCEPT ![c] = listed]
     ELSE /\ runs' = [runs EXCEPT ![c].status = "running"]
          /\ UNCHANGED <<clock, since>>
  /\ UNCHANGED <<source, pages, issues, snapshots, mart, releases>>

Stored == pages[job.crawl][job.pass]
IsDone(stored) == stored # <<>> /\ Last(stored).next = 0

(* Where a pass goes on: after its last stored page. *)
Cursor(stored) == IF stored = <<>> THEN 0 ELSE Last(stored).next

NextPass ==
  /\ job.pc = "pass" /\ job.pass <= Len(Passes) /\ IsDone(Stored)
  /\ job' = [job EXCEPT !.pass = @ + 1, !.retried = FALSE]
  /\ UNCHANGED <<source, crawled, mart, releases>>

(* A page is stored as soon as it is fetched; a pass that has reached      *)
(* max_pages without its end is broken.                                    *)
FetchPage ==
  LET page == Page(job.pass, Cursor(Stored))
      truncated == page.next # 0 /\ MaxPages # 0 /\ Len(Stored) + 1 >= MaxPages
  IN /\ job.pc = "pass" /\ job.pass <= Len(Passes) /\ ~IsDone(Stored)
     /\ pages' = [pages EXCEPT ![job.crawl][job.pass] = Append(@, page)]
     /\ job' = IF truncated THEN [job EXCEPT !.pc = "broken", !.error = "runtime"] ELSE job
     /\ UNCHANGED <<source, runs, issues, snapshots, clock, since, mart, releases>>

(* The request fails, or its answer is refused. *)
FetchFails ==
  /\ job.pc = "pass" /\ job.pass <= Len(Passes) /\ ~IsDone(Stored)
  /\ \/ "transport" \in Faults /\ job' = [job EXCEPT !.pc = "broken", !.error = "runtime"]
     \/ "malformed" \in Faults /\ job' = [job EXCEPT !.pc = "broken", !.error = "value"]
  /\ UNCHANGED <<source, crawled, mart, releases>>

AsOftenAsItTakes == TRUE

(* A pass is tried again once, and only when it had pages. *)
MayRetry == ~job.retried /\ Stored # <<>>

(* A broken pass is deleted and fetched from its start, or ends the crawl. *)
PassBreaks ==
  /\ job.pc = "broken"
  /\ IF MayRetry
     THEN /\ pages' = [pages EXCEPT ![job.crawl][job.pass] = <<>>]
          /\ job' = [job EXCEPT !.pc = "pass", !.retried = TRUE, !.error = "none"]
     ELSE job' = [job EXCEPT !.pc = "fail"] /\ UNCHANGED pages
  /\ UNCHANGED <<source, runs, issues, snapshots, clock, since, mart, releases>>

(* Activation *)

RowsOf(c) == UNION {{pages[c][p][i].row : i \in DOMAIN pages[c][p]} : p \in 1..Len(Passes)}

MarketRows(c) == UNION {r.markets : r \in RowsOf(c)}

(* Two rows of a market disagree on its condition. *)
Conflicts(c) == \E r, q \in MarketRows(c) : r.market = q.market /\ r.condition # q.condition

(* The rows of all passes, merged: evidence of tradability adds up. *)
Normalized(c) ==
  [events  |-> UNION {r.events : r \in RowsOf(c)},
   markets |-> {[market |-> m, tradable |-> \E r \in MarketRows(c) : r.market = m /\ r.tradable] :
                  m \in {r.market : r \in MarketRows(c)}},
   edges   |-> UNION {r.edges : r \in RowsOf(c)}]

(* All four passes are complete, each with one last page. *)
AllComplete(c) ==
  \A p \in 1..Len(Passes) : Cardinality({i \in DOMAIN pages[c][p] : pages[c][p][i].next = 0}) = 1

Activate ==
  LET c == job.crawl
  IN /\ job.pc = "pass" /\ job.pass > Len(Passes)
     /\ CASE Conflicts(c) ->
               job' = [job EXCEPT !.pc = "fail", !.error = "value"] /\ UNCHANGED <<runs, snapshots, clock>>
          [] ~Conflicts(c) /\ (c \in issues \/ ~AllComplete(c)) ->
               job' = [job EXCEPT !.pc = "fail", !.error = "runtime"] /\ UNCHANGED <<runs, snapshots, clock>>
          [] OTHER ->
               /\ snapshots' = [snapshots EXCEPT ![c] = Normalized(c)]
               /\ clock' = clock + 1
               /\ runs' = [runs EXCEPT ![c] = [status |-> "complete", observed |-> @.observed, completed |-> clock + 1]]
               /\ job' = Idle
     /\ UNCHANGED <<source, pages, issues, since, mart, releases>>

(* A refused answer or a conflict quarantines the crawl. *)
RecordIssue ==
  /\ job.pc = "fail"
  /\ issues' = IF job.error = "value" THEN issues \cup {job.crawl} ELSE issues
  /\ job' = [job EXCEPT !.pc = "failed"]
  /\ UNCHANGED <<source, runs, pages, snapshots, clock, since, mart, releases>>

MarkFailed ==
  /\ job.pc = "failed"
  /\ runs' = [runs EXCEPT ![job.crawl].status = IF @ = "complete" THEN @ ELSE "failed"]
  /\ job' = Idle
  /\ UNCHANGED <<source, pages, issues, snapshots, clock, since, mart, releases>>

----------------------------------------------------------------------------
(* Mart and releases *)

Complete == {c \in Crawls : runs[c].status = "complete"}

LatestCrawl == CHOOSE c \in Complete : \A d \in Complete : runs[d].completed <= runs[c].completed

Qualifying(cs) == {r.market : r \in {x \in UNION {snapshots[c].markets : c \in cs} : x.tradable}}

QualifyingEdges(cs) == {e \in UNION {snapshots[c].edges : c \in cs} : e[2] \in Qualifying(cs)}

(* The mart is cumulative: it is read off every complete crawl. *)
Observed == Complete

(* A node comes from the crawl that observed it last, and is flagged when  *)
(* that is the crawl that was completed last.                              *)
LastObserved(cs) == CHOOSE c \in cs : \A d \in cs : runs[d].observed <= runs[c].observed

MarketNode(m) ==
  LET seen == {c \in Observed : m \in {r.market : r \in snapshots[c].markets}}
  IN [market |-> m, present |-> LastObserved(seen) = LatestCrawl]

Graph ==
  [events  |-> {e[1] : e \in QualifyingEdges(Observed)},
   markets |-> {MarketNode(m) : m \in Qualifying(Observed)},
   edges   |-> QualifyingEdges(Observed)]

MarketsIn(graph) == {n.market : n \in graph.markets}

(* dbt rebuilds the mart. *)
BuildMart ==
  /\ job.pc = "idle" /\ Complete # {}
  /\ mart' = Graph
  /\ UNCHANGED <<source, crawled, releases, job>>

EventsReconcile == Cardinality(mart.events) = Cardinality({e[1] : e \in QualifyingEdges(Crawls)})

(* The mart's counts are those of all snapshots. *)
Reconciles ==
  /\ Cardinality(mart.markets) = Cardinality(Qualifying(Crawls))
  /\ Cardinality(mart.edges) = Cardinality(QualifyingEdges(Crawls))
  /\ EventsReconcile

(* Every edge has its nodes and every event an edge. *)
IsGraph(graph) ==
  /\ \A e \in graph.edges : e[1] \in graph.events /\ e[2] \in MarketsIn(graph)
  /\ \A n \in graph.events : \E e \in graph.edges : e[1] = n

(* A version that exists is refused. *)
IsFree(v) == releases[v] = NoRelease

(* The mart is validated and written to a temporary directory ... *)
PrepareRelease(v) ==
  /\ job.pc = "idle" /\ IsFree(v)
  /\ mart.markets # {} /\ IsGraph(mart) /\ Reconciles /\ Complete # {}
  /\ job' = [Idle EXCEPT !.pc = "install", !.version = v, !.release = [graph |-> mart, crawl |-> LatestCrawl]]
  /\ UNCHANGED <<source, crawled, mart, releases>>

(* ... that is renamed to its version. *)
Install ==
  /\ job.pc = "install"
  /\ releases' = [releases EXCEPT ![job.version] = job.release]
  /\ job' = Idle
  /\ UNCHANGED <<source, crawled, mart>>

Crash ==
  /\ "crash" \in Faults /\ job.pc # "idle"
  /\ job' = Idle
  /\ UNCHANGED <<source, crawled, mart, releases>>

----------------------------------------------------------------------------
(* Gamma lists an item, closes one, evidence comes and goes, or it         *)
(* contradicts itself about a condition.                                   *)
Change ==
  /\ changes < MaxChanges /\ changes' = changes + 1
  /\ \/ \E i \in Items \ listed : listed' = listed \cup {i} /\ UNCHANGED <<closed, tradable, condition>>
     \/ \E i \in listed \ closed : closed' = closed \cup {i} /\ UNCHANGED <<listed, tradable, condition>>
     \/ \E m \in Markets : tradable' = (tradable \ {m}) \cup ({m} \ tradable) /\ UNCHANGED <<listed, closed, condition>>
     \/ /\ "conflict" \in Faults
        /\ \E m \in Markets : condition' = [condition EXCEPT ![m] = 3 - @]
        /\ UNCHANGED <<listed, closed, tradable>>
  /\ UNCHANGED <<crawled, mart, releases, job>>

Step == NextPass \/ FetchPage \/ FetchFails \/ PassBreaks \/ Activate \/ RecordIssue \/ MarkFailed \/ Install

Next ==
  \/ \E c \in Crawls : Start(c)
  \/ Step \/ Crash
  \/ BuildMart \/ \E v \in Versions : PrepareRelease(v)
  \/ Change

(* The process goes on with what it has begun: a request ends after the    *)
(* client's retries.                                                       *)
Spec == Init /\ [][Next]_vars /\ WF_vars(Step)

----------------------------------------------------------------------------
(* Properties *)

TypeOK ==
  /\ closed \subseteq listed /\ listed \subseteq Items /\ issues \subseteq Crawls
  /\ \A c \in Crawls : runs[c].status \in {"none", "running", "failed", "complete"}
                       /\ runs[c].observed \in 0..clock /\ runs[c].completed \in 0..clock
  /\ job.pc \in {"idle", "pass", "broken", "fail", "failed", "install"} /\ job.pass \in 1..Len(Passes) + 1
  /\ \A c \in Crawls : \A p \in 1..Len(Passes) : Len(pages[c][p]) <= Cardinality(Events) + Cardinality(Markets) + 1

(* The stored pages of a pass are one walk through it, whatever crashes,   *)
(* resumptions and restarts they come from: each goes on where the one     *)
(* before it ended, and only the last one may be the end.                  *)
PagesAreOneWalk ==
  \A c \in Crawls : \A p \in 1..Len(Passes) : \A i \in 1..Len(pages[c][p]) - 1 :
    /\ pages[c][p][i].next = pages[c][p][i].id /\ pages[c][p][i].id # 0
    /\ pages[c][p][i + 1].id = 0 \/ pages[c][p][i + 1].id > pages[c][p][i].id

(* A complete crawl has observed all that was listed when it began, though *)
(* items close between its passes and it may have been resumed much later. *)
NothingMissed ==
  \A c \in Complete : \A i \in since[c] :
    IF i[1] = "event" THEN i[2] \in snapshots[c].events
    ELSE i[2] \in {r.market : r \in snapshots[c].markets}

(* A complete crawl is final: its run, pages and observations stay.        *)
CompleteIsFinal ==
  [][\A c \in Complete : runs'[c] = runs[c] /\ pages'[c] = pages[c] /\ snapshots'[c] = snapshots[c]]_vars

(* The mart is cumulative: a market, event or edge once in it stays.       *)
NothingForgotten ==
  [][/\ MarketsIn(mart) \subseteq MarketsIn(mart') /\ mart.events \subseteq mart'.events
     /\ mart.edges \subseteq mart'.edges]_vars

(* What is about to be released is the graph of all complete crawls, not   *)
(* only one with as many nodes: a mart that is behind is refused.          *)
ReleaseIsComplete ==
  job.pc = "install" =>
    /\ MarketsIn(job.release.graph) = Qualifying(Complete)
    /\ job.release.graph.edges = QualifyingEdges(Complete)

(* A release never changes.                                                *)
ReleasesAreImmutable == [][\A v \in Versions : releases[v] # NoRelease => releases'[v] = releases[v]]_vars

(* Whatever fails, the process comes to the end of what it has begun.      *)
JobEnds == job.pc # "idle" ~> job.pc = "idle"

(* A crawl is one observation of the source, however many processes it has  *)
(* taken: one walk through each pass, and nothing that was there missed.    *)
CrawlIsWhole == TypeOK /\ PagesAreOneWalk /\ NothingMissed

(* No step takes anything back: a complete crawl, an item of the mart and a *)
(* release stay, whoever crawls, builds or releases later.                  *)
NothingIsTakenBack == CompleteIsFinal /\ NothingForgotten /\ ReleasesAreImmutable
=============================================================================
