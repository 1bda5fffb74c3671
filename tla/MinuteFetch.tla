------------------------------ MODULE MinuteFetch ------------------------------
(***************************************************************************)
(* The fetch of a minute-odds run: tokens that share a window are fetched  *)
(* together by a bounded pool of workers behind one rate limiter, chunk by *)
(* chunk of their window; a chunk the API finds too long is halved, and a  *)
(* batch it refuses is fetched token by token.  The main thread polls the  *)
(* pool, watches for progress, spills what has come to the run's cache and *)
(* ends with the audit and the publication of the spilled rows.            *)
(*                                                                         *)
(* Instants are numbers and a minute is Minute of them; a price is its     *)
(* instant, for history does not change.  A run that resolved which tokens *)
(* to reuse begins here with the others, see MinuteOddsPublish.            *)
(***************************************************************************)
EXTENDS Integers, Sequences, FiniteSets, SequencesExt, FiniteSetsExt

CONSTANTS
  Window,       \* the exact window of each planned token, a record of from and to
  History,      \* the instants at which each token has a price
  Doubtful,     \* tokens whose requests may be refused for good
  Coarse,       \* tokens that are refused at a fidelity of one minute
  CoarseInstants, \* the instants left without a fidelity
  Minute, ChunkLength,
  LongestRange, \* what the API takes
  MinSplit,     \* MIN_SPLIT_WINDOW_SECONDS
  BatchSize, Workers, MaxInflight,
  Rates,        \* from the configured rate to the tuned one
  HardTimeout,  \* polls without a result that end the run
  Retries,      \* transient_retries
  Leg,          \* "match" or "futures"
  Failures        \* subset of {"transient", "disk", "audit", "busy"}

Tokens == DOMAIN Window

ASSUME FetchAssumption ==
  /\ Tokens \subseteq Nat \ {0} /\ IsFiniteSet(Tokens)
  /\ \A t \in Tokens : Window[t] \in [from : Nat, to : Nat] /\ Window[t].from < Window[t].to
  /\ \A t \in Tokens : History[t] \subseteq Nat
  /\ {Minute, ChunkLength, BatchSize, MaxInflight, HardTimeout, MinSplit} \subseteq Nat \ {0}
  /\ {Workers, Retries, LongestRange} \subseteq Nat /\ LongestRange >= MinSplit
  /\ Rates \subseteq Nat \ {0} /\ IsFiniteSet(Rates) /\ Rates # {}

VARIABLES
  gone,         \* the tokens whose requests are
  main,         \* the main thread: where it is, and the finished units it has seen
  queue,        \* units submitted to the pool that no worker has taken
  worker,       \* what each worker is fetching
  finished,     \* results of units the main thread has not taken
  rate, permits,\* the limiter
  idle,         \* polls since the last result, up to HardTimeout
  results,      \* retained results, by token
  cache,        \* the spilled rows by token
  audit,        \* the run's audit rows: the outcome of each token
  published,    \* the rows handed to the publisher
  sent,         \* history: requests since the limiter was last filled
  lost          \* history: tokens whose request failed for a while too long

pool == <<queue, worker, finished>>
pace == <<rate, permits, sent>>
outcome == <<results, cache, audit, published>>
fetchVars == <<gone, main, pool, pace, idle, outcome, lost>>

----------------------------------------------------------------------------
(* Work units *)

PaddedFrom(t) == (Window[t].from \div Minute) * Minute
PaddedTo(t)   == ((Window[t].to + Minute - 1) \div Minute) * Minute

(* Tokens of one exact window, BatchSize at a time. *)
Place(t) == Cardinality({s \in Tokens : Window[s] = Window[t] /\ s < t}) \div BatchSize

Unit(t) == {s \in Tokens : Window[s] = Window[t] /\ Place(s) = Place(t)}

Units == {Unit(t) : t \in Tokens}

Earlier(u, v) ==
  LET a == Window[Min(u)] b == Window[Min(v)]
  IN a.from < b.from \/ (a.from = b.from /\ (a.to < b.to \/ (a.to = b.to /\ Min(u) <= Min(v))))

First(us) == CHOOSE u \in us : \A v \in us : Earlier(u, v)

Running  == {worker[w].unit : w \in DOMAIN worker} \ {{}}
Consumed == {u \in Units : u \subseteq DOMAIN results}

(* Futures that are submitted and not yet taken by the main thread. *)
Inflight == queue \cup Running \cup DOMAIN finished

Unsubmitted == Units \ (Inflight \cup Consumed)

Task(kind, t, from, to) == [kind |-> kind, token |-> t, from |-> from, to |-> to]

(* A batch is one request; with a batch size of one, each token has its own.*)
ChunkTask(u, from) ==
  Task(IF BatchSize > 1 THEN "batch" ELSE "minute", Min(u), from, Min({from + ChunkLength, PaddedTo(Min(u))}))

NoWork == [unit |-> {}, tasks |-> <<>>, to |-> 0, active |-> {}, rows |-> <<>>, retry |-> 0]

WorkOn(u) ==
  LET task == ChunkTask(u, PaddedFrom(Min(u)))
  IN [unit |-> u, tasks |-> <<task>>, to |-> task.to, active |-> u, rows |-> [t \in u |-> {}], retry |-> 0]

(* The first MaxInflight units are submitted at once.                      *)
FetchInit ==
  /\ gone \in SUBSET Doubtful
  /\ main = [pc |-> "wait", done |-> {}]
  /\ \E us \in SUBSET Units :
       /\ Cardinality(us) = Min({MaxInflight, Cardinality(Units)})
       /\ \A u \in us : \A v \in Units \ us : Earlier(u, v)
       /\ queue = us
  /\ worker = [w \in 1..Workers |-> NoWork] /\ finished = <<>>
  /\ rate = Min(Rates) /\ permits = Min(Rates) /\ sent = 0 /\ idle = 0
  /\ results = <<>> /\ cache = <<>> /\ audit = <<>> /\ published = <<>> /\ lost = {}

----------------------------------------------------------------------------
(* Workers *)

TakeUnit(w) ==
  /\ worker[w] = NoWork /\ queue # {}
  /\ worker' = [worker EXCEPT ![w] = WorkOn(First(queue))]
  /\ queue' = queue \ {First(queue)}
  /\ UNCHANGED <<gone, main, finished, pace, idle, outcome, lost>>

FirstTask(w) == Head(worker[w].tasks)

IsBatch(w) == FirstTask(w).kind = "batch"

Asked(w) == IF IsBatch(w) THEN worker[w].active ELSE {FirstTask(w).token}

TooLong(w) == FirstTask(w).to - FirstTask(w).from > LongestRange

(* One bad token has the whole batch refused. *)
Refused(w) ==
  \/ Asked(w) \cap gone # {}
  \/ FirstTask(w).kind # "coarse" /\ Asked(w) \cap Coarse # {}

(* The prices of a range, both ends included. *)
Prices(t, task) ==
  {i \in History[t] : task.from <= i /\ i <= task.to /\ (task.kind = "coarse" => i \in CoarseInstants)}

AnyPermit == permits >= 0

HasPermit == permits >= 1

(* The worker waits for a permit of the limiter, sends and is answered; it *)
(* sends no more when no token is left to ask for.                         *)
Sends(w) ==
  /\ worker[w].tasks # <<>> /\ worker[w].active # {} /\ HasPermit
  /\ permits' = permits - 1 /\ sent' = sent + 1
  /\ UNCHANGED <<gone, main, queue, finished, rate, idle, outcome>>

(* Its tasks go on from the one at hand. *)
GoesOn(w, tasks) ==
  worker' = [worker EXCEPT ![w].tasks = tasks \o Tail(@), ![w].retry = 0]

Answered(w) ==
  /\ Sends(w) /\ ~TooLong(w) /\ ~Refused(w)
  /\ worker' = [worker EXCEPT ![w].tasks = Tail(@), ![w].retry = 0,
                  ![w].rows = [t \in DOMAIN @ |-> IF t \in Asked(w) THEN @[t] \cup Prices(t, FirstTask(w)) ELSE @[t]]]
  /\ UNCHANGED lost

LaterHalf(task) ==
  LET mid == task.from + (task.to - task.from) \div 2
  IN <<[task EXCEPT !.from = mid], [task EXCEPT !.from = mid]>>

Halves(task) ==
  LET mid == task.from + (task.to - task.from) \div 2
  IN <<[task EXCEPT !.to = mid], [task EXCEPT !.from = mid]>>

Halve(w) ==
  /\ Sends(w) /\ TooLong(w)
  /\ GoesOn(w, Halves(FirstTask(w)))
  /\ UNCHANGED lost

Ascending(S) ==
  CHOOSE ts \in [1..Cardinality(S) -> S] :
    (\A t \in S : \E k \in DOMAIN ts : ts[k] = t) /\ \A j, k \in DOMAIN ts : j < k => ts[j] < ts[k]

(* A refused batch is asked for token by token. *)
OneByOne(w) ==
  LET ts == Ascending(worker[w].active)
  IN [k \in DOMAIN ts |-> Task("minute", ts[k], FirstTask(w).from, FirstTask(w).to)]

Isolate(w) ==
  /\ Sends(w) /\ ~TooLong(w) /\ Refused(w) /\ IsBatch(w)
  /\ GoesOn(w, OneByOne(w))
  /\ UNCHANGED lost

(* A single token is asked for once more without a fidelity.               *)
DropFidelity(w) ==
  /\ Sends(w) /\ ~TooLong(w) /\ Refused(w) /\ FirstTask(w).kind = "minute" /\ FirstTask(w).token \notin gone
  /\ GoesOn(w, <<[FirstTask(w) EXCEPT !.kind = "coarse"]>>)
  /\ UNCHANGED lost

(* The next task that is not of these tokens alone. *)
NextOther(tasks, ts) ==
  Min({k \in 1..Len(tasks) + 1 : k <= Len(tasks) => tasks[k].kind = "batch" \/ tasks[k].token \notin ts})

(* A token that fails is dropped with what is left of its own range. *)
Drop(w, ts) ==
  LET rest == Tail(worker[w].tasks)
  IN worker' = [worker EXCEPT ![w].active = @ \ ts, ![w].retry = 0,
                  ![w].tasks = SubSeq(rest, NextOther(rest, ts), Len(rest))]

Permanent(w) ==
  /\ Sends(w) /\ ~TooLong(w) /\ ~IsBatch(w) /\ FirstTask(w).token \in gone
  /\ Drop(w, Asked(w))
  /\ UNCHANGED lost

Transient(w) ==
  /\ "transient" \in Failures /\ Sends(w)
  /\ IF worker[w].retry < Retries
     THEN worker' = [worker EXCEPT ![w].retry = @ + 1] /\ UNCHANGED lost
     ELSE Drop(w, Asked(w)) /\ lost' = lost \cup Asked(w)

NextChunk(w) ==
  LET task == ChunkTask(worker[w].unit, worker[w].to)
  IN /\ worker[w] # NoWork /\ worker[w].active # {} /\ worker[w].tasks = <<>>
     /\ worker[w].to < PaddedTo(Min(worker[w].unit))
     /\ worker' = [worker EXCEPT ![w].tasks = <<task>>, ![w].to = task.to]
     /\ UNCHANGED <<gone, main, queue, finished, pace, idle, outcome, lost>>

(* What is in the exact window counts. *)
InWindow(t, rows) == {i \in rows : Window[t].from <= i /\ i <= Window[t].to}

Result(w, t) ==
  LET rows == InWindow(t, worker[w].rows[t])
  IN IF t \notin worker[w].active THEN [status |-> "error", rows |-> {}]
     ELSE [status |-> IF rows = {} THEN "empty" ELSE "success", rows |-> rows]

Finish(w) ==
  LET u == worker[w].unit
  IN /\ worker[w] # NoWork
     /\ worker[w].active = {} \/ (worker[w].tasks = <<>> /\ worker[w].to = PaddedTo(Min(u)))
     /\ finished' = [v \in DOMAIN finished \cup {u} |->
                       IF v = u THEN [t \in u |-> Result(w, t)] ELSE finished[v]]
     /\ worker' = [worker EXCEPT ![w] = NoWork]
     /\ UNCHANGED <<gone, main, queue, pace, idle, outcome, lost>>

----------------------------------------------------------------------------
(* The main thread *)

Goes(pc) == main' = [pc |-> pc, done |-> {}]

(* When the run fails its queued units are cancelled; what the workers are *)
(* at they finish, for nobody.                                             *)
Fails ==
  /\ Goes("failed") /\ queue' = {} /\ cache' = <<>>
  /\ UNCHANGED <<worker, finished>>

(* The rate is tuned by what the last requests were answered; the limiter  *)
(* keeps its share of permits.                                             *)
Tune ==
  \E r \in Rates : rate' = r /\ permits' = (permits * r) \div rate

IdleFromStart(done) == IF done = {} THEN 0 ELSE idle

(* Only a result is progress. *)
IdleAfter(done) == IF done = {} THEN idle ELSE 0

Poll ==
  LET done == DOMAIN finished
  IN /\ main.pc = "wait" /\ Inflight # {}
     /\ Tune /\ idle' = IdleAfter(done)
     /\ IF done = {} /\ IdleAfter(done) = HardTimeout
        THEN Fails
        ELSE /\ main' = IF done = {} THEN main ELSE [pc |-> "take", done |-> done]
             /\ UNCHANGED <<pool, cache>>
     /\ UNCHANGED <<gone, sent, results, audit, published, lost>>

(* For each unit that was taken the next one is submitted. *)
Submit(left) == IF left = {} THEN {} ELSE {First(left)}

(* The results of a unit are spilled and retained, without their rows.     *)
Take(u) ==
  LET good == {t \in u : finished[u][t].rows # {}}
  IN /\ main.pc = "take" /\ u \in main.done
     /\ \/ /\ cache' = [t \in DOMAIN cache \cup good |-> IF t \in u THEN finished[u][t].rows ELSE cache[t]]
           /\ results' = [t \in DOMAIN results \cup u |->
                            IF t \in u THEN finished[u][t].status ELSE results[t]]
           /\ finished' = [v \in DOMAIN finished \ {u} |-> finished[v]]
           /\ queue' = queue \cup Submit(Unsubmitted)
           /\ main' = [pc |-> IF main.done = {u} THEN "wait" ELSE "take", done |-> main.done \ {u}]
           /\ UNCHANGED worker
        \/ "disk" \in Failures /\ Fails /\ UNCHANGED results
     /\ UNCHANGED <<gone, pace, idle, audit, published, lost>>

EndOfStream ==
  /\ main.pc = "wait" /\ Inflight = {} /\ Goes("audit")
  /\ UNCHANGED <<gone, pool, pace, idle, outcome, lost>>

(* A match needs every token, futures may be without a price.              *)
Acceptable == IF Leg = "match" THEN {"success"} ELSE {"success", "empty"}

(* Every outcome is audited.  A failing run removes its cache; one that    *)
(* cannot have the warehouse does not.                                     *)
Audit ==
  /\ main.pc = "audit"
  /\ \/ /\ audit' = results
        /\ IF {results[t] : t \in DOMAIN results} \subseteq Acceptable /\ \E t \in DOMAIN results : results[t] = "success"
           THEN Goes("publish") /\ UNCHANGED cache
           ELSE Goes("failed") /\ cache' = <<>>
     \/ "audit" \in Failures /\ Goes("failed") /\ cache' = <<>> /\ UNCHANGED audit
     \/ "busy" \in Failures /\ Goes("refused") /\ UNCHANGED <<cache, audit>>
  /\ UNCHANGED <<gone, pool, pace, idle, results, published, lost>>

Publish ==
  /\ main.pc = "publish"
  /\ \/ published' = cache /\ Goes("published")
     \/ "busy" \in Failures /\ Goes("failed") /\ UNCHANGED published
  /\ cache' = <<>>
  /\ UNCHANGED <<gone, pool, pace, idle, results, audit, lost>>

(* Time passes: the limiter fills up.                                      *)
Tick ==
  /\ main.pc \in {"wait", "take"}
  /\ permits' = rate /\ sent' = 0
  /\ idle' = Min({idle + 1, HardTimeout})
  /\ UNCHANGED <<gone, main, pool, rate, outcome, lost>>

----------------------------------------------------------------------------
Main == Poll \/ (\E u \in main.done : Take(u)) \/ EndOfStream \/ Audit \/ Publish

FetchNext ==
  \/ \E w \in 1..Workers :
       \/ TakeUnit(w) \/ Answered(w) \/ Halve(w) \/ Isolate(w) \/ DropFidelity(w)
       \/ Permanent(w) \/ Transient(w) \/ NextChunk(w) \/ Finish(w)
  \/ Main \/ Tick

(* Nothing is assumed of the workers: a request may hang. *)
FetchSpec == FetchInit /\ [][FetchNext]_fetchVars /\ WF_fetchVars(Main) /\ WF_fetchVars(Tick)

----------------------------------------------------------------------------
(* Properties *)

Ended == {"published", "failed", "refused"}

FetchTypeOK ==
  /\ main.pc \in Ended \cup {"wait", "take", "audit", "publish"} /\ main.done \subseteq DOMAIN finished
  /\ rate \in Rates /\ permits \in 0..rate /\ idle \in 0..HardTimeout
  /\ \A w \in 1..Workers : worker[w].active \subseteq worker[w].unit

(* Every planned token is in the audit of a run that ends with one, and a  *)
(* unit is at one place at a time: waiting, with one worker, or finished.  *)
EachTokenOnce ==
  /\ main.pc \in {"audit", "publish", "published"} => DOMAIN results = Tokens
  /\ \A w \in 1..Workers : worker[w].unit # {} =>
       worker[w].unit \notin queue \cup DOMAIN finished \cup {worker[v].unit : v \in (1..Workers) \ {w}}

(* What can be had of a token in its window. *)
Available(t) == InWindow(t, History[t] \cap (IF t \in Coarse THEN CoarseInstants ELSE History[t]))

(* A token that is fetched has every price of its window, however its      *)
(* chunks were halved, repeated or isolated from those of other tokens.    *)
SuccessIsComplete ==
  \A t \in DOMAIN cache : cache[t] = Available(t)

(* What is spilled, and what is published, are the rows of the successes.  *)
RowsAreResults ==
  /\ main.pc \notin Ended => DOMAIN cache = {t \in DOMAIN results : results[t] = "success"}
  /\ main.pc = "published" =>
       published = [t \in {s \in Tokens : Available(s) # {} /\ s \notin gone} |-> Available(t)]

(* An error is the token's own: it is gone, or its own request failed too  *)
(* often; a bad token in its batch is no reason.                           *)
ErrorsAreEarned ==
  \A t \in DOMAIN results : results[t] = "error" => t \in gone \cup lost

(* All workers together keep to the rate between two fillings, whenever it *)
(* is tuned.                                                               *)
IsPaced == sent <= Max(Rates)

(* No more than MaxInflight units have been handed to the pool and not yet *)
(* taken from it, so that results do not pile up in memory.                *)
InflightIsBounded == Cardinality(Inflight) <= MaxInflight

(* A run that ended leaves no cache behind, unless the warehouse was taken.*)
CacheIsRemoved == main.pc \in {"published", "failed"} => cache = <<>>

(* Every run ends, whatever its workers do: one that gets no results is    *)
(* ended by the guardrail.                                                 *)
RunEnds == <>(main.pc \in Ended)

(* A run's audit is right token by token: each is in it once, with all its  *)
(* prices or with an error of its own, and its rows are what is published.  *)
OutcomesAreTrue ==
  FetchTypeOK /\ EachTokenOnce /\ SuccessIsComplete /\ RowsAreResults /\ ErrorsAreEarned

(* A run stays within what it may use: requests, memory and disk.           *)
StaysInBounds == IsPaced /\ InflightIsBounded /\ CacheIsRemoved
=============================================================================
