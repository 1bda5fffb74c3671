--------------------------- MODULE PipelinesProofs ---------------------------
(***************************************************************************)
(* What the pipelines promise, for any number of runs, keys, markets and    *)
(* hours: the next build makes the tables whole whatever became of those    *)
(* before it, what the Kalshi pipeline says it has is stored, and the run    *)
(* ledger of the soccer jobs tells how a run went.                          *)
(***************************************************************************)
EXTENDS Pipelines, FiniteSetTheorems, WellFoundedInduction, TLAPS

------------------------------------------------------------------------------
(* Parents and children *)

OnRuns(f) == DOMAIN f = Runs /\ f = [r \in Runs |-> f[r]]

Tables   == {"hourly", "observed", "dense", "candles"}
Outside  == {"markets", "registry", "candles", "dbt", "collect", "extract", "load", "metrics",
             "fetching", "fetched", "saved"} \cup Ended
Preparing == {"recover", "relaunch", "unmark", "mark", "launch", "clear"}
Places   == Outside \cup Preparing \cup {"recovering", "building"}

(* What a child may have left to do, by what it is for.                    *)
BuildTodo == {Models, << >>} \cup (IF Len(Models) = 2 THEN {<<Models[2]>>} ELSE {})
Children == [todo : Seq(Tables), full : BOOLEAN, for : {"nothing", "build", "recovery"}]
ChildOK(c) ==
  /\ c \in Children
  /\ \/ c = NoChild
     \/ c.for = "build" /\ c.todo \in BuildTodo
     \/ c.for = "recovery" /\ c.full = TRUE /\ c.todo \in {<< >>} \cup {<<g>> : g \in Range(Guarded)}

(* The place of a live parent and what its child is for agree.             *)
ParentOK(r) ==
  /\ pc[r] = "recovering" =>
       child[r].for = "recovery" /\ at[r] \in DOMAIN Guarded /\ child[r].todo \in {<< >>, <<Guarded[at[r]]>>}
  /\ pc[r] = "building" => child[r].for = "build" /\ child[r].full = full[r]
  /\ pc[r] \in {"relaunch", "unmark"} => at[r] \in DOMAIN Guarded
  /\ pc[r] \notin {"recovering", "building", "failed"} => child[r] = NoChild
  /\ at[r] \in 1..Len(Guarded) + 1

Family ==
  /\ pc \in [Runs -> Places] /\ at \in [Runs -> Nat] /\ full \in [Runs -> BOOLEAN]
  /\ OnRuns(child) /\ lock \in Runs \cup {NoRun}
  /\ marks \subseteq Range(Guarded) /\ broken \subseteq Range(Models) /\ overlapped \in BOOLEAN
  /\ \A r \in Runs : ChildOK(child[r]) /\ ParentOK(r) /\ (child[r] # NoChild <=> lock = r)

(* Builds are one at a time, save that one may wait for the child of a run  *)
(* that has died.                                                          *)
OneBuild ==
  ~overlapped => \A q, r \in Runs : q # r /\ Building(q) =>
    /\ ~Building(r)
    /\ child[r] # NoChild => at[q] = 1 /\ (pc[q] = "recover" \/ (pc[q] = "launch" /\ full[q]))

(* An incremental build starts from tables none of which is half written,   *)
(* with all its marks set; a recovery goes on when its model is whole.      *)
Clean ==
  ~overlapped =>
    /\ broken \cap Range(Guarded) \subseteq marks
    /\ \A r \in Runs :
         /\ pc[r] \in {"recover", "relaunch", "recovering", "unmark"} =>
              \A i \in DOMAIN Guarded : i < at[r] => Guarded[i] \notin broken
         /\ pc[r] = "unmark" \/ (pc[r] = "recovering" /\ child[r].todo = << >>) => Guarded[at[r]] \notin broken
         /\ pc[r] \in {"mark", "clear"} \/ (pc[r] = "launch" /\ ~full[r]) \/ (child[r].for = "build" /\ ~child[r].full) =>
              broken \cap Range(Guarded) = {}
         /\ pc[r] = "mark" => \A i \in DOMAIN Guarded : i < at[r] => Guarded[i] \in marks
         /\ (pc[r] = "launch" /\ ~full[r]) \/ (child[r].for = "build" /\ ~child[r].full) =>
              Range(Guarded) \subseteq marks
         /\ child[r].todo = <<"dense">> => "observed" \notin broken

(* Rows *)

Fits(table) ==
  /\ table = [k \in DOMAIN table |-> table[k]]
  /\ \A k \in DOMAIN table : table[k] \in Row /\ (scope # "soccer" => table[k].stamp <= now)

Stamped ==
  /\ now \in Time
  /\ \A k \in DOMAIN raw : raw[k] \in Nat /\ (scope # "soccer" => raw[k] <= now)
  /\ DOMAIN tables = Tables /\ tables = [m \in Tables |-> tables[m]]
  /\ \A m \in Tables : Fits(tables[m])
  /\ scope = "kalshi" => DOMAIN raw \subseteq Markets \X Time

IsWhole(table) == \A k \in DOMAIN table : table[k].whole

(* What a model does not look for again is in its table as it is in its     *)
(* source.                                                                 *)
HourlySettled ==
  scope = "wc2026" /\ "hourly" \notin broken =>
    /\ DOMAIN tables["hourly"] \subseteq DOMAIN raw
    /\ \A k \in DOMAIN raw : raw[k] < Horizon(tables["hourly"]) =>
         k \in DOMAIN tables["hourly"] /\ tables["hourly"][k] = [stamp |-> raw[k], whole |-> TRUE]

CandlesSettled ==
  scope = "kalshi" /\ "candles" \notin broken =>
    /\ DOMAIN tables["candles"] \subseteq DOMAIN raw
    /\ \A k \in DOMAIN raw : k[2] >= now - Window /\ raw[k] < Horizon(tables["candles"]) =>
         k \in DOMAIN tables["candles"] /\ tables["candles"][k] = [stamp |-> raw[k], whole |-> TRUE]

StatesSettled ==
  /\ "observed" \notin broken => IsWhole(tables["observed"])
  /\ ~overlapped /\ "dense" \notin broken => IsWhole(tables["dense"])

Settled == HourlySettled /\ CandlesSettled /\ StatesSettled

(* Beside jobs nothing is built and nothing is fetched.                     *)
Quiet ==
  /\ ledger = << >>
  /\ now = 0 /\ raw = << >> /\ tables = [m \in Tables |-> << >>] /\ marks = {} /\ broken = {}
  /\ ~overlapped /\ at = [r \in Runs |-> 1] /\ full = [r \in Runs |-> FALSE]
  /\ lock \in Runs \cup {NoRun} /\ OnRuns(child)
  /\ \A r \in Runs : child[r] # NoChild <=> lock = r

------------------------------------------------------------------------------
(* The Kalshi pipeline *)

Collecting == {"collect", "extract", "load"}
Fetching   == {"fetching", "fetched", "saved"}

Memory ==
  /\ scope # "kalshi" =>
       registry = {} /\ landed = {} /\ pending = NoPackage /\ ledger = << >>
       /\ \A r \in Runs : pc[r] \notin Outside \ (Ended \cup {"dbt"})
  /\ last \in [Runs -> {"registry", "candles", "dbt"}]
  /\ collected \in [Runs -> SUBSET registry]
  /\ OnRuns(fetch)
  /\ \A r \in Runs : pc[r] \notin Fetching => fetch[r] = NoFetch
  /\ \A r \in Runs : /\ DOMAIN fetch[r].from \subseteq registry /\ fetch[r].end \in Time /\ fetch[r].end <= now
                     /\ \A m \in DOMAIN fetch[r].from : fetch[r].from[m] \in Int
                     /\ fetch[r] = [from |-> fetch[r].from, hours |-> fetch[r].hours, end |-> fetch[r].end, stamp |-> fetch[r].stamp]
                     /\ fetch[r].stamp \in Nat /\ fetch[r].stamp <= now
  /\ registry \subseteq Listed /\ landed \subseteq registry /\ pending.markets \subseteq registry
  /\ refreshed \in BOOLEAN /\ DOMAIN ledger \subseteq registry
  /\ \A m \in DOMAIN ledger : ledger[m].next \in Nat /\ ledger[m].end \in Time

(* A package that is under way is that of the one run that collects.       *)
OnePackage ==
  ~overlapped =>
    /\ \A q, r \in Runs : {pc[q], pc[r]} \subseteq Collecting => q = r
    /\ \A r \in Runs : /\ pc[r] \in {"collect", "extract"} => pending = NoPackage
                       /\ pc[r] = "load" => collected[r] \subseteq pending.markets
                       /\ pc[r] = "metrics" => collected[r] \subseteq landed

(* What is fetched is fresh and reaches back as far as the ledger will say. *)
FetchReaches ==
  \A r \in Runs :
    /\ pc[r] = "fetched" => now <= fetch[r].stamp + MaxLatency
    /\ \A m \in DOMAIN fetch[r].from :
         Hours(m, fetch[r].end - fetch[r].hours, fetch[r].end) \subseteq Hours(m, fetch[r].from[m], fetch[r].end)
    /\ pc[r] = "saved" => \A m \in DOMAIN fetch[r].from :
         \A h \in Hours(m, fetch[r].end - fetch[r].hours, fetch[r].end) : <<m, h>> \in DOMAIN raw

------------------------------------------------------------------------------
(* The soccer jobs *)

AtStep == {"open", "opened", "work", "build", "finish", "close"}

Met(r, s) == \A n \in Needs(s) \cap StepsOf(job[r]) : n \in DOMAIN over[r] /\ over[r][n] = "ok"

(* A job and its steps.                                                    *)
JobOK(r) ==
  /\ pc[r] \in AtStep \cup {"idle", "between", "done"}
  /\ job[r] \in Jobs \cup {"none"} /\ (job[r] = "none" <=> pc[r] = "idle")
  /\ job[r] = "none" => over[r] = << >> /\ stepRow[r] = << >> /\ runRow[r] = "none"
  /\ current[r] \in Monitored \cup {"none"} /\ (pc[r] \in AtStep <=> current[r] # "none")
  /\ current[r] # "none" => current[r] \in StepsOf(job[r]) \ DOMAIN over[r] /\ Met(r, current[r])
  /\ outcome[r] \in Verdicts \cup {"none"} /\ (outcome[r] = "none" <=> pc[r] \notin {"finish", "close"})
  /\ outcome[r] = "partial" => current[r] = "minute"
  /\ runRow[r] \in Verdicts \cup {"none", "running"}
  /\ pc[r] \in AtStep \ {"open"} => runRow[r] = "running"
  /\ job[r] # "none" => DOMAIN over[r] \subseteq StepsOf(job[r])
  /\ \A s \in DOMAIN over[r] : over[r][s] \in {"ok", "bad"} /\ Met(r, s)

(* The rows of its steps.                                                  *)
RowsOK(r) ==
  /\ \A s \in DOMAIN stepRow[r] : /\ stepRow[r][s] \in Verdicts \cup {"running"}
                                  /\ s \in Checks => stepRow[r][s] = "failed"
  /\ pc[r] = "close" => current[r] \in DOMAIN stepRow[r] /\ stepRow[r][current[r]] = outcome[r]
  /\ \A s \in DOMAIN over[r] \cap Monitored : over[r][s] = "ok" =>
       s \in DOMAIN stepRow[r] /\ stepRow[r][s] \in {"success", "partial"}

(* What the row of an undisturbed run says of its steps.                   *)
VerdictOK(r) ==
  ~disturbed[r] /\ job[r] \in {"registry", "full"} =>
    /\ Terminal(job[r]) \in DOMAIN over[r] => runRow[r] \in Verdicts
    /\ \A s \in Behind(job[r]) \cap DOMAIN over[r] : over[r][s] = "bad" => runRow[r] \in {"failed", "interrupted"}

(* The row of one run is honest.                                           *)
EarnedBy(r) ==
  runRow[r] = "success" =>
    /\ "partial" \notin Range(stepRow[r])
    /\ Terminal(job[r]) \in DOMAIN stepRow[r] /\ stepRow[r][Terminal(job[r])] = "success"
    /\ \A s \in Behind(job[r]) : /\ s \in DOMAIN over[r] /\ over[r][s] = "ok"
                                 /\ s \in Monitored => stepRow[r][s] = "success"

ReachedBy(r) ==
  pc[r] = "done" /\ ~disturbed[r] /\ job[r] \in {"registry", "full"} => runRow[r] \in Verdicts

RunOK(r) == JobOK(r) /\ RowsOK(r) /\ VerdictOK(r) /\ EarnedBy(r) /\ ReachedBy(r)

Types ==
  /\ OnRuns(job) /\ OnRuns(current) /\ OnRuns(outcome) /\ OnRuns(over) /\ OnRuns(stepRow) /\ OnRuns(runRow)
  /\ disturbed \in [Runs -> BOOLEAN]
  /\ pc \in [Runs -> AtStep \cup {"idle", "between", "done"}]

Ledgers == Types /\ \A r \in MonitoredRuns : RunOK(r)

NoJobs == \A r \in Runs : job[r] = "none" /\ runRow[r] = "none"

------------------------------------------------------------------------------
(* The inductive invariant *)

BuildInv  == Family /\ OneBuild /\ Clean /\ Stamped /\ Settled
KalshiInv == Memory /\ OnePackage /\ FetchReaches /\ CheckedHoursAreStored

Inv ==
  /\ scope \in Scopes
  /\ IF scope = "jobs" THEN Quiet /\ Ledgers ELSE BuildInv /\ KalshiInv /\ NoJobs

------------------------------------------------------------------------------
(* Models and rows *)

(* A set of numbers has a smallest one.                                    *)
LEMMA Smallest ==
  ASSUME NEW S \in SUBSET Nat, S # {}
  PROVE  \E x \in S : \A y \in S : x <= y
<1> DEFINE R == StrictSubsetOrdering(Nat)
           T == {0..x : x \in S}
<1>1. \A x, y \in Nat : y < x => <<0..y, 0..x>> \in R
  <2> TAKE x, y \in Nat
  <2> HAVE y < x
  <2>1. 0..y \in SUBSET Nat /\ 0..x \in SUBSET Nat /\ 0..y \subseteq 0..x
    OBVIOUS
  <2>2. x \in 0..x /\ x \notin 0..y
    OBVIOUS
  <2>3. 0..y # 0..x
    BY <2>2
  <2> QED BY <2>1, <2>3 DEF StrictSubsetOrdering
<1>2. T \subseteq FiniteSubsetsOf(Nat) /\ T # {}
  <2>1. \A x \in S : 0..x \in FiniteSubsetsOf(Nat)
    <3> TAKE x \in S
    <3>1. IsFiniteSet(0..x)
      BY FS_Interval
    <3>2. 0..x \in SUBSET Nat
      OBVIOUS
    <3> QED BY <3>1, <3>2 DEF FiniteSubsetsOf
  <2> QED BY <2>1
<1>3. \E t \in T : \A u \in T : ~(<<u, t>> \in R)
  <2> HIDE DEF R, T
  <2>1. IsWellFoundedOn(R, FiniteSubsetsOf(Nat))
    BY FS_StrictSubsetOrderingWellFounded DEF R
  <2> QED BY <1>2, <2>1, WFMin
<1> HIDE DEF R
<1>4. PICK x \in S : \A y \in S : ~(<<0..y, 0..x>> \in R)
  <2>1. \A x \in S : 0..x \in T
    OBVIOUS
  <2>2. PICK t \in T : \A u \in T : ~(<<u, t>> \in R)
    BY <1>3
  <2>3. PICK x \in S : t = 0..x
    BY <2>2
  <2> QED BY <2>1, <2>2, <2>3
<1>5. \A y \in S : x <= y
  <2> TAKE y \in S
  <2>1. x \in Nat /\ y \in Nat /\ ~(y < x)
    BY <1>1, <1>4
  <2> QED BY <2>1
<1> QED BY <1>5

(* The models of each scope, and those that are marked.                    *)
LEMMA ModelsOf ==
  ASSUME scope \in Scopes
  PROVE  /\ scope \in {"wc2026", "soccer", "kalshi", "jobs"}
         /\ scope = "wc2026" => Models = <<"hourly">> /\ Guarded = Models
         /\ scope \in {"soccer", "jobs"} => Models = <<"observed", "dense">> /\ Guarded = Models
         /\ scope = "kalshi" => Models = <<"candles">> /\ Guarded = << >>
         /\ Len(Models) \in 1..2 /\ DOMAIN Models = 1..Len(Models) /\ Len(Guarded) \in 0..2
         /\ DOMAIN Guarded = 1..Len(Guarded) /\ Range(Guarded) \subseteq Range(Models)
         /\ Range(Models) \subseteq Tables /\ Len(Guarded) <= Len(Models)
         /\ \A i \in DOMAIN Guarded : Guarded[i] \in Range(Guarded)
         /\ Models \in Seq(Tables)
<1>1. scope \in {"wc2026", "soccer", "kalshi", "jobs"}
  BY ScopeAssumption
<1>2. CASE scope = "wc2026"
  BY <1>2 DEF Models, Guarded, Range, Tables
<1>3. CASE scope \in {"soccer", "jobs"}
  <2>1. Models = <<"observed", "dense">> /\ Guarded = Models
    BY <1>3 DEF Models, Guarded
  <2>2. Len(Models) = 2 /\ DOMAIN Models = 1..2 /\ Models[1] = "observed" /\ Models[2] = "dense"
    BY <2>1
  <2>4. Models \in Seq(Tables)
    BY <2>1 DEF Tables
  <2>3. Range(Models) \subseteq Tables /\ \A i \in 1..2 : Models[i] \in Range(Models)
    BY <2>2 DEF Range, Tables
  <2> QED BY <1>3, <2>1, <2>2, <2>3, <2>4
<1>4. CASE scope = "kalshi"
  BY <1>4 DEF Models, Guarded, Range, Tables
<1> QED BY <1>1, <1>2, <1>3, <1>4

LEMMA ModelsStay ==
  ASSUME scope' = scope
  PROVE  Models' = Models /\ Guarded' = Guarded /\ Range(Guarded)' = Range(Guarded)
         /\ Range(Models)' = Range(Models) /\ BuildTodo' = BuildTodo
<1>1. Models' = Models /\ Guarded' = Guarded
  BY DEF Models, Guarded
<1> QED BY <1>1 DEF BuildTodo

(* The newest row is no newer than any of them may be.                     *)
LEMMA NewestIsBounded ==
  ASSUME NEW table, NEW n \in Nat, \A k \in DOMAIN table : table[k].stamp \in 0..n
  PROVE  Newest(table) \in 0..n
<1> DEFINE S == {0} \cup {table[k].stamp : k \in DOMAIN table}
           U == {x \in Nat : \A y \in S : y <= x}
<1>1. S \subseteq 0..n /\ S # {}
  OBVIOUS
<1>2. PICK x \in U : \A y \in U : x <= y
  <2>1. n \in U /\ U \in SUBSET Nat
    BY <1>1
  <2> HIDE DEF U
  <2> QED BY <2>1, Smallest
<1>3. x \in S
  <2> SUFFICES ASSUME x \notin S PROVE FALSE
    OBVIOUS
  <2>1. x # 0 /\ \A y \in S : y \in Nat /\ y <= x /\ y # x
    BY <1>1, <1>2
  <2>2. x - 1 \in U
    <3>1. x - 1 \in Nat
      BY <1>2, <2>1
    <3>2. \A y \in S : y <= x - 1
      BY <1>2, <2>1
    <3> QED BY <3>1, <3>2
  <2> QED BY <1>2, <2>2
<1>4. \A y \in S : x >= y
  BY <1>1, <1>2
<1>5. Max(S) \in S
  BY <1>3, <1>4 DEF Max
<1> QED BY <1>1, <1>5 DEF Newest

------------------------------------------------------------------------------
(* Steps outside the builds *)

LEMMA BuildingIs ==
  ASSUME NEW r \in Runs
  PROVE  /\ Building(r) <=> pc[r] \in Preparing \cup {"recovering", "building"}
         /\ Live(r) <=> pc[r] \notin Ended
         /\ pc[r] \in Outside => ~Building(r)
BY DEF Building, Preparing, Live, Outside, Ended

(* A run goes on outside its build, to its dbt step at most.               *)
Elsewhere(r, place) ==
  /\ pc[r] \in Outside \ {"failed"} /\ place \in Outside
  /\ pc' = [pc EXCEPT ![r] = place] /\ at' \in {at, [at EXCEPT ![r] = 1]}
  /\ UNCHANGED <<scope, full, marks, lock, child, broken>>
  /\ overlapped' \in BOOLEAN /\ (overlapped => overlapped')

LEMMA ElsewhereKeeps ==
  ASSUME scope \in Scopes, Family, OneBuild, Clean, NEW r \in Runs, NEW place, Elsewhere(r, place)
  PROVE  Family' /\ OneBuild' /\ Clean'
<1>1. Models' = Models /\ Guarded' = Guarded /\ BuildTodo' = BuildTodo
  BY ModelsStay DEF Elsewhere
<1>2. \A q \in Runs : q # r => pc'[q] = pc[q] /\ at'[q] = at[q]
  BY DEF Elsewhere, Family
<1>3. pc'[r] = place /\ at'[r] \in {at[r], 1} /\ child[r] = NoChild
  <2>1. pc[r] \notin {"recovering", "building", "failed"}
    BY DEF Elsewhere, Outside, Ended
  <2> QED BY <2>1 DEF Elsewhere, Family, ParentOK
<1>4. Family'
  <2>1. pc' \in [Runs -> Places] /\ at' \in [Runs -> Nat]
    BY DEF Elsewhere, Family, Places
  <2>2. \A q \in Runs : ChildOK(child[q])'
    BY <1>1 DEF Elsewhere, Family, ChildOK
  <2>3. ASSUME NEW q \in Runs PROVE ParentOK(q)'
    <3>1. CASE q = r
      <4>1. at'[r] \in 1..Len(Guarded) + 1
        <5>1. at[r] \in 1..Len(Guarded) + 1
          BY DEF Family, ParentOK
        <5>2. Len(Guarded) \in Nat
          BY ModelsOf
        <5> QED BY <1>3, <5>1, <5>2
      <4>2. place \notin {"recovering", "building", "relaunch", "unmark"}
        BY DEF Elsewhere, Outside, Ended
      <4> QED BY <1>1, <1>3, <3>1, <4>1, <4>2 DEF ParentOK, Elsewhere
    <3>2. CASE q # r
      BY <1>1, <1>2, <3>2 DEF ParentOK, Family, Elsewhere
    <3> QED BY <3>1, <3>2
  <2> QED BY <1>1, <2>1, <2>2, <2>3 DEF Elsewhere, Family, OnRuns
<1>5. ~Building(r) /\ ~Building(r)' /\ \A q \in Runs : q # r => (Building(q)' <=> Building(q))
  <2>1. place \in Outside /\ pc[r] \in Outside
    BY DEF Elsewhere
  <2> QED BY <1>2, <1>3, <2>1 DEF Building, Outside, Ended
<1>6. OneBuild'
  BY <1>2, <1>5 DEF OneBuild, Elsewhere
<1>7. Clean'
  <2> SUFFICES ASSUME ~overlapped' PROVE Clean'
    BY DEF Clean
  <2>1. ~overlapped
    BY DEF Elsewhere
  <2>2. place \notin {"recover", "relaunch", "recovering", "unmark", "mark", "clear", "launch"}
    BY DEF Elsewhere, Outside, Ended
  <2> QED BY <1>1, <1>2, <1>3, <2>1, <2>2 DEF Clean, Elsewhere
<1> QED BY <1>4, <1>6, <1>7

(* A run ends where it is; its child, if it has one, goes on.              *)
Dies(r) ==
  /\ Live(r) /\ pc' = [pc EXCEPT ![r] = "failed"] /\ at' = [at EXCEPT ![r] = 1]
  /\ UNCHANGED <<scope, full, marks, lock, child, broken, overlapped>>

LEMMA DiesKeeps ==
  ASSUME scope \in Scopes, Family, OneBuild, Clean, NEW r \in Runs, Dies(r)
  PROVE  Family' /\ OneBuild' /\ Clean'
<1>1. Models' = Models /\ Guarded' = Guarded /\ BuildTodo' = BuildTodo
  BY ModelsStay DEF Dies
<1>2. \A q \in Runs : q # r => pc'[q] = pc[q] /\ at'[q] = at[q]
  BY DEF Dies, Family
<1>3. pc'[r] = "failed" /\ at'[r] = 1
  BY DEF Dies, Family
<1>4. Family'
  <2>1. pc' \in [Runs -> Places] /\ at' \in [Runs -> Nat]
    BY DEF Dies, Family, Places, Outside, Ended
  <2>2. \A q \in Runs : ChildOK(child[q])'
    BY <1>1 DEF Dies, Family, ChildOK
  <2>3. ASSUME NEW q \in Runs PROVE ParentOK(q)'
    <3>1. CASE q = r
      <4>1. 1 \in 1..Len(Guarded) + 1
        BY ModelsOf
      <4> QED BY <1>1, <1>3, <3>1, <4>1 DEF ParentOK, Dies
    <3>2. CASE q # r
      BY <1>1, <1>2, <3>2 DEF ParentOK, Family, Dies
    <3> QED BY <3>1, <3>2
  <2> QED BY <1>1, <2>1, <2>2, <2>3 DEF Dies, Family, OnRuns
<1>5. ~Building(r)' /\ \A q \in Runs : q # r => (Building(q)' <=> Building(q))
  BY <1>2, <1>3 DEF Building
<1>6. OneBuild'
  BY <1>2, <1>5 DEF OneBuild, Dies
<1>7. Clean'
  <2> SUFFICES ASSUME ~overlapped' PROVE Clean'
    BY DEF Clean
  <2>1. ~overlapped
    BY DEF Dies
  <2> QED BY <1>1, <1>2, <1>3, <2>1 DEF Clean, Dies
<1> QED BY <1>4, <1>6, <1>7

------------------------------------------------------------------------------
(* Steps of a build *)

LEMMA FamilyKept ==
  ASSUME Family, scope' = scope, NEW r \in Runs,
         pc' \in [Runs -> Places], at' \in [Runs -> Nat], full' \in [Runs -> BOOLEAN], OnRuns(child'),
         \A q \in Runs : q # r =>
           pc'[q] = pc[q] /\ at'[q] = at[q] /\ full'[q] = full[q] /\ child'[q] = child[q],
         marks' \subseteq Range(Guarded), broken' \subseteq Range(Models), overlapped' \in BOOLEAN,
         ChildOK(child[r])', ParentOK(r)', lock' \in Runs \cup {NoRun},
         \A q \in Runs : child'[q] # NoChild <=> lock' = q
  PROVE  Family'
<1>1. Models' = Models /\ Guarded' = Guarded /\ BuildTodo' = BuildTodo
  BY ModelsStay
<1>2. ASSUME NEW q \in Runs, q # r PROVE ChildOK(child[q])' /\ ParentOK(q)'
  <2>1. ChildOK(child[q]) /\ ParentOK(q)
    BY DEF Family
  <2>2. ChildOK(child[q])'
    BY <1>1, <1>2, <2>1 DEF ChildOK
  <2>3. ParentOK(q)'
    BY <1>1, <1>2, <2>1 DEF ParentOK
  <2> QED BY <2>2, <2>3
<1>3. marks' \subseteq Range(Guarded)' /\ broken' \subseteq Range(Models)'
  BY ModelsStay
<1> QED BY <1>2, <1>3 DEF Family

LEMMA Freed ==
  ASSUME Family, lock = NoRun
  PROVE  \A q \in Runs : child[q] = NoChild
<1>1. \A q \in Runs : lock # q
  BY RunsAssumption DEF NoRun
<1> QED BY <1>1 DEF Family

LEMMA NoChildIs == NoChild.for = "nothing" /\ NoChild.todo = << >> /\ NoChild \in Children
BY DEF NoChild, Children

(* A parent moves on while nobody holds the warehouse.                     *)
Alone(r, place, index) ==
  /\ Building(r) /\ lock = NoRun /\ Goto(r, place, index)
  /\ place \in Places \ {"recovering", "building"} /\ index \in 1..Len(Guarded) + 1
  /\ place \in {"relaunch", "unmark"} => index \in DOMAIN Guarded
  /\ UNCHANGED <<scope, child, lock, broken, overlapped>> /\ marks' \subseteq Range(Guarded)

LEMMA AloneKeeps ==
  ASSUME scope \in Scopes, Family, OneBuild, NEW r \in Runs, NEW place, NEW index, Alone(r, place, index)
  PROVE  /\ Family' /\ OneBuild' /\ \A q \in Runs : child[q] = NoChild
         /\ pc'[r] = place /\ at'[r] = index
         /\ \A q \in Runs : q # r => pc'[q] = pc[q] /\ at'[q] = at[q]
         /\ \A q \in Runs : q # r /\ ~overlapped => ~Building(q)
<1>1. Models' = Models /\ Guarded' = Guarded
  BY ModelsStay DEF Alone
<1>2. /\ pc'[r] = place /\ at'[r] = index
      /\ \A q \in Runs : q # r => pc'[q] = pc[q] /\ at'[q] = at[q]
  BY DEF Alone, Goto, Family
<1>3. \A q \in Runs : child[q] = NoChild
  BY Freed DEF Alone
<1>4. index \in Nat
  BY ModelsOf DEF Alone
<1>5. ParentOK(r)'
  BY <1>1, <1>2, <1>3 DEF ParentOK, Alone
<1>6. ChildOK(child[r])'
  BY <1>3, NoChildIs DEF ChildOK, Alone
<1>7. Family'
  <2>1. pc' \in [Runs -> Places] /\ at' \in [Runs -> Nat] /\ full' = full /\ full \in [Runs -> BOOLEAN]
    BY <1>4 DEF Alone, Goto, Family
  <2>2. OnRuns(child') /\ \A q \in Runs : child'[q] # NoChild <=> lock' = q
    BY DEF Alone, Family, OnRuns
  <2> QED BY <1>2, <1>5, <1>6, <2>1, <2>2, FamilyKept DEF Alone, Family
<1>8. \A q \in Runs : q # r /\ ~overlapped => ~Building(q)
  BY DEF OneBuild, Alone
<1>9. OneBuild'
  <2>1. \A q \in Runs : q # r => (Building(q)' <=> Building(q))
    BY <1>2 DEF Building
  <2> QED BY <1>3, <1>8, <2>1 DEF OneBuild, Alone
<1> QED BY <1>2, <1>3, <1>7, <1>8, <1>9

LEMMA BeginBuildKeeps ==
  ASSUME scope \in Scopes, Family, OneBuild, Clean, NEW r \in Runs, BeginBuild(r)
  PROVE  Family' /\ OneBuild' /\ Clean'
<1>1. Models' = Models /\ Guarded' = Guarded
  BY ModelsStay DEF BeginBuild
<1>2. PICK isFull \in BOOLEAN : /\ full' = [full EXCEPT ![r] = isFull]
                                /\ pc' = [pc EXCEPT ![r] = IF isFull THEN "launch" ELSE "recover"]
  BY DEF BeginBuild
<1>3. /\ pc[r] = "dbt" /\ at' = [at EXCEPT ![r] = 1]
      /\ overlapped' = (overlapped \/ \E q \in Runs : Building(q))
      /\ UNCHANGED <<scope, now, raw, tables, marks, lock, child, broken>>
  BY DEF BeginBuild, files, process
<1>4. /\ pc'[r] \in {"launch", "recover"} /\ (pc'[r] = "launch" <=> full'[r]) /\ at'[r] = 1
      /\ \A q \in Runs : q # r => pc'[q] = pc[q] /\ at'[q] = at[q] /\ full'[q] = full[q]
  BY <1>2, <1>3 DEF Family
<1>5. child[r] = NoChild
  BY <1>3 DEF Family, ParentOK
<1>6. Family'
  <2>1. pc' \in [Runs -> Places] /\ at' \in [Runs -> Nat] /\ full' \in [Runs -> BOOLEAN]
    BY <1>2, <1>3 DEF Family, Places, Preparing
  <2>2. ParentOK(r)'
    <3>1. 1 \in 1..Len(Guarded) + 1
      BY ModelsOf
    <3> QED BY <1>1, <1>3, <1>4, <1>5, <3>1 DEF ParentOK
  <2>3. ChildOK(child[r])'
    BY <1>3, <1>5, NoChildIs DEF ChildOK
  <2>4. overlapped' \in BOOLEAN
    BY <1>3 DEF Family
  <2> QED BY <1>3, <1>4, <2>1, <2>2, <2>3, <2>4, FamilyKept DEF Family, OnRuns
<1>7. OneBuild'
  <2>1. \A q \in Runs : q # r => (Building(q)' <=> Building(q))
    BY <1>4 DEF Building
  <2>2. ~overlapped' => ~overlapped /\ \A q \in Runs : ~Building(q)
    BY <1>3
  <2>3. ASSUME ~overlapped', NEW p \in Runs, NEW q \in Runs, p # q, Building(p)'
        PROVE  ~Building(q)' /\ (child'[q] # NoChild => at'[p] = 1 /\ (pc'[p] = "recover" \/ (pc'[p] = "launch" /\ full'[p])))
    BY <1>4, <2>1, <2>2, <2>3
  <2> QED BY <2>3 DEF OneBuild
<1>8. Clean'
  <2> SUFFICES ASSUME ~overlapped' PROVE Clean'
    BY DEF Clean
  <2>1. ~overlapped
    BY <1>3
  <2>2. \A i \in DOMAIN Guarded : ~(i < 1)
    BY ModelsOf
  <2> QED BY <1>1, <1>3, <1>4, <1>5, <2>1, <2>2, NoChildIs DEF Clean
<1> QED BY <1>6, <1>7, <1>8

LEMMA CheckMarkKeeps ==
  ASSUME scope \in Scopes, Family, OneBuild, Clean, NEW r \in Runs, CheckMark(r)
  PROVE  Family' /\ OneBuild' /\ Clean'
<1>1. Models' = Models /\ Guarded' = Guarded
  BY ModelsStay DEF CheckMark
<1>2. /\ pc[r] = "recover" /\ lock = NoRun /\ full' = full
      /\ UNCHANGED <<scope, now, raw, tables, marks, lock, child, overlapped, broken>>
  BY DEF CheckMark, files, process, history, Goto
<1>3. at[r] \in 1..Len(Guarded) + 1 /\ Len(Guarded) \in Nat /\ DOMAIN Guarded = 1..Len(Guarded)
  BY ModelsOf DEF Family, ParentOK
<1>4. \E place, index : /\ Alone(r, place, index)
        /\ \/ place = "mark" /\ index = 1 /\ at[r] > Len(Guarded)
           \/ place = "relaunch" /\ index = at[r] /\ at[r] \in DOMAIN Guarded
           \/ place = "recover" /\ index = at[r] + 1 /\ at[r] \in DOMAIN Guarded /\ Guarded[at[r]] \notin marks
  <2>1. Building(r) /\ marks \subseteq Range(Guarded)
    BY <1>2 DEF Building, Family
  <2>2. CASE at[r] > Len(Guarded)
    <3>1. Goto(r, "mark", 1)
      BY <2>2 DEF CheckMark
    <3> QED BY <1>2, <1>3, <2>1, <2>2, <3>1 DEF Alone, Places, Preparing
  <2>3. CASE at[r] <= Len(Guarded) /\ Guarded[at[r]] \in marks
    <3>1. Goto(r, "relaunch", at[r])
      BY <1>3, <2>3 DEF CheckMark
    <3> QED BY <1>2, <1>3, <2>1, <2>3, <3>1 DEF Alone, Places, Preparing
  <2>4. CASE at[r] <= Len(Guarded) /\ Guarded[at[r]] \notin marks
    <3>1. Goto(r, "recover", at[r] + 1)
      BY <1>3, <2>4 DEF CheckMark
    <3>2. at[r] + 1 \in 1..Len(Guarded) + 1
      BY <1>3, <2>4
    <3> QED BY <1>2, <1>3, <2>1, <2>4, <3>1, <3>2 DEF Alone, Places, Preparing
  <2> QED BY <1>3, <2>2, <2>3, <2>4
<1>5. PICK place, index : /\ Alone(r, place, index)
        /\ \/ place = "mark" /\ index = 1 /\ at[r] > Len(Guarded)
           \/ place = "relaunch" /\ index = at[r] /\ at[r] \in DOMAIN Guarded
           \/ place = "recover" /\ index = at[r] + 1 /\ at[r] \in DOMAIN Guarded /\ Guarded[at[r]] \notin marks
  BY <1>4
<1>6. /\ Family' /\ OneBuild' /\ \A q \in Runs : child[q] = NoChild
      /\ pc'[r] = place /\ at'[r] = index
      /\ \A q \in Runs : q # r => pc'[q] = pc[q] /\ at'[q] = at[q]
      /\ \A q \in Runs : q # r /\ ~overlapped => ~Building(q)
  BY <1>5, AloneKeeps
<1>7. Clean'
  <2> SUFFICES ASSUME ~overlapped' PROVE Clean'
    BY DEF Clean
  <2>1. ~overlapped /\ broken \cap Range(Guarded) \subseteq marks
    BY <1>2 DEF Clean
  <2>2. \A i \in DOMAIN Guarded : i < at[r] => Guarded[i] \notin broken
    BY <1>2, <2>1 DEF Clean
  <2>3. \A i \in DOMAIN Guarded : i < index => (place # "mark" => Guarded[i] \notin broken) /\ place # "mark" 
    <3> SUFFICES ASSUME NEW i \in DOMAIN Guarded, i < index PROVE place # "mark" /\ Guarded[i] \notin broken
      OBVIOUS
    <3>1. Guarded[at[r]] \in Range(Guarded) \/ at[r] \notin DOMAIN Guarded
      BY ModelsOf
    <3> QED BY <1>3, <1>5, <2>1, <2>2, <3>1
  <2>4. place = "mark" => broken \cap Range(Guarded) = {}
    BY <1>3, <1>5, <2>2 DEF Range
  <2> QED BY <1>1, <1>2, <1>5, <1>6, <2>1, <2>3, <2>4, NoChildIs DEF Clean, Building
<1> QED BY <1>6, <1>7

LEMMA UnmarkKeeps ==
  ASSUME scope \in Scopes, Family, OneBuild, Clean, NEW r \in Runs, Unmark(r)
  PROVE  Family' /\ OneBuild' /\ Clean'
<1>1. Models' = Models /\ Guarded' = Guarded
  BY ModelsStay DEF Unmark
<1>2. /\ pc[r] = "unmark" /\ lock = NoRun /\ full' = full
      /\ UNCHANGED <<scope, now, raw, tables, lock, child, overlapped, broken>>
      /\ marks' = marks \ {Guarded[at[r]]} /\ Goto(r, "recover", at[r] + 1)
  BY DEF Unmark, process, history, Goto
<1>3. at[r] \in DOMAIN Guarded /\ Len(Guarded) \in Nat /\ DOMAIN Guarded = 1..Len(Guarded)
  BY <1>2, ModelsOf DEF Family, ParentOK
<1>4. Alone(r, "recover", at[r] + 1)
  <2>1. Building(r) /\ marks' \subseteq Range(Guarded)
    BY <1>2 DEF Building, Family
  <2> QED BY <1>2, <1>3, <2>1 DEF Alone, Places, Preparing
<1>5. /\ Family' /\ OneBuild' /\ \A q \in Runs : child[q] = NoChild
      /\ pc'[r] = "recover" /\ at'[r] = at[r] + 1
      /\ \A q \in Runs : q # r => pc'[q] = pc[q] /\ at'[q] = at[q]
      /\ \A q \in Runs : q # r /\ ~overlapped => ~Building(q)
  BY <1>4, AloneKeeps
<1>6. Clean'
  <2> SUFFICES ASSUME ~overlapped' PROVE Clean'
    BY DEF Clean
  <2>1. ~overlapped /\ broken \cap Range(Guarded) \subseteq marks /\ Guarded[at[r]] \notin broken
    BY <1>2 DEF Clean
  <2>2. \A i \in DOMAIN Guarded : i < at[r] => Guarded[i] \notin broken
    BY <1>2, <2>1 DEF Clean
  <2>3. \A i \in DOMAIN Guarded : i < at[r] + 1 => Guarded[i] \notin broken
    BY <1>3, <2>1, <2>2
  <2> QED BY <1>1, <1>2, <1>5, <2>1, <2>3, NoChildIs DEF Clean, Building
<1> QED BY <1>5, <1>6

LEMMA MarkKeeps ==
  ASSUME scope \in Scopes, Family, OneBuild, Clean, NEW r \in Runs, Mark(r)
  PROVE  Family' /\ OneBuild' /\ Clean'
<1>1. Models' = Models /\ Guarded' = Guarded
  BY ModelsStay DEF Mark
<1>2. /\ pc[r] = "mark" /\ lock = NoRun /\ full' = full
      /\ UNCHANGED <<scope, now, raw, tables, lock, child, overlapped, broken>>
  BY DEF Mark, process, history, Goto
<1>3. at[r] \in 1..Len(Guarded) + 1 /\ Len(Guarded) \in Nat /\ DOMAIN Guarded = 1..Len(Guarded)
  BY ModelsOf DEF Family, ParentOK
<1>4. \E place, index : /\ Alone(r, place, index) /\ marks \subseteq marks'
        /\ \/ place = "launch" /\ index = 1 /\ at[r] > Len(Guarded)
           \/ place = "mark" /\ index = at[r] + 1 /\ at[r] \in DOMAIN Guarded /\ Guarded[at[r]] \in marks'
  <2>1. Building(r) /\ marks \subseteq Range(Guarded)
    BY <1>2 DEF Building, Family
  <2>2. CASE at[r] > Len(Guarded)
    <3>1. Goto(r, "launch", 1) /\ marks' = marks
      BY <2>2 DEF Mark
    <3> QED BY <1>2, <1>3, <2>1, <2>2, <3>1 DEF Alone, Places, Preparing
  <2>3. CASE at[r] <= Len(Guarded)
    <3>1. Goto(r, "mark", at[r] + 1) /\ marks' = marks \cup {Guarded[at[r]]}
      BY <1>3, <2>3 DEF Mark
    <3>2. at[r] + 1 \in 1..Len(Guarded) + 1 /\ at[r] \in DOMAIN Guarded
      BY <1>3, <2>3
    <3>3. Guarded[at[r]] \in Range(Guarded)
      BY <3>2, ModelsOf
    <3> QED BY <1>2, <1>3, <2>1, <2>3, <3>1, <3>2, <3>3 DEF Alone, Places, Preparing
  <2> QED BY <1>3, <2>2, <2>3
<1>5. PICK place, index : /\ Alone(r, place, index) /\ marks \subseteq marks'
        /\ \/ place = "launch" /\ index = 1 /\ at[r] > Len(Guarded)
           \/ place = "mark" /\ index = at[r] + 1 /\ at[r] \in DOMAIN Guarded /\ Guarded[at[r]] \in marks'
  BY <1>4
<1>6. /\ Family' /\ OneBuild' /\ \A q \in Runs : child[q] = NoChild
      /\ pc'[r] = place /\ at'[r] = index
      /\ \A q \in Runs : q # r => pc'[q] = pc[q] /\ at'[q] = at[q]
      /\ \A q \in Runs : q # r /\ ~overlapped => ~Building(q)
  BY <1>5, AloneKeeps
<1>7. Clean'
  <2> SUFFICES ASSUME ~overlapped' PROVE Clean'
    BY DEF Clean
  <2>1. ~overlapped /\ broken \cap Range(Guarded) = {}
    BY <1>2 DEF Clean
  <2>2. \A i \in DOMAIN Guarded : i < at[r] => Guarded[i] \in marks
    BY <1>2, <2>1 DEF Clean
  <2>3. place = "mark" => \A i \in DOMAIN Guarded : i < at[r] + 1 => Guarded[i] \in marks'
    BY <1>3, <1>5, <2>2
  <2>4. place = "launch" => Range(Guarded) \subseteq marks'
    BY <1>3, <1>5, <2>2 DEF Range
  <2> QED BY <1>1, <1>2, <1>5, <1>6, <2>1, <2>3, <2>4, NoChildIs DEF Clean, Building
<1> QED BY <1>6, <1>7

LEMMA ClearKeeps ==
  ASSUME scope \in Scopes, Family, OneBuild, Clean, NEW r \in Runs, Clear(r)
  PROVE  Family' /\ OneBuild' /\ Clean'
<1>1. Models' = Models /\ Guarded' = Guarded
  BY ModelsStay DEF Clear
<1>2. /\ pc[r] = "clear" /\ lock = NoRun /\ full' = full
      /\ UNCHANGED <<scope, now, raw, tables, lock, child, overlapped, broken>>
  BY DEF Clear, process, history, Goto
<1>3. at[r] \in 1..Len(Guarded) + 1 /\ Len(Guarded) \in Nat /\ DOMAIN Guarded = 1..Len(Guarded)
  BY ModelsOf DEF Family, ParentOK
<1>4. \E place \in {"clear", "done"} : \E index : Alone(r, place, index)
  <2>1. Building(r) /\ marks \subseteq Range(Guarded)
    BY <1>2 DEF Building, Family
  <2>2. CASE at[r] > Len(Guarded)
    <3>1. Goto(r, "done", 1) /\ marks' = marks
      BY <2>2 DEF Clear
    <3> QED BY <1>2, <1>3, <2>1, <2>2, <3>1 DEF Alone, Places, Preparing, Outside, Ended
  <2>3. CASE at[r] <= Len(Guarded)
    <3>1. Goto(r, "clear", at[r] + 1) /\ marks' \subseteq marks
      BY <1>3, <2>3 DEF Clear
    <3>2. at[r] + 1 \in 1..Len(Guarded) + 1
      BY <1>3, <2>3
    <3> QED BY <1>2, <1>3, <2>1, <2>3, <3>1, <3>2 DEF Alone, Places, Preparing
  <2> QED BY <1>3, <2>2, <2>3
<1>5. PICK place \in {"clear", "done"} : \E index : Alone(r, place, index)
  BY <1>4
<1>9. PICK index : Alone(r, place, index)
  BY <1>5
<1>6. /\ Family' /\ OneBuild' /\ \A q \in Runs : child[q] = NoChild
      /\ pc'[r] = place /\ at'[r] = index
      /\ \A q \in Runs : q # r => pc'[q] = pc[q] /\ at'[q] = at[q]
      /\ \A q \in Runs : q # r /\ ~overlapped => ~Building(q)
  BY <1>9, AloneKeeps
<1>7. Clean'
  <2> SUFFICES ASSUME ~overlapped' PROVE Clean'
    BY DEF Clean
  <2>1. ~overlapped /\ broken \cap Range(Guarded) = {}
    BY <1>2 DEF Clean
  <2> QED BY <1>1, <1>2, <1>6, <2>1, NoChildIs DEF Clean, Building
<1> QED BY <1>6, <1>7

LEMMA LaunchKeeps ==
  ASSUME scope \in Scopes, Family, OneBuild, Clean, NEW r \in Runs, Launch(r)
  PROVE  Family' /\ OneBuild' /\ Clean'
<1>1. Models' = Models /\ Guarded' = Guarded
  BY ModelsStay DEF Launch
<1> DEFINE c == IF pc[r] = "relaunch" THEN [todo |-> <<Guarded[at[r]]>>, full |-> TRUE, for |-> "recovery"]
                ELSE [todo |-> Models, full |-> full[r], for |-> "build"]
           place == IF pc[r] = "relaunch" THEN "recovering" ELSE "building"
<1>2. /\ pc[r] \in {"relaunch", "launch"} /\ lock = NoRun /\ lock' = r /\ full' = full
      /\ pc' = [pc EXCEPT ![r] = place] /\ at' = [at EXCEPT ![r] = at[r]]
      /\ child' = [child EXCEPT ![r] = c]
      /\ UNCHANGED <<scope, now, raw, tables, marks, overlapped, broken>>
  BY DEF Launch, history, Goto, files
<1>3. at[r] \in 1..Len(Guarded) + 1 /\ (pc[r] = "relaunch" => at[r] \in DOMAIN Guarded)
  BY DEF Family, ParentOK
<1>4. \A q \in Runs : child[q] = NoChild
  BY <1>2, Freed
<1>5. /\ pc'[r] = place /\ at'[r] = at[r] /\ child'[r] = c
      /\ \A q \in Runs : q # r => pc'[q] = pc[q] /\ at'[q] = at[q] /\ child'[q] = NoChild
  BY <1>2, <1>4 DEF Family, OnRuns
<1>6. Family'
  <2>1. pc' \in [Runs -> Places] /\ at' \in [Runs -> Nat] /\ full \in [Runs -> BOOLEAN]
    BY <1>2, <1>3 DEF Family, Places
  <2>2. ChildOK(c)
    <3>1. CASE pc[r] = "relaunch"
      <4>1. Guarded[at[r]] \in Range(Guarded) /\ Guarded[at[r]] \in Tables
        BY <1>3, <3>1, ModelsOf
      <4>2. <<Guarded[at[r]]>> \in Seq(Tables)
        BY <4>1
      <4>3. c \in Children
        BY <3>1, <4>2 DEF Children
      <4> QED BY <3>1, <4>1, <4>3 DEF ChildOK
    <3>2. CASE pc[r] = "launch"
      <4>1. c \in Children
        <5>1. Models \in Seq(Tables)
          BY ModelsOf
        <5> QED BY <2>1, <3>2, <5>1 DEF Children
      <4> QED BY <3>2, <4>1 DEF ChildOK, BuildTodo
    <3> QED BY <1>2, <3>1, <3>2
  <2>3. ChildOK(child[r])'
    <3>1. BuildTodo' = BuildTodo
      BY <1>2, ModelsStay
    <3> QED BY <1>1, <1>5, <2>2, <3>1 DEF ChildOK
  <2>4. ParentOK(r)'
    <3>1. CASE pc[r] = "relaunch"
      BY <1>1, <1>3, <1>5, <3>1 DEF ParentOK
    <3>2. CASE pc[r] = "launch"
      BY <1>1, <1>2, <1>3, <1>5, <3>2 DEF ParentOK
    <3> QED BY <1>2, <3>1, <3>2
  <2>5. c # NoChild
    BY DEF NoChild
  <2>6. OnRuns(child')
    BY <1>2 DEF Family, OnRuns
  <2> HIDE DEF c, place
  <2> QED BY <1>2, <1>4, <1>5, <2>1, <2>3, <2>4, <2>5, <2>6, FamilyKept DEF Family
<1>7. Building(r) /\ \A q \in Runs : q # r => (Building(q)' <=> Building(q))
  BY <1>2, <1>5 DEF Building
<1>8. OneBuild'
  <2> SUFFICES ASSUME ~overlapped' PROVE OneBuild'
    BY DEF OneBuild
  <2>1. \A q \in Runs : q # r => ~Building(q)' /\ child'[q] = NoChild
    BY <1>2, <1>5, <1>7 DEF OneBuild
  <2> QED BY <2>1 DEF OneBuild
<1>9. Clean'
  <2> SUFFICES ASSUME ~overlapped' PROVE Clean'
    BY DEF Clean
  <2>1. ~overlapped /\ broken \cap Range(Guarded) \subseteq marks
    BY <1>2 DEF Clean
  <2>2. \A q \in Runs : q # r => ~Building(q)'
    BY <1>2, <1>7 DEF OneBuild
  <2>3. CASE pc[r] = "relaunch"
    <3>1. \A i \in DOMAIN Guarded : i < at[r] => Guarded[i] \notin broken
      BY <2>1, <2>3 DEF Clean
    <3>2. c.todo = <<Guarded[at[r]]>> /\ c.for = "recovery" /\ c.todo # << >>
      BY <2>3
    <3>3. c.todo = <<"dense">> => "observed" \notin broken
      <4> SUFFICES ASSUME Guarded[at[r]] = "dense" PROVE "observed" \notin broken
        BY <3>2
      <4>1. Guarded = <<"observed", "dense">>
        BY <1>3, <2>3, ModelsOf
      <4>2. Guarded[1] = "observed" /\ at[r] = 2 /\ 1 \in DOMAIN Guarded
        BY <1>3, <2>3, <4>1
      <4> QED BY <3>1, <4>2
    <3> HIDE DEF c
    <3> QED BY <1>1, <1>2, <1>5, <2>1, <2>2, <2>3, <3>1, <3>2, <3>3, NoChildIs DEF Clean, Building
  <2>4. CASE pc[r] = "launch"
    <3>1. c.todo = Models /\ c.for = "build" /\ c.full = full[r] /\ c.todo # <<"dense">>
      <4>1. Models # <<"dense">>
        BY ModelsOf
      <4> QED BY <2>4, <4>1
    <3>2. ~full[r] => broken \cap Range(Guarded) = {} /\ Range(Guarded) \subseteq marks
      BY <2>1, <2>4 DEF Clean
    <3>3. pc'[r] = "building" /\ child'[r] = c
      BY <1>5, <2>4
    <3> HIDE DEF c, place
    <3>4. ~child'[r].full => broken \cap Range(Guarded) = {} /\ Range(Guarded) \subseteq marks
      BY <3>1, <3>2, <3>3
    <3>5. child'[r].todo # <<"dense">>
      BY <3>1, <3>3
    <3> QED BY <1>1, <1>2, <1>5, <2>1, <2>2, <3>3, <3>4, <3>5, NoChildIs DEF Clean, Building
  <2> QED BY <1>2, <2>3, <2>4
<1> QED BY <1>6, <1>8, <1>9

------------------------------------------------------------------------------
(* Steps of a child *)

LEMMA NextTodo ==
  ASSUME NEW c \in Children,
         NEW rest \in Seq(Tables)
  PROVE  /\ [c EXCEPT !.todo = rest] \in Children
         /\ [c EXCEPT !.todo = rest].todo = rest
         /\ [c EXCEPT !.todo = rest].full = c.full /\ [c EXCEPT !.todo = rest].for = c.for
BY DEF Children

LEMMA TodoIs ==
  ASSUME scope \in Scopes, NEW c, ChildOK(c), c.todo # << >>
  PROVE  /\ Head(c.todo) \in Range(Models) /\ Tail(c.todo) \in Seq(Tables)
         /\ c.for = "build" => /\ Tail(c.todo) \in BuildTodo
                               /\ Tail(c.todo) = <<"dense">> => Head(c.todo) = "observed" /\ "observed" \in Range(Models)
         /\ Head(c.todo) = "dense" => c.todo = <<"dense">>
         /\ c.for # "build" => c.for = "recovery" /\ c.full = TRUE /\ \E g \in Range(Guarded) :
              c.todo = <<g>> /\ Head(c.todo) = g /\ Tail(c.todo) = << >>
<1>1. c # NoChild
  BY DEF NoChild
<1>0. << >> # <<"dense">> /\ << >> \in Seq(Tables)
  OBVIOUS
<1>2. CASE c.for = "build" /\ c.todo \in BuildTodo
  <2>1. CASE Len(Models) = 1
    <3>1. c.todo = Models /\ \E m : Models = <<m>>
      BY <1>2, <2>1, ModelsOf DEF BuildTodo
    <3>2. Tail(c.todo) = << >> /\ Head(c.todo) = Models[1] /\ Models[1] \in Range(Models)
      BY <2>1, <3>1, ModelsOf DEF Range
    <3>3. Models[1] # "dense"
      BY <2>1, ModelsOf
    <3> QED BY <1>0, <1>2, <3>2, <3>3 DEF BuildTodo
  <2>2. CASE Len(Models) = 2
    <3>1. Models = <<"observed", "dense">>
      BY <2>2, ModelsOf
    <3>2. c.todo \in {<<"observed", "dense">>, <<"dense">>}
      BY <1>2, <2>2, <3>1 DEF BuildTodo
    <3>3. "observed" \in Range(Models) /\ "dense" \in Range(Models)
      <4>1. Models[1] = "observed" /\ Models[2] = "dense" /\ {1, 2} \subseteq DOMAIN Models
        BY <3>1
      <4> QED BY <4>1 DEF Range
    <3>4. CASE c.todo = <<"observed", "dense">>
      <4>1. Head(c.todo) = "observed" /\ Tail(c.todo) = <<"dense">>
        BY <3>4
      <4>2. Tail(c.todo) \in BuildTodo
        BY <2>2, <3>1, <4>1 DEF BuildTodo
      <4>3. <<"dense">> \in Seq(Tables)
        BY DEF Tables
      <4> QED BY <1>2, <3>3, <4>1, <4>2, <4>3
    <3>5. CASE c.todo = <<"dense">>
      <4>1. Head(c.todo) = "dense" /\ Tail(c.todo) = << >>
        BY <3>5
      <4> QED BY <1>0, <1>2, <3>3, <3>5, <4>1 DEF BuildTodo
    <3> QED BY <3>2, <3>4, <3>5
  <2>3. Len(Models) = 1 \/ Len(Models) = 2
    BY ModelsOf
  <2> QED BY <2>1, <2>2, <2>3
<1>3. CASE c.for = "recovery" /\ c.full = TRUE /\ c.todo \in {<< >>} \cup {<<g>> : g \in Range(Guarded)}
  <2>1. PICK g \in Range(Guarded) : c.todo = <<g>>
    BY <1>3
  <2>2. Head(c.todo) = g /\ Tail(c.todo) = << >>
    BY <2>1
  <2>3. g \in Range(Models)
    BY <2>1, ModelsOf
  <2> QED BY <1>0, <1>3, <2>1, <2>2, <2>3
<1> QED BY <1>1, <1>2, <1>3 DEF ChildOK

LEMMA BuildModelKeeps ==
  ASSUME scope \in Scopes, Family, OneBuild, Clean, NEW r \in Runs, BuildModel(r)
  PROVE  Family' /\ OneBuild' /\ Clean'
<1> DEFINE m == Head(child[r].todo)
           c == [child[r] EXCEPT !.todo = Tail(@)]
<1>1. Models' = Models /\ Guarded' = Guarded /\ BuildTodo' = BuildTodo
  BY ModelsStay DEF BuildModel
<1>2. /\ child[r].todo # << >> /\ child' = [child EXCEPT ![r] = c]
      /\ broken' = (IF child[r].full THEN broken \ {m} ELSE broken)
      /\ UNCHANGED <<scope, marks, lock, pc, at, full, overlapped>>
  BY DEF BuildModel, step
<1>3. ChildOK(child[r]) /\ ParentOK(r) /\ lock = r
  BY <1>2, NoChildIs DEF Family
<1>4. child'[r] = c /\ \A q \in Runs : q # r => child'[q] = child[q] /\ child[q] = NoChild
  BY <1>2, <1>3 DEF Family, OnRuns
<1>5. /\ c.for = child[r].for /\ c.full = child[r].full /\ c.todo = Tail(child[r].todo) /\ c # NoChild
      /\ ChildOK(c) /\ child[r].for \in {"build", "recovery"}
      /\ child[r].for = "recovery" => child[r].full = TRUE /\ c.todo = << >> /\ \E g : child[r].todo = <<g>> /\ m = g
      /\ c.todo = <<"dense">> => m = "observed" /\ "observed" \in Range(Models)
  <2>1. /\ Tail(child[r].todo) \in Seq(Tables) /\ child[r].for \in {"build", "recovery"}
        /\ child[r].for = "build" =>
             /\ Tail(child[r].todo) \in BuildTodo
             /\ Tail(child[r].todo) = <<"dense">> => m = "observed" /\ "observed" \in Range(Models)
        /\ child[r].for = "recovery" => /\ child[r].full = TRUE /\ Tail(child[r].todo) = << >>
                                        /\ \E g : child[r].todo = <<g>> /\ m = g
    BY <1>2, <1>3, TodoIs
  <2>2. child[r] \in Children
    BY <1>3 DEF ChildOK
  <2>3. /\ c \in Children
        /\ c.todo = Tail(child[r].todo) /\ c.full = child[r].full /\ c.for = child[r].for
    BY <2>1, <2>2, NextTodo
  <2> HIDE DEF c, m
  <2>4. c # NoChild
    BY <2>1, <2>3, NoChildIs
  <2>5. << >> # <<"dense">>
    OBVIOUS
  <2>6. ChildOK(c)
    <3>1. CASE child[r].for = "build"
      BY <2>1, <2>3, <3>1 DEF ChildOK
    <3>2. CASE child[r].for = "recovery"
      BY <2>1, <2>3, <3>2 DEF ChildOK
    <3> QED BY <2>1, <3>1, <3>2
  <2>7. c.todo = <<"dense">> => child[r].for = "build"
    BY <2>1, <2>3, <2>5
  <2> QED BY <2>1, <2>3, <2>4, <2>6, <2>7
<1> HIDE DEF c
<1>6. Family'
  <2>1. ChildOK(child[r])'
    BY <1>1, <1>4, <1>5 DEF ChildOK
  <2>2. ParentOK(r)'
    <3>1. child[r] # NoChild
      BY <1>2, NoChildIs
    <3>2. child[r].for = "recovery" => c.todo = << >>
      BY <1>5
    <3> HIDE DEF m
    <3> QED BY <1>1, <1>2, <1>3, <1>4, <1>5, <3>1, <3>2 DEF ParentOK
  <2>3. OnRuns(child')
    BY <1>2 DEF Family, OnRuns
  <2>4. \A q \in Runs : child'[q] # NoChild <=> lock' = q
    BY <1>2, <1>3, <1>4, <1>5
  <2>5. broken' \subseteq Range(Models)
    BY <1>2 DEF Family
  <2> HIDE DEF m
  <2> QED BY <1>2, <1>4, <2>1, <2>2, <2>3, <2>4, <2>5, FamilyKept DEF Family
<1>7. \A q \in Runs : (Building(q)' <=> Building(q)) /\ (child'[q] # NoChild <=> child[q] # NoChild)
  BY <1>2, <1>4, <1>5, NoChildIs DEF Building
<1>8. OneBuild'
  BY <1>2, <1>7 DEF OneBuild
<1>9. Clean'
  <2> SUFFICES ASSUME ~overlapped' PROVE Clean'
    BY DEF Clean
  <2>1. ~overlapped /\ broken' \subseteq broken
    BY <1>2
  <2>2. pc[r] = "recovering" => Guarded[at[r]] \notin broken'
    <3> SUFFICES ASSUME pc[r] = "recovering" PROVE Guarded[at[r]] \notin broken'
      OBVIOUS
    <3>1. child[r].for = "recovery" /\ child[r].todo = <<Guarded[at[r]]>>
      BY <1>2, <1>3 DEF ParentOK
    <3>2. m = Guarded[at[r]] /\ child[r].full = TRUE
      BY <1>5, <3>1
    <3> QED BY <1>2, <3>2
  <2>3. c.todo = <<"dense">> => "observed" \notin broken'
    <3> SUFFICES ASSUME c.todo = <<"dense">> PROVE "observed" \notin broken'
      OBVIOUS
    <3>1. m = "observed" /\ "observed" \in Range(Models)
      BY <1>5
    <3>2. CASE child[r].full
      BY <1>2, <3>1, <3>2
    <3>3. CASE ~child[r].full
      <4>1. child[r].for = "build"
        BY <1>5, <3>3
      <4>2. broken \cap Range(Guarded) = {}
        BY <2>1, <3>3, <4>1 DEF Clean
      <4>3. Guarded = Models
        BY <3>1, ModelsOf DEF Range
      <4> QED BY <2>1, <3>1, <4>2, <4>3
    <3> QED BY <3>2, <3>3
  <2>4. ASSUME NEW q \in Runs
        PROVE  /\ child'[q].for = child[q].for /\ child'[q].full = child[q].full
               /\ pc[q] = "recovering" /\ child'[q].todo = << >> => Guarded[at[q]] \notin broken'
               /\ child'[q].todo = <<"dense">> => "observed" \notin broken'
    <3>1. CASE q = r
      BY <1>4, <1>5, <2>2, <2>3, <3>1
    <3>2. CASE q # r
      BY <1>4, <2>1, <3>2 DEF Clean
    <3> QED BY <3>1, <3>2
  <2> HIDE DEF m
  <2>5. UNCHANGED <<marks, pc, at, full>>
    BY <1>2
  <2>6. broken' \cap Range(Guarded)' \subseteq marks'
    BY <1>1, <2>1, <2>5 DEF Clean
  <2> QED BY <1>1, <2>1, <2>4, <2>5, <2>6 DEF Clean
<1> QED BY <1>6, <1>8, <1>9

(* A child that is over leaves its live parent at a place outside.         *)
LEMMA ChildExitsKeeps ==
  ASSUME scope \in Scopes, Family, OneBuild, Clean, NEW r \in Runs, ChildExits(r)
  PROVE  Family' /\ OneBuild' /\ Clean'
<1> DEFINE place == IF child[r].for = "recovery" THEN "unmark" ELSE IF full[r] THEN "done" ELSE "clear"
<1>1. Models' = Models /\ Guarded' = Guarded /\ BuildTodo' = BuildTodo
  BY ModelsStay DEF ChildExits
<1>2. /\ child[r] # NoChild /\ child[r].todo = << >> /\ child' = [child EXCEPT ![r] = NoChild] /\ lock' = NoRun
      /\ pc' = Goes(r, place)
      /\ at' = IF Live(r) /\ child[r].for = "build" THEN [at EXCEPT ![r] = 1] ELSE at
      /\ UNCHANGED <<scope, now, raw, tables, marks, full, overlapped, broken>>
  BY DEF ChildExits, files, history
<1>3. ChildOK(child[r]) /\ ParentOK(r) /\ lock = r /\ child[r].for \in {"build", "recovery"}
  <2>1. ChildOK(child[r]) /\ ParentOK(r) /\ lock = r
    BY <1>2 DEF Family
  <2> QED BY <1>2, <2>1 DEF ChildOK
<1>4. \A q \in Runs : child'[q] = NoChild
  BY <1>2, <1>3 DEF Family, OnRuns
<1>5. pc[r] \in {"recovering", "building", "failed"}
  BY <1>2, <1>3 DEF ParentOK
<1>6. /\ \A q \in Runs : q # r => pc'[q] = pc[q] /\ at'[q] = at[q]
      /\ pc[r] = "failed" => pc'[r] = "failed" /\ at'[r] = at[r]
      /\ pc[r] = "recovering" => pc'[r] = "unmark" /\ at'[r] = at[r]
      /\ pc[r] = "building" => pc'[r] = (IF full[r] THEN "done" ELSE "clear") /\ at'[r] = 1
      /\ pc' \in [Runs -> Places] /\ at' \in [Runs -> Nat]
  <2>1. CASE pc[r] = "failed"
    BY <1>2, <2>1 DEF Family, Goes, Live, Ended
  <2>2. CASE pc[r] = "recovering"
    <3>1. Live(r) /\ child[r].for = "recovery"
      BY <1>3, <2>2 DEF ParentOK, Live, Ended
    <3>2. pc' = [pc EXCEPT ![r] = "unmark"] /\ at' = at
      BY <1>2, <3>1 DEF Goes
    <3> QED BY <2>2, <3>2 DEF Family, Places, Preparing
  <2>3. CASE pc[r] = "building"
    <3>1. Live(r) /\ child[r].for = "build"
      BY <1>3, <2>3 DEF ParentOK, Live, Ended
    <3>2. pc' = [pc EXCEPT ![r] = IF full[r] THEN "done" ELSE "clear"] /\ at' = [at EXCEPT ![r] = 1]
      BY <1>2, <3>1 DEF Goes
    <3> QED BY <2>3, <3>2 DEF Family, Places, Preparing, Outside, Ended
  <2> QED BY <1>5, <2>1, <2>2, <2>3
<1>7. Family'
  <2>1. ParentOK(r)'
    <3>1. 1 \in 1..Len(Guarded) + 1
      BY ModelsOf
    <3> QED BY <1>1, <1>2, <1>3, <1>4, <1>5, <1>6, <3>1 DEF ParentOK
  <2>2. ChildOK(child[r])'
    BY <1>4, NoChildIs DEF ChildOK
  <2>3. OnRuns(child')
    BY <1>2 DEF Family, OnRuns
  <2>4. \A q \in Runs : child'[q] # NoChild <=> lock' = q
    BY <1>2, <1>4, RunsAssumption DEF NoRun
  <2>5. \A q \in Runs : q # r => child'[q] = child[q]
    BY <1>2 DEF Family, OnRuns
  <2> QED BY <1>2, <1>6, <2>1, <2>2, <2>3, <2>4, <2>5, FamilyKept DEF Family
<1>8. (Building(r)' => Building(r)) /\ \A q \in Runs : q # r => (Building(q)' <=> Building(q))
  BY <1>5, <1>6 DEF Building
<1>9. OneBuild'
  <2> SUFFICES ASSUME ~overlapped' PROVE OneBuild'
    BY DEF OneBuild
  <2> QED BY <1>2, <1>4, <1>6, <1>8 DEF OneBuild
<1>10. Clean'
  <2> SUFFICES ASSUME ~overlapped' PROVE Clean'
    BY DEF Clean
  <2>1. ~overlapped
    BY <1>2
  <2>2. pc[r] = "building" /\ ~full[r] => broken \cap Range(Guarded) = {}
    BY <1>3, <2>1 DEF Clean, ParentOK
  <2>3. pc[r] = "recovering" => Guarded[at[r]] \notin broken /\ \A i \in DOMAIN Guarded : i < at[r] => Guarded[i] \notin broken
    BY <1>2, <2>1 DEF Clean
  <2>4. broken' \cap Range(Guarded)' \subseteq marks'
    BY <1>1, <1>2, <2>1 DEF Clean
  <2>5. \A q \in Runs : child'[q].todo # <<"dense">> /\ child'[q].for # "build"
    BY <1>4, NoChildIs
  <2> QED BY <1>1, <1>2, <1>5, <1>6, <2>1, <2>2, <2>3, <2>4, <2>5 DEF Clean
<1> QED BY <1>7, <1>9, <1>10

(* A child that dies fails its live parent; what it was rewriting piece by *)
(* piece is marked.                                                        *)
LEMMA ChildDiesKeeps ==
  ASSUME scope \in Scopes, Family, OneBuild, Clean, NEW r \in Runs, ChildDies(r)
  PROVE  Family' /\ OneBuild' /\ Clean'
<1> DEFINE m == Head(child[r].todo)
<1>1. Models' = Models /\ Guarded' = Guarded /\ BuildTodo' = BuildTodo
  BY ModelsStay DEF ChildDies
<1>2. /\ child[r] # NoChild /\ child' = [child EXCEPT ![r] = NoChild] /\ lock' = NoRun
      /\ pc' = Goes(r, "failed") /\ at' = [at EXCEPT ![r] = 1]
      /\ broken' = broken \/ (child[r].todo # << >> /\ ~child[r].full /\ broken' = broken \cup {m})
      /\ UNCHANGED <<scope, now, raw, marks, full, overlapped>>
  BY DEF ChildDies, FailedBuild
<1>3. child[r] # NoChild /\ ChildOK(child[r]) /\ ParentOK(r) /\ lock = r
  BY <1>2 DEF Family
<1>4. \A q \in Runs : child'[q] = NoChild
  BY <1>2, <1>3 DEF Family, OnRuns
<1>5. pc'[r] = "failed" /\ at'[r] = 1 /\ \A q \in Runs : q # r => pc'[q] = pc[q] /\ at'[q] = at[q]
  <2>1. pc[r] \in {"recovering", "building", "failed"}
    BY <1>3 DEF ParentOK
  <2> QED BY <1>2, <2>1 DEF Goes, Live, Ended, Family
<1>6. child[r].todo # << >> => m \in Range(Models) /\ (~child[r].full => child[r].for = "build")
  BY <1>2, <1>3, TodoIs
<1>7. Family'
  <2>1. ParentOK(r)'
    <3>1. 1 \in 1..Len(Guarded) + 1
      BY ModelsOf
    <3> QED BY <1>1, <1>4, <1>5, <3>1 DEF ParentOK
  <2>2. ChildOK(child[r])'
    BY <1>4, NoChildIs DEF ChildOK
  <2>3. OnRuns(child')
    BY <1>2 DEF Family, OnRuns
  <2>4. \A q \in Runs : child'[q] # NoChild <=> lock' = q
    BY <1>2, <1>4, RunsAssumption DEF NoRun
  <2>5. \A q \in Runs : q # r => child'[q] = child[q]
    BY <1>2 DEF Family, OnRuns
  <2>6. pc' \in [Runs -> Places] /\ at' \in [Runs -> Nat]
    BY <1>2 DEF Goes, Family, Places, Outside, Ended
  <2>7. broken' \subseteq Range(Models)
    BY <1>2, <1>6 DEF Family
  <2> HIDE DEF m
  <2> QED BY <1>2, <1>5, <2>1, <2>2, <2>3, <2>4, <2>5, <2>6, <2>7, FamilyKept DEF Family
<1>8. ~Building(r)' /\ \A q \in Runs : q # r => (Building(q)' <=> Building(q))
  BY <1>5 DEF Building
<1>9. OneBuild'
  BY <1>2, <1>4, <1>5, <1>8 DEF OneBuild
<1>10. Clean'
  <2> SUFFICES ASSUME ~overlapped' PROVE Clean'
    BY DEF Clean
  <2>1. ~overlapped
    BY <1>2
  <2>2. broken' \cap Range(Guarded) \subseteq marks
    <3>1. child[r].todo # << >> /\ ~child[r].full => Range(Guarded) \subseteq marks
      BY <1>6, <2>1 DEF Clean
    <3> QED BY <1>2, <2>1, <3>1 DEF Clean
  <2>3. ASSUME NEW q \in Runs, q # r, Building(q)
        PROVE  at[q] = 1 /\ (pc[q] = "recover" \/ (pc[q] = "launch" /\ full[q]))
    BY <1>3, <2>1, <2>3 DEF OneBuild
  <2>4. \A i \in DOMAIN Guarded : ~(i < 1)
    BY ModelsOf
  <2>5. \A q \in Runs : child'[q].todo # <<"dense">> /\ child'[q].for # "build"
    BY <1>4, NoChildIs
  <2>6. ASSUME NEW q \in Runs, pc'[q] \in {"recover", "relaunch", "recovering", "unmark", "mark", "clear", "launch"}
        PROVE  at'[q] = 1 /\ (pc'[q] = "recover" \/ (pc'[q] = "launch" /\ full'[q]))
    BY <1>2, <1>5, <2>3, <2>6 DEF Building
  <2> HIDE DEF m
  <2> QED BY <1>1, <1>2, <2>2, <2>4, <2>5, <2>6 DEF Clean
<1> QED BY <1>7, <1>9, <1>10

------------------------------------------------------------------------------
(* Rows and what a build makes of them *)

LEMMA TimesAre == now \in Time => now \in Nat /\ Window \in Nat /\ Lookback \in Nat /\ MaxLatency \in Nat /\ MaxLatency <= Lookback
BY TimeAssumption, LatencyAssumption DEF Time

LEMMA HorizonIs ==
  ASSUME NEW table, Fits(table), now \in Time, scope # "soccer"
  PROVE  Horizon(table) \in Int /\ Horizon(table) <= now - MaxLatency
<1>1. \A k \in DOMAIN table : table[k].stamp \in 0..now
  BY TimesAre DEF Fits, Row
<1>2. Newest(table) \in 0..now
  BY <1>1, TimesAre, NewestIsBounded
<1> QED BY <1>2, TimesAre DEF Horizon

LEMMA DataStays ==
  ASSUME Stamped, Settled, UNCHANGED <<scope, now, raw, tables, broken>>, overlapped => overlapped'
  PROVE  Stamped' /\ Settled'
<1>1. \A table : Fits(table)' <=> Fits(table)
  BY DEF Fits
<1>2. Stamped'
  BY <1>1 DEF Stamped
<1>3. Settled'
  BY DEF Settled, HourlySettled, CandlesSettled, StatesSettled
<1> QED BY <1>2, <1>3

(* Time passes: no row gets any newer, and the window of the Kalshi mart   *)
(* moves on.                                                               *)
LEMMA TickKeepsData ==
  ASSUME Stamped, Settled, Tick
  PROVE  Stamped' /\ Settled'
<1>1. now' = now + 1 /\ now < MaxTime /\ UNCHANGED <<scope, raw, tables, broken, overlapped>>
  BY DEF Tick, files, history
<1>2. now \in Nat /\ now' \in Time
  BY <1>1, TimeAssumption DEF Stamped, Time
<1>3. Stamped'
  <2>1. ASSUME NEW m \in Tables PROVE Fits(tables[m])'
    BY <1>1, <1>2 DEF Stamped, Fits, Row
  <2>2. \A k \in DOMAIN raw : raw[k] \in Nat /\ (scope # "soccer" => raw[k] <= now')
    BY <1>1, <1>2 DEF Stamped
  <2> QED BY <1>1, <1>2, <2>1, <2>2 DEF Stamped
<1>4. Settled'
  <2>1. ASSUME scope = "kalshi", NEW k \in DOMAIN raw, k[2] >= now + 1 - Window PROVE k[2] >= now - Window
    <3>1. k[2] \in Int
      BY <2>1, TimeAssumption DEF Stamped, Time
    <3> QED BY <1>2, <2>1, <3>1, TimeAssumption
  <2>3. HourlySettled'
    BY <1>1 DEF Settled, HourlySettled
  <2>4. CandlesSettled'
    <3> SUFFICES ASSUME scope = "kalshi", "candles" \notin broken PROVE CandlesSettled'
      BY <1>1 DEF CandlesSettled
    <3>1. ASSUME NEW k \in DOMAIN raw, k[2] >= now' - Window, raw[k] < Horizon(tables["candles"])
          PROVE  k \in DOMAIN tables["candles"] /\ tables["candles"][k] = [stamp |-> raw[k], whole |-> TRUE]
      <4>1. k[2] >= now - Window
        <5>1. now' - Window = now + 1 - Window
          BY <1>1, <1>2, TimeAssumption
        <5>2. k[2] >= now + 1 - Window
          BY <3>1, <5>1
        <5> QED BY <2>1, <5>2
      <4> QED BY <3>1, <4>1 DEF Settled, CandlesSettled
    <3>2. DOMAIN tables["candles"] \subseteq DOMAIN raw /\ tables' = tables /\ raw' = raw
      BY <1>1 DEF Settled, CandlesSettled
    <3> HIDE DEF Horizon
    <3> QED BY <3>1, <3>2 DEF CandlesSettled
  <2>5. StatesSettled'
    BY <1>1 DEF Settled, StatesSettled
  <2> QED BY <2>3, <2>4, <2>5 DEF Settled
<1> QED BY <1>3, <1>4

LEMMA LandKeepsData ==
  ASSUME Stamped, Settled, NEW k, Land(k)
  PROVE  Stamped' /\ Settled'
<1>1. scope = "wc2026" /\ UNCHANGED <<scope, now, tables, broken, overlapped>>
  BY DEF Land, history
<1>2. PICK s \in Time : now - MaxLatency <= s /\ s <= now /\ raw' = Put(raw, k, s)
  BY DEF Land
<1>3. s \in Nat
  BY TimeAssumption DEF Time
<1>4. \A j \in DOMAIN raw' : IF j = k THEN raw'[j] = s ELSE j \in DOMAIN raw /\ raw'[j] = raw[j]
  BY <1>2 DEF Put
<1>5. Stamped'
  <2>1. \A m \in Tables : Fits(tables[m])'
    BY <1>1 DEF Stamped, Fits
  <2> QED BY <1>1, <1>2, <1>3, <1>4, <2>1 DEF Stamped
<1>6. Settled'
  <2>1. Horizon(tables["hourly"]) \in Int /\ Horizon(tables["hourly"]) <= now - MaxLatency
    BY <1>1, HorizonIs DEF Stamped, Tables
  <2>2. ~(s < Horizon(tables["hourly"]))
    BY <1>2, <1>3, <2>1, TimesAre DEF Stamped
  <2>3. DOMAIN raw \subseteq DOMAIN raw'
    BY <1>2 DEF Put
  <2> QED BY <1>1, <1>4, <2>2, <2>3 DEF Settled, HourlySettled, CandlesSettled, StatesSettled
<1> QED BY <1>5, <1>6

LEMMA ReviseKeepsData ==
  ASSUME Stamped, Settled, NEW k, Revise(k)
  PROVE  Stamped' /\ Settled'
<1>1. scope = "soccer" /\ UNCHANGED <<scope, now, tables, broken, overlapped>>
  BY DEF Revise, history
<1>2. \A j \in DOMAIN raw' : raw'[j] \in Nat
  <2>1. CASE \E v \in Revisions : raw' = Put(raw, k, v)
    BY <2>1, TimeAssumption DEF Put, Stamped
  <2>2. CASE raw' = Restrict(raw, DOMAIN raw \ {k})
    BY <2>2 DEF Restrict, Stamped
  <2> QED BY <2>1, <2>2 DEF Revise
<1>3. Stamped'
  BY <1>1, <1>2 DEF Stamped, Fits
<1>4. Settled'
  BY <1>1 DEF Settled, HourlySettled, CandlesSettled, StatesSettled
<1> QED BY <1>3, <1>4

(* New candles are no older than the horizon, so they are looked for.      *)
LEMMA SaveCandlesKeepsData ==
  ASSUME Stamped, Settled, Memory, FetchReaches, NEW r \in Runs, SaveCandles(r)
  PROVE  /\ Stamped' /\ Settled' /\ DOMAIN raw \subseteq DOMAIN raw'
         /\ \A m \in DOMAIN fetch[r].from : \A h \in Hours(m, fetch[r].from[m], fetch[r].end) : <<m, h>> \in DOMAIN raw'
<1> DEFINE got == UNION {{m} \X Hours(m, fetch[r].from[m], fetch[r].end) : m \in DOMAIN fetch[r].from}
<1>1. pc[r] = "fetched" /\ UNCHANGED <<scope, now, tables, broken, overlapped>>
      /\ raw' = Merge([k \in got |-> fetch[r].stamp], raw)
  BY DEF SaveCandles, history
<1>2. scope = "kalshi"
  BY <1>1 DEF Memory, Outside, Ended
<1>3. fetch[r].stamp \in Nat /\ fetch[r].stamp <= now /\ now <= fetch[r].stamp + MaxLatency
  BY <1>1 DEF Memory, FetchReaches
<1>4. got \subseteq Markets \X Time
  <2>1. ASSUME NEW m \in DOMAIN fetch[r].from PROVE m \in Markets
    BY DEF Memory, Listed
  <2>2. \A m, from, end : Hours(m, from, end) \subseteq Time
    BY DEF Hours
  <2>3. ASSUME NEW m \in DOMAIN fetch[r].from
        PROVE  {m} \X Hours(m, fetch[r].from[m], fetch[r].end) \subseteq Markets \X Time
    BY <2>1, <2>2
  <2> QED BY <2>3
<1>5. /\ DOMAIN raw' = got \cup DOMAIN raw
      /\ \A k \in DOMAIN raw' : raw'[k] = IF k \in got THEN fetch[r].stamp ELSE raw[k]
  BY <1>1 DEF Merge
<1>6. \A m \in DOMAIN fetch[r].from : \A h \in Hours(m, fetch[r].from[m], fetch[r].end) : <<m, h>> \in got
  OBVIOUS
<1> HIDE DEF got
<1>7. Stamped'
  <2>1. \A m \in Tables : Fits(tables[m])'
    BY <1>1 DEF Stamped, Fits
  <2> QED BY <1>1, <1>2, <1>3, <1>4, <1>5, <2>1 DEF Stamped
<1>8. Settled'
  <2>1. Horizon(tables["candles"]) \in Int /\ Horizon(tables["candles"]) <= now - MaxLatency
    BY <1>2, HorizonIs DEF Stamped, Tables
  <2>2. ~(fetch[r].stamp < Horizon(tables["candles"]))
    BY <1>3, <2>1, TimesAre DEF Stamped
  <2> QED BY <1>1, <1>2, <1>5, <2>2 DEF Settled, HourlySettled, CandlesSettled, StatesSettled
<1> QED BY <1>5, <1>6, <1>7, <1>8

(* A table as its source has it.                                           *)
AsSource(m, table) ==
  /\ m = "hourly" => /\ DOMAIN table \subseteq DOMAIN raw
                     /\ \A k \in DOMAIN raw : k \in DOMAIN table /\ table[k] = [stamp |-> raw[k], whole |-> TRUE]
  /\ m = "candles" => /\ DOMAIN table \subseteq DOMAIN raw
                      /\ \A k \in DOMAIN raw : k[2] >= now - Window =>
                           k \in DOMAIN table /\ table[k] = [stamp |-> raw[k], whole |-> TRUE]
  /\ m = "observed" => IsWhole(table)
  /\ m = "dense" /\ ~overlapped => IsWhole(table)

LEMMA WholeIs ==
  ASSUME NEW f
  PROVE  /\ DOMAIN Whole(f) = DOMAIN f /\ IsWhole(Whole(f))
         /\ Whole(f) = [k \in DOMAIN Whole(f) |-> Whole(f)[k]]
         /\ \A k \in DOMAIN f : Whole(f)[k] = [stamp |-> f[k], whole |-> TRUE] /\ Whole(f)[k].stamp = f[k]
BY DEF Whole, IsWhole

(* What each model selects from.                                           *)
LEMMA SourceIs ==
  ASSUME Stamped, NEW m \in Tables, NEW tabs,
         Fits(tabs["observed"])
  PROVE  /\ Fits(SourceOf(m, tabs))
         /\ (m = "dense" /\ ~overlapped => IsWhole(tabs["observed"])) => AsSource(m, SourceOf(m, tabs))
         /\ m \in {"hourly", "observed"} =>
              /\ DOMAIN SourceOf(m, tabs) = DOMAIN raw
              /\ \A k \in DOMAIN raw : SourceOf(m, tabs)[k] = [stamp |-> raw[k], whole |-> TRUE]
         /\ m = "candles" =>
              /\ DOMAIN SourceOf(m, tabs) = {k \in DOMAIN raw : k[2] >= now - Window}
              /\ \A k \in DOMAIN raw : k[2] >= now - Window =>
                   SourceOf(m, tabs)[k] = [stamp |-> raw[k], whole |-> TRUE]
         /\ m = "dense" => SourceOf(m, tabs) = tabs["observed"]
<1> DEFINE s == SourceOf(m, tabs)
<1>1. CASE m \in {"hourly", "observed"}
  <2>1. s = Whole(raw)
    BY <1>1 DEF SourceOf
  <2> HIDE DEF s
  <2>2. ASSUME NEW k \in DOMAIN s PROVE s[k] \in Row /\ (scope # "soccer" => s[k].stamp <= now)
    <3>0. /\ DOMAIN Whole(raw) = DOMAIN raw
          /\ \A j \in DOMAIN raw : Whole(raw)[j] = [stamp |-> raw[j], whole |-> TRUE] /\ Whole(raw)[j].stamp = raw[j]
      BY WholeIs
    <3>1. k \in DOMAIN raw /\ s[k] = [stamp |-> raw[k], whole |-> TRUE] /\ s[k].stamp = raw[k]
      BY <2>1, <3>0
    <3>2. raw[k] \in Nat /\ (scope # "soccer" => raw[k] <= now)
      BY <3>1 DEF Stamped
    <3> QED BY <3>1, <3>2 DEF Row
  <2>3. Fits(s)
    BY <2>1, <2>2, WholeIs DEF Fits
  <2>4. AsSource(m, s)
    BY <1>1, <2>1, WholeIs DEF AsSource
  <2>5. DOMAIN s = DOMAIN raw
        /\ \A k \in DOMAIN raw : s[k] = [stamp |-> raw[k], whole |-> TRUE]
    BY <2>1, WholeIs
  <2> QED BY <1>1, <2>3, <2>4, <2>5 DEF s
<1>2. CASE m = "candles"
  <2> DEFINE w == {k \in DOMAIN raw : k[2] >= now - Window}
             f == Restrict(raw, w)
  <2>1. s = Whole(f)
    BY <1>2 DEF SourceOf
  <2>2. DOMAIN f = w /\ \A k \in w : f[k] = raw[k]
    BY DEF Restrict
  <2> HIDE DEF s, f
  <2>3. DOMAIN s = w /\ \A k \in w : s[k] = [stamp |-> raw[k], whole |-> TRUE]
    BY <2>1, <2>2, WholeIs
  <2>4. Fits(s)
    <3>1. ASSUME NEW k \in DOMAIN s PROVE s[k] \in Row /\ (scope # "soccer" => s[k].stamp <= now)
      <4>1. k \in DOMAIN raw /\ s[k] = [stamp |-> raw[k], whole |-> TRUE]
        BY <2>3
      <4>2. raw[k] \in Nat /\ (scope # "soccer" => raw[k] <= now)
        BY <4>1 DEF Stamped
      <4> QED BY <4>1, <4>2 DEF Row
    <3> QED BY <2>1, <3>1, WholeIs DEF Fits
  <2>5. AsSource(m, s)
    BY <1>2, <2>3 DEF AsSource
  <2> QED BY <1>2, <2>3, <2>4, <2>5 DEF s
<1>3. CASE m = "dense"
  <2>1. s = tabs["observed"]
    BY <1>3 DEF SourceOf
  <2> QED BY <1>3, <2>1 DEF AsSource
<1> QED BY <1>1, <1>2, <1>3 DEF Tables

(* An incremental build whose filter leaves out nothing it should not gives*)
(* what a full refresh gives.                                              *)
LEMMA IncrementalIs ==
  ASSUME NEW m, NEW tabs,
         SourceOf(m, tabs) = [k \in DOMAIN SourceOf(m, tabs) |-> SourceOf(m, tabs)[k]],
         \A k \in DOMAIN SourceOf(m, tabs) \ Dirty(m, tabs) :
           k \in DOMAIN tabs[m] /\ tabs[m][k] = SourceOf(m, tabs)[k],
         Kept(m, tabs) \cap (Dirty(m, tabs) \cup DOMAIN tabs[m]) = DOMAIN SourceOf(m, tabs)
  PROVE  Incremental(m, tabs) = SourceOf(m, tabs)
<1> DEFINE s == SourceOf(m, tabs)
           d == Dirty(m, tabs)
           built == Merge(Restrict(s, d), tabs[m])
<1>1. DOMAIN Restrict(s, d) = d /\ \A k \in d : Restrict(s, d)[k] = s[k]
  BY DEF Restrict
<1>2. DOMAIN built = d \cup DOMAIN tabs[m] /\ \A k \in DOMAIN built : built[k] = IF k \in d THEN s[k] ELSE tabs[m][k]
  BY <1>1 DEF Merge
<1>3. Incremental(m, tabs) = Restrict(built, Kept(m, tabs) \cap DOMAIN built)
  BY DEF Incremental
<1> HIDE DEF built, d, s
<1>4. \A k \in DOMAIN s : k \in DOMAIN built /\ built[k] = s[k]
  <2>1. DOMAIN s \subseteq DOMAIN built
    BY <1>2 DEF s, d
  <2>2. \A k \in DOMAIN s \ d : tabs[m][k] = s[k]
    BY DEF s, d
  <2> QED BY <1>2, <2>1, <2>2
<1>5. Kept(m, tabs) \cap DOMAIN built = DOMAIN s
  BY <1>2 DEF s, d
<1>6. Incremental(m, tabs) = [k \in DOMAIN s |-> built[k]]
  BY <1>3, <1>5 DEF Restrict
<1>7. s = [k \in DOMAIN s |-> s[k]]
  BY DEF s
<1>8. Incremental(m, tabs) = s
  BY <1>4, <1>6, <1>7
<1> QED BY <1>8 DEF s

LEMMA BuiltFits ==
  ASSUME NEW m, NEW tabs, NEW isFull \in BOOLEAN, Fits(SourceOf(m, tabs)), Fits(tabs[m])
  PROVE  Fits(Built(m, tabs, isFull)) /\ Dirty(m, tabs) \subseteq DOMAIN SourceOf(m, tabs)
<1> DEFINE s == SourceOf(m, tabs)
           d == Dirty(m, tabs)
           built == Merge(Restrict(s, d), tabs[m])
<1>0. d \subseteq DOMAIN s
  BY DEF Dirty
<1>1. DOMAIN Restrict(s, d) = d /\ \A k \in d : Restrict(s, d)[k] = s[k]
  BY DEF Restrict
<1>2. DOMAIN built = d \cup DOMAIN tabs[m] /\ \A k \in DOMAIN built : built[k] = IF k \in d THEN s[k] ELSE tabs[m][k]
  BY <1>1 DEF Merge
<1>3. Incremental(m, tabs) = Restrict(built, Kept(m, tabs) \cap DOMAIN built)
  BY DEF Incremental
<1> HIDE DEF built, d, s
<1>4. \A k \in DOMAIN built : built[k] \in Row /\ (scope # "soccer" => built[k].stamp <= now)
  BY <1>0, <1>2 DEF Fits, s
<1>5. Fits(Incremental(m, tabs))
  <2> DEFINE e == Kept(m, tabs) \cap DOMAIN built
  <2>1. e \subseteq DOMAIN built /\ Incremental(m, tabs) = [k \in e |-> built[k]]
    BY <1>3 DEF Restrict
  <2> HIDE DEF e
  <2> QED BY <1>4, <2>1 DEF Fits
<1> QED BY <1>0, <1>5 DEF Built, s, d

LEMMA RowIs ==
  ASSUME NEW p \in Row, NEW q \in Row, p.stamp = q.stamp, p.whole, q.whole
  PROVE  p = q
<1>1. p.whole = TRUE /\ q.whole = TRUE
  BY DEF Row
<1>2. p = [stamp |-> p.stamp, whole |-> p.whole] /\ q = [stamp |-> q.stamp, whole |-> q.whole]
  BY DEF Row
<1> QED BY <1>1, <1>2

(* What an incremental build takes for granted of the table it works on.   *)
FitToBuild(m, tabs) ==
  /\ Fits(tabs["observed"]) /\ Fits(tabs[m])
  /\ m = "hourly" =>
       /\ scope # "soccer" /\ DOMAIN tabs[m] \subseteq DOMAIN raw
       /\ \A k \in DOMAIN raw : raw[k] < Horizon(tabs[m]) =>
            k \in DOMAIN tabs[m] /\ tabs[m][k] = [stamp |-> raw[k], whole |-> TRUE]
  /\ m = "candles" =>
       /\ scope # "soccer" /\ DOMAIN tabs[m] \subseteq DOMAIN raw
       /\ \A k \in DOMAIN raw : k[2] >= now - Window /\ raw[k] < Horizon(tabs[m]) =>
            k \in DOMAIN tabs[m] /\ tabs[m][k] = [stamp |-> raw[k], whole |-> TRUE]
  /\ m \in {"observed", "dense"} => IsWhole(tabs[m]) /\ (m = "dense" => IsWhole(tabs["observed"]))

LEMMA IncrementalCompletes ==
  ASSUME Stamped, NEW m \in Tables, NEW tabs, FitToBuild(m, tabs)
  PROVE  Incremental(m, tabs) = SourceOf(m, tabs)
<1> DEFINE s == SourceOf(m, tabs)
           d == Dirty(m, tabs)
           t == tabs[m]
<1>1. /\ Fits(s) /\ (m = "observed" => IsWhole(s))
      /\ m \in {"hourly", "observed"} =>
           DOMAIN s = DOMAIN raw /\ \A k \in DOMAIN raw : s[k] = [stamp |-> raw[k], whole |-> TRUE]
      /\ m = "candles" =>
           /\ DOMAIN s = {k \in DOMAIN raw : k[2] >= now - Window}
           /\ \A k \in DOMAIN raw : k[2] >= now - Window => s[k] = [stamp |-> raw[k], whole |-> TRUE]
      /\ m = "dense" => s = tabs["observed"]
  BY SourceIs DEF FitToBuild, AsSource
<1>2. now \in Nat /\ \A k \in DOMAIN raw : raw[k] \in Nat
  BY TimesAre DEF Stamped
<1>3. /\ m \in {"hourly", "candles"} => d = {k \in DOMAIN s : s[k].stamp >= Horizon(t)}
      /\ m \in {"observed", "dense"} => d = {k \in DOMAIN s : k \notin DOMAIN t \/ t[k].stamp # s[k].stamp}
  BY DEF Dirty
<1>4. /\ m = "hourly" => Kept(m, tabs) = DOMAIN t \cup DOMAIN s
      /\ m = "candles" => Kept(m, tabs) = {k \in DOMAIN t \cup DOMAIN raw : k[2] >= now - Window}
      /\ m \in {"observed", "dense"} => Kept(m, tabs) = DOMAIN s
  BY DEF Kept
<1>5. m \in {"hourly", "candles"} => Horizon(t) \in Int
  BY HorizonIs DEF FitToBuild, Stamped
<1>6. /\ m = "hourly" =>
           /\ DOMAIN t \subseteq DOMAIN raw
           /\ \A k \in DOMAIN raw : raw[k] < Horizon(t) => k \in DOMAIN t /\ t[k] = [stamp |-> raw[k], whole |-> TRUE]
      /\ m = "candles" =>
           /\ DOMAIN t \subseteq DOMAIN raw
           /\ \A k \in DOMAIN raw : k[2] >= now - Window /\ raw[k] < Horizon(t) =>
                k \in DOMAIN t /\ t[k] = [stamp |-> raw[k], whole |-> TRUE]
      /\ m \in {"observed", "dense"} => Fits(t) /\ IsWhole(t) /\ IsWhole(s)
  <2> HIDE DEF s, d
  <2>2. m = "dense" => IsWhole(s)
    BY <1>1 DEF FitToBuild
  <2> QED BY <1>1, <2>2 DEF FitToBuild
<1> HIDE DEF s, d, t
<1>7. ASSUME NEW k \in DOMAIN s \ d PROVE k \in DOMAIN t /\ t[k] = s[k]
  <2>1. CASE m \in {"hourly", "candles"}
    <3>1. k \in DOMAIN raw /\ s[k] = [stamp |-> raw[k], whole |-> TRUE] /\ (m = "candles" => k[2] >= now - Window)
      BY <1>1, <2>1
    <3>2. s[k].stamp = raw[k]
      BY <3>1
    <3>3. ~(raw[k] >= Horizon(t))
      BY <1>3, <2>1, <3>2
    <3>4. raw[k] < Horizon(t)
      BY <1>2, <1>5, <2>1, <3>1, <3>3
    <3> QED BY <1>6, <2>1, <3>1, <3>4
  <2>2. CASE m \in {"observed", "dense"}
    <3>1. k \in DOMAIN t /\ t[k].stamp = s[k].stamp
      BY <1>3, <2>2
    <3>2. t[k] \in Row /\ s[k] \in Row
      BY <1>1, <1>6, <2>2, <3>1 DEF Fits
    <3>3. t[k].whole /\ s[k].whole
      BY <1>6, <2>2, <3>1 DEF IsWhole
    <3> QED BY <3>1, <3>2, <3>3, RowIs
  <2> QED BY <2>1, <2>2 DEF Tables
<1>8. Kept(m, tabs) \cap (d \cup DOMAIN t) = DOMAIN s
  <2>0. d \subseteq DOMAIN s /\ DOMAIN s \subseteq d \cup DOMAIN t
    BY <1>7, BuiltFits DEF s, d, t, Dirty
  <2>1. CASE m = "hourly"
    BY <1>1, <1>4, <1>6, <2>0, <2>1
  <2>2. CASE m = "candles"
    BY <1>1, <1>4, <1>6, <2>0, <2>2
  <2>3. CASE m \in {"observed", "dense"}
    BY <1>4, <2>0, <2>3
  <2> QED BY <2>1, <2>2, <2>3 DEF Tables
<1>9. s = [k \in DOMAIN s |-> s[k]]
  BY <1>1 DEF Fits
<1> QED BY <1>7, <1>8, <1>9, IncrementalIs DEF s, d, t

(* One table is rewritten.                                                 *)
LEMMA TableSet ==
  ASSUME Stamped, Settled, NEW m \in Tables, NEW table, tables' = [tables EXCEPT ![m] = table],
         UNCHANGED <<scope, now, raw, overlapped>>, Fits(table),
         broken \ {m} \subseteq broken', m \notin broken' => AsSource(m, table)
  PROVE  Stamped' /\ Settled'
<1>1. \A n \in Tables : tables'[n] = IF n = m THEN table ELSE tables[n]
  BY DEF Stamped
<1>2. Stamped'
  <2>1. ASSUME NEW n \in Tables PROVE Fits(tables[n])'
    <3>1. Fits(tables'[n])
      BY <1>1 DEF Stamped
    <3> QED BY <3>1 DEF Fits
  <2>2. DOMAIN tables' = Tables /\ tables' = [n \in Tables |-> tables'[n]]
    BY DEF Stamped
  <2> QED BY <2>1, <2>2 DEF Stamped
<1>3. HourlySettled'
  <2>1. CASE m = "hourly"
    <3>1. tables'["hourly"] = table
      BY <1>1, <2>1
    <3>2. "hourly" \notin broken' =>
            /\ DOMAIN table \subseteq DOMAIN raw
            /\ \A k \in DOMAIN raw : k \in DOMAIN table /\ table[k] = [stamp |-> raw[k], whole |-> TRUE]
      BY <2>1 DEF AsSource
    <3> QED BY <3>1, <3>2 DEF HourlySettled
  <2>2. CASE m # "hourly"
    <3>1. tables'["hourly"] = tables["hourly"] /\ ("hourly" \notin broken' => "hourly" \notin broken)
      BY <1>1, <2>2 DEF Tables
    <3> QED BY <3>1 DEF Settled, HourlySettled
  <2> QED BY <2>1, <2>2
<1>4. CandlesSettled'
  <2>1. CASE m = "candles"
    <3>1. tables'["candles"] = table
      BY <1>1, <2>1
    <3>2. "candles" \notin broken' =>
            /\ DOMAIN table \subseteq DOMAIN raw
            /\ \A k \in DOMAIN raw : k[2] >= now - Window =>
                 k \in DOMAIN table /\ table[k] = [stamp |-> raw[k], whole |-> TRUE]
      BY <2>1 DEF AsSource
    <3> QED BY <3>1, <3>2 DEF CandlesSettled
  <2>2. CASE m # "candles"
    <3>1. tables'["candles"] = tables["candles"] /\ ("candles" \notin broken' => "candles" \notin broken)
      BY <1>1, <2>2 DEF Tables
    <3> QED BY <3>1 DEF Settled, CandlesSettled
  <2> QED BY <2>1, <2>2
<1>5. StatesSettled'
  <2>1. "observed" \notin broken' => IsWhole(tables'["observed"])
    BY <1>1 DEF Settled, StatesSettled, AsSource, Tables
  <2>2. ~overlapped /\ "dense" \notin broken' => IsWhole(tables'["dense"])
    BY <1>1 DEF Settled, StatesSettled, AsSource, Tables
  <2> QED BY <2>1, <2>2 DEF StatesSettled, IsWhole
<1> QED BY <1>2, <1>3, <1>4, <1>5 DEF Settled

(* Its child builds dense only when observed is whole.                     *)
LEMMA DenseComesLast ==
  ASSUME scope \in Scopes, Family, Clean, Settled, NEW r \in Runs, child[r].todo # << >>,
         Head(child[r].todo) = "dense", ~overlapped
  PROVE  "observed" \notin broken /\ IsWhole(tables["observed"])
<1>1. ChildOK(child[r])
  BY DEF Family
<1>2. child[r].todo = <<"dense">>
  BY <1>1, TodoIs
<1> QED BY <1>2 DEF Clean, Settled, StatesSettled

(* What a build of a model gives settles it.                               *)
LEMMA BuiltIsSource ==
  ASSUME scope \in Scopes, Stamped, Settled, NEW m \in Range(Models), NEW isFull \in BOOLEAN,
         ~isFull => m \notin broken,
         m = "dense" => ~overlapped /\ IsWhole(tables["observed"])
  PROVE  Built(m, tables, isFull) = SourceOf(m, tables) /\ AsSource(m, SourceOf(m, tables))
<1>1. m \in Tables /\ (m = "hourly" => scope = "wc2026") /\ (m = "candles" => scope = "kalshi")
  BY ModelsOf, ScopeAssumption DEF Range
<1>2. Fits(tables["observed"]) /\ Fits(tables[m])
  BY <1>1 DEF Stamped, Tables
<1>3. AsSource(m, SourceOf(m, tables))
  BY <1>1, <1>2, SourceIs
<1>4. ~isFull => FitToBuild(m, tables)
  BY <1>1, <1>2 DEF FitToBuild, Settled, HourlySettled, CandlesSettled, StatesSettled
<1>5. ~isFull => Incremental(m, tables) = SourceOf(m, tables)
  BY <1>1, <1>4, IncrementalCompletes
<1> QED BY <1>3, <1>5 DEF Built

LEMMA BuildModelKeepsData ==
  ASSUME scope \in Scopes, Family, Clean, Stamped, Settled, NEW r \in Runs, BuildModel(r)
  PROVE  Stamped' /\ Settled'
<1> DEFINE m == Head(child[r].todo)
           table == Built(m, tables, child[r].full)
<1>1. /\ child[r].todo # << >> /\ tables' = [tables EXCEPT ![m] = table]
      /\ broken' = (IF child[r].full THEN broken \ {m} ELSE broken)
      /\ UNCHANGED <<scope, now, raw, overlapped>>
  BY DEF BuildModel
<1>2. ChildOK(child[r]) /\ m \in Range(Models) /\ child[r].full \in BOOLEAN
  BY <1>1, TodoIs DEF Family, ChildOK, Children
<1>3. m \in Tables
  BY <1>2, ModelsOf
<1>4. m = "dense" /\ ~overlapped => IsWhole(tables["observed"])
  BY <1>1, DenseComesLast
<1>5. Fits(tables["observed"]) /\ Fits(tables[m])
  BY <1>3 DEF Stamped, Tables
<1>6. Fits(SourceOf(m, tables))
  BY <1>3, <1>5, SourceIs
<1>7. Fits(table)
  BY <1>2, <1>5, <1>6, BuiltFits
<1>8. m \notin broken' => AsSource(m, table)
  <2>1. CASE m = "dense" /\ overlapped
    BY <2>1 DEF AsSource
  <2>2. CASE ~(m = "dense" /\ overlapped)
    <3> SUFFICES ASSUME m \notin broken' PROVE AsSource(m, table)
      OBVIOUS
    <3>1. ~child[r].full => m \notin broken
      BY <1>1
    <3>2. m = "dense" => ~overlapped /\ IsWhole(tables["observed"])
      BY <1>4, <2>2
    <3> HIDE DEF m
    <3>3. table = SourceOf(m, tables) /\ AsSource(m, SourceOf(m, tables))
      BY <1>2, <3>1, <3>2, BuiltIsSource
    <3> QED BY <3>3
  <2> QED BY <2>1, <2>2
<1>9. broken \ {m} \subseteq broken'
  BY <1>1
<1> HIDE DEF m, table
<1> QED BY <1>1, <1>3, <1>7, <1>8, <1>9, TableSet

LEMMA ChildDiesKeepsData ==
  ASSUME scope \in Scopes, Family, Stamped, Settled, NEW r \in Runs, ChildDies(r)
  PROVE  Stamped' /\ Settled'
<1> DEFINE m == Head(child[r].todo)
<1>1. /\ UNCHANGED <<scope, now, raw, overlapped>>
      /\ \/ UNCHANGED <<tables, broken>>
         \/ /\ child[r].todo # << >>
            /\ \E table \in Remains(m) : tables' = [tables EXCEPT ![m] = table] /\ broken' = broken \cup {m}
  BY DEF ChildDies
<1>2. CASE UNCHANGED <<tables, broken>>
  BY <1>1, <1>2, DataStays
<1>3. CASE /\ child[r].todo # << >>
           /\ \E table \in Remains(m) : tables' = [tables EXCEPT ![m] = table] /\ broken' = broken \cup {m}
  <2>1. m \in Tables
    <3>1. m \in Range(Models)
      BY <1>3, TodoIs DEF Family
    <3> QED BY <3>1, ModelsOf
  <2>2. PICK table \in Remains(m) : tables' = [tables EXCEPT ![m] = table] /\ broken' = broken \cup {m}
    BY <1>3
  <2> HIDE DEF m
  <2> DEFINE d == Dirty(m, tables)
             s == SourceOf(m, tables)
             t == tables[m]
             rest == Restrict(t, DOMAIN t \ d)
  <2>3. Fits(s) /\ Fits(t) /\ d \subseteq DOMAIN s
    <3>1. Fits(tables["observed"]) /\ Fits(tables[m])
      BY <2>1 DEF Stamped, Tables
    <3>2. Fits(s)
      BY <2>1, <3>1, SourceIs
    <3> QED BY <3>1, <3>2 DEF Dirty
  <2>4. PICK S \in SUBSET d, w \in BOOLEAN : table = Merge([k \in S |-> Half(s[k], w)], rest)
    <3>1. PICK S \in SUBSET d, w \in Parts : table = Left(m, S, w)
      BY <2>2 DEF Remains
    <3>2. w \in BOOLEAN
      BY DEF Parts
    <3>3. Left(m, S, w) = Merge([k \in S |-> Half(s[k], w)], rest)
      BY DEF Left
    <3> QED BY <3>1, <3>2, <3>3
  <2> HIDE DEF d, s, t
  <2>5. DOMAIN rest \subseteq DOMAIN t /\ \A k \in DOMAIN rest : rest[k] = t[k]
    BY DEF Restrict
  <2>6. ASSUME NEW k \in S
        PROVE  Half(s[k], w) \in Row /\ Half(s[k], w).stamp = s[k].stamp
    <3>1. s[k] \in Row
      BY <2>3 DEF Fits
    <3> QED BY <3>1 DEF Row, Half
  <2> HIDE DEF rest
  <2>7. /\ DOMAIN table = S \cup DOMAIN rest
        /\ \A k \in DOMAIN table : table[k] = IF k \in S THEN Half(s[k], w) ELSE rest[k]
        /\ table = [k \in DOMAIN table |-> table[k]]
    BY <2>4 DEF Merge
  <2>8. ASSUME NEW k \in DOMAIN table PROVE table[k] \in Row /\ (scope # "soccer" => table[k].stamp <= now)
    <3>1. CASE k \in S
      BY <2>3, <2>6, <2>7, <3>1 DEF Fits
    <3>2. CASE k \notin S
      BY <2>3, <2>5, <2>7, <3>2 DEF Fits
    <3> QED BY <3>1, <3>2
  <2>9. Fits(table)
    BY <2>7, <2>8 DEF Fits
  <2> QED BY <1>1, <2>1, <2>2, <2>9, TableSet
<1> QED BY <1>1, <1>2, <1>3

------------------------------------------------------------------------------
(* Steps of the Kalshi pipeline *)

LEMMA MaxOfTwo ==
  ASSUME NEW a \in Int, NEW b \in Int
  PROVE  Max({a, b}) = IF a >= b THEN a ELSE b
<1>1. CASE a >= b
  <2>1. a \in {a, b} /\ \A y \in {a, b} : a >= y
    BY <1>1
  <2>2. Max({a, b}) \in {a, b} /\ \A y \in {a, b} : Max({a, b}) >= y
    BY <2>1 DEF Max
  <2> QED BY <1>1, <2>2
<1>2. CASE ~(a >= b)
  <2>1. b \in {a, b} /\ \A y \in {a, b} : b >= y
    BY <1>2
  <2>2. Max({a, b}) \in {a, b} /\ \A y \in {a, b} : Max({a, b}) >= y
    BY <2>1 DEF Max
  <2> QED BY <1>2, <2>2
<1> QED BY <1>1, <1>2

LEMMA AfterIs ==
  ASSUME NEW r
  PROVE  /\ After(r, "markets") \in {"done", "registry"} /\ After(r, "registry") \in {"done", "candles"}
         /\ After(r, "candles") \in {"done", "dbt"}
<1>1. Steps[1] = "markets" /\ Steps[2] = "registry" /\ Steps[3] = "candles" /\ Steps[4] = "dbt"
  BY DEF Steps
<1>2. (CHOOSE i \in 1..3 : Steps[i] = "markets") = 1
  BY <1>1
<1>3. (CHOOSE i \in 1..3 : Steps[i] = "registry") = 2
  BY <1>1
<1>4. (CHOOSE i \in 1..3 : Steps[i] = "candles") = 3
  BY <1>1
<1> QED BY <1>1, <1>2, <1>3, <1>4 DEF After

LEMMA HoursReach ==
  ASSUME now \in Time, NEW m \in Listed, NEW hours \in Nat, NEW from \in {now - hours, Max({now - hours, Opens[m]})}
  PROVE  from \in Int /\ Hours(m, now - hours, now) \subseteq Hours(m, from, now)
<1>1. now \in Int /\ hours \in Int /\ Opens[m] \in Int
  BY TimesAre, OpensAssumption, TimeAssumption DEF Listed, Time
<1>2. from = now - hours \/ from = IF now - hours >= Opens[m] THEN now - hours ELSE Opens[m]
  BY <1>1, MaxOfTwo
<1>3. ASSUME NEW h \in Hours(m, now - hours, now) PROVE h \in Hours(m, from, now)
  <2>1. h \in Time /\ h \in Int /\ now - hours <= h + 1 /\ h + 1 <= now /\ Opens[m] <= h
    BY TimeAssumption DEF Hours, Time
  <2>2. from <= h + 1
    BY <1>1, <1>2, <2>1
  <2> QED BY <2>1, <2>2 DEF Hours
<1> QED BY <1>1, <1>2, <1>3

(* Where no run's package, candlesticks or tables change.                  *)
KalshiKept == UNCHANGED <<scope, now, raw, kalshi>> /\ (overlapped => overlapped')

LEMMA KalshiStays ==
  ASSUME KalshiInv, KalshiKept,
         \A q \in Runs : \/ pc'[q] = pc[q]
                         \/ pc[q] \notin Fetching /\ pc'[q] \notin Collecting \cup Fetching \cup {"metrics"}
                            /\ pc'[q] \notin Outside \ (Ended \cup {"dbt"})
  PROVE  KalshiInv'
<1> USE DEF KalshiKept, kalshi, collection, runs
<1>1. Memory'
  <2>1. \A q \in Runs : pc'[q] \notin Fetching => fetch'[q] = NoFetch
    BY DEF KalshiInv, Memory
  <2>2. \A q \in Runs : pc'[q] \in Outside \ (Ended \cup {"dbt"}) => pc[q] \in Outside \ (Ended \cup {"dbt"})
    OBVIOUS
  <2>3. Listed' = Listed
    BY DEF Listed
  <2> QED BY <2>1, <2>2, <2>3 DEF KalshiInv, Memory, OnRuns
<1>2. OnePackage'
  <2>1. \A q \in Runs : pc'[q] \in Collecting \cup {"metrics"} => pc'[q] = pc[q]
    OBVIOUS
  <2>2. ~overlapped' => ~overlapped
    OBVIOUS
  <2>3. ASSUME ~overlapped', NEW p \in Runs, NEW q \in Runs, {pc'[p], pc'[q]} \subseteq Collecting PROVE p = q
    <3>1. pc'[p] = pc[p] /\ pc'[q] = pc[q]
      BY <2>1, <2>3
    <3> QED BY <2>2, <2>3, <3>1 DEF KalshiInv, OnePackage
  <2>4. ASSUME ~overlapped', NEW q \in Runs
        PROVE  /\ pc'[q] \in {"collect", "extract"} => pending = NoPackage
               /\ pc'[q] = "load" => collected[q] \subseteq pending.markets
               /\ pc'[q] = "metrics" => collected[q] \subseteq landed
    BY <2>1, <2>2, <2>4 DEF KalshiInv, OnePackage, Collecting
  <2> QED BY <2>3, <2>4 DEF OnePackage
<1>3. FetchReaches'
  <2>1. \A q \in Runs : pc'[q] \in Fetching => pc'[q] = pc[q]
    OBVIOUS
  <2> QED BY <2>1 DEF KalshiInv, FetchReaches, Hours, Fetching
<1>4. CheckedHoursAreStored'
  BY DEF KalshiInv, CheckedHoursAreStored, Hours
<1> QED BY <1>1, <1>2, <1>3, <1>4 DEF KalshiInv

(* A run of the Kalshi pipeline goes on to a place.                        *)
LEMMA GoesOn ==
  ASSUME KalshiInv, Family, NEW r \in Runs, NEW place, Goto(r, place, 1),
         pc[r] \in Outside \ (Ended \cup {"dbt"})
  PROVE  /\ scope = "kalshi" /\ pc'[r] = place /\ \A q \in Runs : q # r => pc'[q] = pc[q]
         /\ at' = [at EXCEPT ![r] = 1] /\ full' = full /\ pc' = [pc EXCEPT ![r] = place]
BY DEF Goto, Family, KalshiInv, Memory

LEMMA DropPendingKeeps ==
  ASSUME KalshiInv, Family, NEW r \in Runs, DropPending(r)
  PROVE  KalshiInv' /\ Elsewhere(r, "collect")
<1>1. /\ pc[r] = "markets" /\ pending' = NoPackage /\ Goto(r, "collect", 1)
      /\ overlapped' = (overlapped \/ \E q \in Runs : pc[q] \in Collecting)
      /\ UNCHANGED <<scope, now, raw, tables, marks, lock, child, broken, registry, landed, refreshed, ledger,
                     last, collected, fetch>>
  BY DEF DropPending, Pending, files, process, runs, Collecting
<1>2. /\ scope = "kalshi" /\ pc'[r] = "collect" /\ \A q \in Runs : q # r => pc'[q] = pc[q]
      /\ at' = [at EXCEPT ![r] = 1] /\ full' = full /\ pc' = [pc EXCEPT ![r] = "collect"]
  BY <1>1, GoesOn DEF Outside, Ended
<1>3. Memory'
  <2>1. NoPackage.markets \subseteq registry
    BY DEF NoPackage
  <2>2. \A q \in Runs : pc'[q] \notin Fetching => fetch'[q] = NoFetch
    BY <1>1, <1>2 DEF KalshiInv, Memory, Fetching
  <2> QED BY <1>1, <1>2, <2>1, <2>2 DEF KalshiInv, Memory, OnRuns, Listed
<1>4. OnePackage'
  <2>1. ~overlapped' => ~overlapped /\ \A q \in Runs : pc[q] \notin Collecting
    BY <1>1
  <2>2. ~overlapped' => \A q \in Runs : pc'[q] \in Collecting => q = r
    BY <1>2, <2>1
  <2> QED BY <1>1, <1>2, <2>1, <2>2 DEF KalshiInv, OnePackage, Collecting
<1>5. FetchReaches'
  BY <1>1, <1>2 DEF KalshiInv, FetchReaches, Hours
<1>6. CheckedHoursAreStored'
  BY <1>1 DEF KalshiInv, CheckedHoursAreStored, Hours
<1>7. Elsewhere(r, "collect")
  BY <1>1, <1>2 DEF Elsewhere, Outside, Ended, Family
<1> QED BY <1>3, <1>4, <1>5, <1>6, <1>7 DEF KalshiInv

LEMMA CollectMarketsKeeps ==
  ASSUME KalshiInv, Family, NEW r \in Runs, CollectMarkets(r)
  PROVE  KalshiInv' /\ Elsewhere(r, "extract")
<1>1. PICK found \in SUBSET Listed :
        lock = NoRun /\ registry' = registry \cup found /\ collected' = [collected EXCEPT ![r] = found]
  BY DEF CollectMarkets, Collect, Collections, Registered
<1>2. /\ pc[r] = "collect" /\ Goto(r, "extract", 1)
      /\ UNCHANGED <<scope, now, raw, tables, marks, lock, child, overlapped, broken, landed, pending,
                     refreshed, ledger, last, fetch>>
  BY DEF CollectMarkets, files, process, history
<1>3. /\ scope = "kalshi" /\ pc'[r] = "extract" /\ \A q \in Runs : q # r => pc'[q] = pc[q]
      /\ at' = [at EXCEPT ![r] = 1] /\ full' = full /\ pc' = [pc EXCEPT ![r] = "extract"]
  BY <1>2, GoesOn DEF Outside, Ended
<1>4. Memory'
  <2>1. registry \subseteq registry' /\ registry' \subseteq Listed /\ found \subseteq registry'
    BY <1>1 DEF KalshiInv, Memory
  <2>2. \A q \in Runs : pc'[q] \notin Fetching => fetch'[q] = NoFetch
    BY <1>2, <1>3 DEF KalshiInv, Memory, Fetching
  <2>3. collected' \in [Runs -> SUBSET registry']
    BY <1>1, <2>1 DEF KalshiInv, Memory
  <2>4. /\ landed \subseteq registry' /\ pending.markets \subseteq registry' /\ DOMAIN ledger \subseteq registry'
        /\ \A q \in Runs : DOMAIN fetch[q].from \subseteq registry'
    BY <2>1 DEF KalshiInv, Memory
  <2> QED BY <1>2, <1>3, <2>1, <2>2, <2>3, <2>4 DEF KalshiInv, Memory, OnRuns, Listed
<1>5. OnePackage'
  <2> SUFFICES ASSUME ~overlapped PROVE OnePackage'
    BY <1>2 DEF OnePackage
  <2>1. \A q \in Runs : pc'[q] \in Collecting <=> pc[q] \in Collecting
    BY <1>2, <1>3 DEF Collecting
  <2>2. pending' = NoPackage
    BY <1>2 DEF KalshiInv, OnePackage
  <2>3. \A q \in Runs : q # r => collected'[q] = collected[q]
    BY <1>1 DEF KalshiInv, Memory
  <2> QED BY <1>2, <1>3, <2>1, <2>2, <2>3 DEF KalshiInv, OnePackage
<1>6. FetchReaches'
  BY <1>2, <1>3 DEF KalshiInv, FetchReaches, Hours
<1>7. CheckedHoursAreStored'
  BY <1>2 DEF KalshiInv, CheckedHoursAreStored, Hours
<1>8. Elsewhere(r, "extract")
  BY <1>2, <1>3 DEF Elsewhere, Outside, Ended, Family
<1> QED BY <1>4, <1>5, <1>6, <1>7, <1>8 DEF KalshiInv

LEMMA ExtractKeeps ==
  ASSUME KalshiInv, Family, NEW r \in Runs, Extract(r)
  PROVE  KalshiInv' /\ Elsewhere(r, "load")
<1>1. /\ pc[r] = "extract" /\ Goto(r, "load", 1)
      /\ pending' = IF pending.is THEN pending ELSE [markets |-> collected[r], is |-> TRUE]
      /\ UNCHANGED <<scope, now, raw, tables, marks, lock, child, overlapped, broken, registry, landed,
                     refreshed, ledger, last, collected, fetch>>
  BY DEF Extract, files, process, history, runs
<1>2. /\ scope = "kalshi" /\ pc'[r] = "load" /\ \A q \in Runs : q # r => pc'[q] = pc[q]
      /\ at' = [at EXCEPT ![r] = 1] /\ full' = full /\ pc' = [pc EXCEPT ![r] = "load"]
  BY <1>1, GoesOn DEF Outside, Ended
<1>3. Memory'
  <2>1. pending'.markets \subseteq registry
    BY <1>1 DEF KalshiInv, Memory
  <2>2. \A q \in Runs : pc'[q] \notin Fetching => fetch'[q] = NoFetch
    BY <1>1, <1>2 DEF KalshiInv, Memory, Fetching
  <2> QED BY <1>1, <1>2, <2>1, <2>2 DEF KalshiInv, Memory, OnRuns, Listed
<1>4. OnePackage'
  <2> SUFFICES ASSUME ~overlapped PROVE OnePackage'
    BY <1>1 DEF OnePackage
  <2>1. \A q \in Runs : pc'[q] \in Collecting <=> pc[q] \in Collecting
    BY <1>1, <1>2 DEF Collecting
  <2>2. \A p, q \in Runs : {pc'[p], pc'[q]} \subseteq Collecting => p = q
    BY <2>1 DEF KalshiInv, OnePackage
  <2>3. pending'.markets = collected[r]
    <3>1. ~pending.is
      BY <1>1 DEF KalshiInv, OnePackage, NoPackage
    <3> QED BY <1>1, <3>1
  <2>4. \A q \in Runs : q # r => pc'[q] \notin Collecting
    BY <1>2, <2>2 DEF Collecting
  <2> QED BY <1>1, <1>2, <2>2, <2>3, <2>4 DEF KalshiInv, OnePackage, Collecting
<1>5. FetchReaches'
  BY <1>1, <1>2 DEF KalshiInv, FetchReaches, Hours
<1>6. CheckedHoursAreStored'
  BY <1>1 DEF KalshiInv, CheckedHoursAreStored, Hours
<1>7. Elsewhere(r, "load")
  BY <1>1, <1>2 DEF Elsewhere, Outside, Ended, Family
<1> QED BY <1>3, <1>4, <1>5, <1>6, <1>7 DEF KalshiInv

LEMMA LoadKeeps ==
  ASSUME KalshiInv, Family, NEW r \in Runs, Load(r)
  PROVE  KalshiInv' /\ Elsewhere(r, "metrics")
<1>1. /\ pc[r] = "load" /\ Goto(r, "metrics", 1)
      /\ landed' = landed \cup pending.markets /\ pending' = NoPackage
      /\ UNCHANGED <<scope, now, raw, tables, marks, lock, child, overlapped, broken, registry,
                     refreshed, ledger, last, collected, fetch>>
  BY DEF Load, files, process, history, runs
<1>2. /\ scope = "kalshi" /\ pc'[r] = "metrics" /\ \A q \in Runs : q # r => pc'[q] = pc[q]
      /\ at' = [at EXCEPT ![r] = 1] /\ full' = full /\ pc' = [pc EXCEPT ![r] = "metrics"]
  BY <1>1, GoesOn DEF Outside, Ended
<1>3. Memory'
  <2>1. NoPackage.markets \subseteq registry /\ landed' \subseteq registry
    BY <1>1 DEF NoPackage, KalshiInv, Memory
  <2>2. \A q \in Runs : pc'[q] \notin Fetching => fetch'[q] = NoFetch
    BY <1>1, <1>2 DEF KalshiInv, Memory, Fetching
  <2> QED BY <1>1, <1>2, <2>1, <2>2 DEF KalshiInv, Memory, OnRuns, Listed
<1>4. OnePackage'
  <2> SUFFICES ASSUME ~overlapped PROVE OnePackage'
    BY <1>1 DEF OnePackage
  <2>1. \A q \in Runs : q # r => pc'[q] \notin Collecting
    BY <1>1, <1>2 DEF KalshiInv, OnePackage, Collecting
  <2>2. collected[r] \subseteq pending.markets
    BY <1>1 DEF KalshiInv, OnePackage
  <2>3. pc'[r] \notin Collecting
    BY <1>2 DEF Collecting
  <2> QED BY <1>1, <1>2, <2>1, <2>2, <2>3 DEF KalshiInv, OnePackage, Collecting
<1>5. FetchReaches'
  BY <1>1, <1>2 DEF KalshiInv, FetchReaches, Hours
<1>6. CheckedHoursAreStored'
  BY <1>1 DEF KalshiInv, CheckedHoursAreStored, Hours
<1>7. Elsewhere(r, "metrics")
  BY <1>1, <1>2 DEF Elsewhere, Outside, Ended, Family
<1> QED BY <1>3, <1>4, <1>5, <1>6, <1>7 DEF KalshiInv

LEMMA SaveMetricsKeeps ==
  ASSUME KalshiInv, Family, NEW r \in Runs, SaveMetrics(r)
  PROVE  KalshiInv' /\ Elsewhere(r, After(r, "markets"))
<1> DEFINE place == After(r, "markets")
<1>0. place \in {"done", "registry"}
  BY AfterIs
<1>1. /\ pc[r] = "metrics" /\ Goto(r, place, 1)
      /\ refreshed' = TRUE /\ collected' = [collected EXCEPT ![r] = {}]
      /\ UNCHANGED <<scope, now, raw, tables, marks, lock, child, overlapped, broken, registry, landed,
                     pending, ledger, last, fetch>>
  BY DEF SaveMetrics, files, process, history
<1> HIDE DEF place
<1>2. /\ scope = "kalshi" /\ pc'[r] = place /\ \A q \in Runs : q # r => pc'[q] = pc[q]
      /\ at' = [at EXCEPT ![r] = 1] /\ full' = full /\ pc' = [pc EXCEPT ![r] = place]
  BY <1>1, GoesOn DEF Outside, Ended
<1>3. collected' \in [Runs -> SUBSET registry] /\ \A q \in Runs : q # r => collected'[q] = collected[q]
  BY <1>1 DEF KalshiInv, Memory
<1>4. Memory'
  <2>2. \A q \in Runs : pc'[q] \notin Fetching => fetch'[q] = NoFetch
    BY <1>1, <1>2 DEF KalshiInv, Memory, Fetching
  <2> QED BY <1>1, <1>2, <1>3, <2>2 DEF KalshiInv, Memory, OnRuns, Listed
<1>5. OnePackage'
  <2>1. pc'[r] \notin Collecting \cup {"metrics"}
    BY <1>0, <1>2 DEF Collecting
  <2> QED BY <1>1, <1>2, <1>3, <2>1 DEF KalshiInv, OnePackage, Collecting
<1>6. FetchReaches'
  BY <1>0, <1>1, <1>2 DEF KalshiInv, FetchReaches, Hours
<1>7. CheckedHoursAreStored'
  BY <1>1 DEF KalshiInv, CheckedHoursAreStored, Hours
<1>8. Elsewhere(r, place)
  BY <1>0, <1>1, <1>2 DEF Elsewhere, Outside, Ended, Family
<1> QED BY <1>4, <1>5, <1>6, <1>7, <1>8 DEF KalshiInv, place

LEMMA RefreshRegistryKeeps ==
  ASSUME KalshiInv, Family, NEW r \in Runs, RefreshRegistry(r)
  PROVE  KalshiInv' /\ Elsewhere(r, After(r, "registry"))
<1> DEFINE place == After(r, "registry")
<1>0. place \in {"done", "candles"}
  BY AfterIs
<1>1. /\ pc[r] = "registry" /\ Goto(r, place, 1)
      /\ UNCHANGED <<scope, now, raw, tables, marks, lock, child, overlapped, broken, landed,
                     pending, refreshed, ledger, last, collected, fetch>>
  BY DEF RefreshRegistry, files, process, history, runs
<1>2. registry \subseteq registry' /\ registry' \subseteq Listed
  BY DEF RefreshRegistry, Collect, Collections, Registered, KalshiInv, Memory
<1> HIDE DEF place
<1>3. /\ scope = "kalshi" /\ pc'[r] = place /\ \A q \in Runs : q # r => pc'[q] = pc[q]
      /\ at' = [at EXCEPT ![r] = 1] /\ full' = full /\ pc' = [pc EXCEPT ![r] = place]
  BY <1>1, GoesOn DEF Outside, Ended
<1>4. Memory'
  <2>1. \A q \in Runs : pc'[q] \notin Fetching => fetch'[q] = NoFetch
    BY <1>1, <1>3 DEF KalshiInv, Memory, Fetching
  <2>2. collected' \in [Runs -> SUBSET registry']
    BY <1>1, <1>2 DEF KalshiInv, Memory
  <2>3. /\ landed \subseteq registry' /\ pending.markets \subseteq registry' /\ DOMAIN ledger \subseteq registry'
        /\ \A q \in Runs : DOMAIN fetch[q].from \subseteq registry'
    BY <1>2 DEF KalshiInv, Memory
  <2> QED BY <1>1, <1>2, <1>3, <2>1, <2>2, <2>3 DEF KalshiInv, Memory, OnRuns, Listed
<1>5. OnePackage'
  <2>1. pc'[r] \notin Collecting \cup {"metrics"}
    BY <1>0, <1>3 DEF Collecting
  <2> QED BY <1>1, <1>3, <2>1 DEF KalshiInv, OnePackage, Collecting
<1>6. FetchReaches'
  BY <1>0, <1>1, <1>3 DEF KalshiInv, FetchReaches, Hours
<1>7. CheckedHoursAreStored'
  BY <1>1 DEF KalshiInv, CheckedHoursAreStored, Hours
<1>8. Elsewhere(r, place)
  BY <1>0, <1>1, <1>3 DEF Elsewhere, Outside, Ended, Family
<1> QED BY <1>4, <1>5, <1>6, <1>7, <1>8 DEF KalshiInv, place

LEMMA RegistryFailsKeeps ==
  ASSUME KalshiInv, Family, NEW r \in Runs, RegistryFails(r)
  PROVE  KalshiInv' /\ Elsewhere(r, "failed")
<1>1. /\ pc[r] = "registry" /\ Goto(r, "failed", 1) /\ refreshed' \in {FALSE, refreshed}
      /\ UNCHANGED <<scope, now, raw, tables, marks, lock, child, overlapped, broken, registry, landed,
                     pending, ledger, last, collected, fetch>>
  BY DEF RegistryFails, files, process, history, runs
<1>2. /\ scope = "kalshi" /\ pc'[r] = "failed" /\ \A q \in Runs : q # r => pc'[q] = pc[q]
      /\ at' = [at EXCEPT ![r] = 1] /\ full' = full /\ pc' = [pc EXCEPT ![r] = "failed"]
  BY <1>1, GoesOn DEF Outside, Ended
<1>3. Memory'
  <2>1. \A q \in Runs : pc'[q] \notin Fetching => fetch'[q] = NoFetch
    BY <1>1, <1>2 DEF KalshiInv, Memory, Fetching
  <2>2. refreshed' \in BOOLEAN
    BY <1>1 DEF KalshiInv, Memory
  <2> QED BY <1>1, <1>2, <2>1, <2>2 DEF KalshiInv, Memory, OnRuns, Listed
<1>4. OnePackage'
  BY <1>1, <1>2 DEF KalshiInv, OnePackage, Collecting
<1>5. FetchReaches'
  BY <1>1, <1>2 DEF KalshiInv, FetchReaches, Hours
<1>6. CheckedHoursAreStored'
  BY <1>1 DEF KalshiInv, CheckedHoursAreStored, Hours
<1>7. Elsewhere(r, "failed")
  BY <1>1, <1>2 DEF Elsewhere, Outside, Ended, Family
<1> QED BY <1>3, <1>4, <1>5, <1>6, <1>7 DEF KalshiInv

(* What a run has in memory of its candlesticks.                           *)
FetchOK(f) ==
  /\ DOMAIN f.from \subseteq registry /\ f.end \in Time /\ f.end <= now
  /\ \A m \in DOMAIN f.from : f.from[m] \in Int
  /\ f = [from |-> f.from, hours |-> f.hours, end |-> f.end, stamp |-> f.stamp] /\ f.stamp \in Nat /\ f.stamp <= now
  /\ \A m \in DOMAIN f.from : Hours(m, f.end - f.hours, f.end) \subseteq Hours(m, f.from[m], f.end)

LEMMA FetchKept ==
  ASSUME KalshiInv, Family, NEW r \in Runs, NEW f, NEW place \in Fetching, FetchOK(f),
         fetch' = [fetch EXCEPT ![r] = f], Goto(r, place, 1), pc[r] \in {"candles"} \cup Fetching,
         UNCHANGED <<scope, now, raw, marks, lock, child, overlapped, broken, collection, ledger, last, collected>>,
         place = "fetched" => now <= f.stamp + MaxLatency, place # "saved"
  PROVE  KalshiInv' /\ Elsewhere(r, place)
<1> USE DEF collection
<1>1. /\ scope = "kalshi" /\ pc'[r] = place /\ \A q \in Runs : q # r => pc'[q] = pc[q]
      /\ at' = [at EXCEPT ![r] = 1] /\ full' = full /\ pc' = [pc EXCEPT ![r] = place]
  BY GoesOn DEF Outside, Ended, Fetching
<1>2. fetch'[r] = f /\ \A q \in Runs : q # r => fetch'[q] = fetch[q]
  BY DEF KalshiInv, Memory, OnRuns
<1>3. Memory'
  <2>1. \A q \in Runs : pc'[q] \notin Fetching => fetch'[q] = NoFetch
    BY <1>1, <1>2 DEF KalshiInv, Memory
  <2>2. OnRuns(fetch')
    BY DEF KalshiInv, Memory, OnRuns
  <2>3. ASSUME NEW q \in Runs
        PROVE  /\ DOMAIN fetch'[q].from \subseteq registry /\ fetch'[q].end \in Time /\ fetch'[q].end <= now
               /\ \A m \in DOMAIN fetch'[q].from : fetch'[q].from[m] \in Int
               /\ fetch'[q] = [from |-> fetch'[q].from, hours |-> fetch'[q].hours, end |-> fetch'[q].end, stamp |-> fetch'[q].stamp]
               /\ fetch'[q].stamp \in Nat /\ fetch'[q].stamp <= now
    <3>1. CASE q = r
      BY <1>2, <3>1 DEF FetchOK
    <3>2. CASE q # r
      BY <1>2, <3>2 DEF KalshiInv, Memory
    <3> QED BY <3>1, <3>2
  <2> QED BY <1>1, <2>1, <2>2, <2>3 DEF KalshiInv, Memory, OnRuns, Listed
<1>4. OnePackage'
  BY <1>1 DEF KalshiInv, OnePackage, Collecting, Fetching
<1>5. FetchReaches'
  <2>1. ASSUME NEW q \in Runs
        PROVE  /\ pc'[q] = "fetched" => now <= fetch'[q].stamp + MaxLatency
               /\ \A m \in DOMAIN fetch'[q].from :
                    Hours(m, fetch'[q].end - fetch'[q].hours, fetch'[q].end) \subseteq Hours(m, fetch'[q].from[m], fetch'[q].end)
               /\ pc'[q] = "saved" => \A m \in DOMAIN fetch'[q].from :
                    \A h \in Hours(m, fetch'[q].end - fetch'[q].hours, fetch'[q].end) : <<m, h>> \in DOMAIN raw
    <3>1. CASE q = r
      BY <1>1, <1>2, <3>1 DEF FetchOK
    <3>2. CASE q # r
      BY <1>1, <1>2, <3>2 DEF KalshiInv, FetchReaches
    <3> QED BY <3>1, <3>2
  <2> QED BY <2>1 DEF FetchReaches, Hours
<1>6. CheckedHoursAreStored'
  BY DEF KalshiInv, CheckedHoursAreStored, Hours
<1>7. Elsewhere(r, place)
  BY <1>1 DEF Elsewhere, Outside, Ended, Family, Fetching
<1> QED BY <1>3, <1>4, <1>5, <1>6, <1>7 DEF KalshiInv

LEMMA ReadDueKeeps ==
  ASSUME KalshiInv, Stamped, Family, NEW r \in Runs, ReadDue(r)
  PROVE  KalshiInv' /\ Elsewhere(r, "fetching")
<1>1. /\ pc[r] = "candles" /\ Goto(r, "fetching", 1)
      /\ UNCHANGED <<scope, now, raw, marks, lock, child, overlapped, broken, collection, ledger, last, collected>>
  BY DEF ReadDue, files, process, history
<1>2. PICK due \in {DueMarkets, registry}, backfill \in Backfills :
        fetch' = [fetch EXCEPT ![r] =
          [from |-> [m \in due |-> StartOf(m, Trailing(backfill))], hours |-> Trailing(backfill), end |-> now, stamp |-> 0]]
  BY DEF ReadDue
<1> DEFINE hours == Trailing(backfill)
           from == [m \in due |-> StartOf(m, hours)]
           f == [from |-> from, hours |-> hours, end |-> now, stamp |-> 0]
<1>3. due \subseteq registry
  BY DEF DueMarkets
<1>4. now \in Time /\ now \in Nat
  BY TimesAre DEF Stamped
<1>5. ASSUME NEW m \in due
      PROVE  from[m] \in Int /\ Hours(m, now - hours, now) \subseteq Hours(m, from[m], now)
  <2>1. hours \in Nat
    BY BackfillsAssumption, TimeAssumption DEF Trailing
  <2> HIDE DEF hours
  <2>2. m \in Listed /\ from[m] \in {now - hours, Max({now - hours, Opens[m]})}
    BY <1>3 DEF KalshiInv, Memory, StartOf
  <2> QED BY <1>4, <2>1, <2>2, HoursReach
<1>6. FetchOK(f)
  <2>1. f.from = from /\ f.hours = hours /\ f.end = now /\ f.stamp = 0 /\ DOMAIN from = due
    OBVIOUS
  <2>2. f = [from |-> f.from, hours |-> f.hours, end |-> f.end, stamp |-> f.stamp]
    OBVIOUS
  <2> HIDE DEF f, from, hours
  <2> QED BY <1>3, <1>4, <1>5, <2>1, <2>2 DEF FetchOK
<1> HIDE DEF f, from, hours
<1>7. fetch' = [fetch EXCEPT ![r] = f]
  BY <1>2 DEF f, from, hours
<1> QED BY <1>1, <1>6, <1>7, FetchKept DEF Fetching

LEMMA FetchCandlesKeeps ==
  ASSUME KalshiInv, Stamped, Family, NEW r \in Runs, FetchCandles(r)
  PROVE  KalshiInv' /\ Elsewhere(r, "fetched")
<1>1. /\ pc[r] = "fetching" /\ Goto(r, "fetched", 1)
      /\ UNCHANGED <<scope, now, raw, marks, lock, child, overlapped, broken, collection, ledger, last, collected>>
  BY DEF FetchCandles, files, process, history
<1>2. PICK got \in SUBSET DOMAIN fetch[r].from :
        fetch' = [fetch EXCEPT ![r].from = Restrict(fetch[r].from, got), ![r].stamp = now]
  BY DEF FetchCandles, Answered
<1> DEFINE from == Restrict(fetch[r].from, got)
           f == [from |-> from, hours |-> fetch[r].hours, end |-> fetch[r].end, stamp |-> now]
<1>3. now \in Nat /\ MaxLatency \in Nat
  BY TimesAre DEF Stamped
<1>4. DOMAIN from = got /\ \A m \in got : from[m] = fetch[r].from[m]
  BY DEF Restrict
<1>5. fetch[r] = [from |-> fetch[r].from, hours |-> fetch[r].hours, end |-> fetch[r].end, stamp |-> fetch[r].stamp]
  BY DEF KalshiInv, Memory
<1> HIDE DEF from
<1>6. fetch' = [fetch EXCEPT ![r] = f]
  <2>1. fetch' = [fetch EXCEPT ![r].from = from, ![r].stamp = now]
    BY <1>2 DEF from
  <2>2. fetch'[r] = f
    BY <1>5, <2>1 DEF KalshiInv, Memory, OnRuns
  <2>3. DOMAIN fetch' = DOMAIN fetch /\ \A q \in DOMAIN fetch : q # r => fetch'[q] = fetch[q]
    BY <2>1
  <2>4. fetch' = [q \in DOMAIN fetch |-> fetch'[q]]
    BY <2>1
  <2> HIDE DEF f
  <2> QED BY <2>2, <2>3, <2>4
<1>7. FetchOK(f)
  <2>1. f.from = from /\ f.hours = fetch[r].hours /\ f.end = fetch[r].end /\ f.stamp = now
    OBVIOUS
  <2>2. f = [from |-> f.from, hours |-> f.hours, end |-> f.end, stamp |-> f.stamp]
    OBVIOUS
  <2> HIDE DEF f
  <2>3. DOMAIN f.from \subseteq registry /\ \A m \in DOMAIN f.from : f.from[m] \in Int
    BY <1>4, <2>1 DEF KalshiInv, Memory
  <2>4. \A m \in DOMAIN f.from : Hours(m, f.end - f.hours, f.end) \subseteq Hours(m, f.from[m], f.end)
    BY <1>4, <2>1 DEF KalshiInv, FetchReaches
  <2>5. f.end \in Time /\ f.end <= now
    BY <2>1 DEF KalshiInv, Memory
  <2> QED BY <1>3, <2>1, <2>2, <2>3, <2>4, <2>5 DEF FetchOK
<1>8. now <= f.stamp + MaxLatency
  BY <1>3
<1> HIDE DEF f
<1> QED BY <1>1, <1>6, <1>7, <1>8, FetchKept DEF Fetching

LEMMA SaveCandlesKeeps ==
  ASSUME KalshiInv, Stamped, Settled, Family, NEW r \in Runs, SaveCandles(r)
  PROVE  KalshiInv' /\ Stamped' /\ Settled' /\ Elsewhere(r, "saved")
<1>1. /\ pc[r] = "fetched" /\ Goto(r, "saved", 1)
      /\ UNCHANGED <<scope, now, marks, lock, child, overlapped, broken, registry, landed, pending,
                     refreshed, ledger, last, collected, fetch>>
  BY DEF SaveCandles, process, history, kalshi, collection, runs
<1>2. /\ Stamped' /\ Settled' /\ DOMAIN raw \subseteq DOMAIN raw'
      /\ \A m \in DOMAIN fetch[r].from : \A h \in Hours(m, fetch[r].from[m], fetch[r].end) : <<m, h>> \in DOMAIN raw'
  BY SaveCandlesKeepsData DEF KalshiInv
<1>3. /\ scope = "kalshi" /\ pc'[r] = "saved" /\ \A q \in Runs : q # r => pc'[q] = pc[q]
      /\ at' = [at EXCEPT ![r] = 1] /\ full' = full /\ pc' = [pc EXCEPT ![r] = "saved"]
  BY <1>1, GoesOn DEF Outside, Ended
<1>4. Memory'
  <2>1. \A q \in Runs : pc'[q] \notin Fetching => fetch'[q] = NoFetch
    BY <1>1, <1>3 DEF KalshiInv, Memory, Fetching
  <2> QED BY <1>1, <1>3, <2>1 DEF KalshiInv, Memory, OnRuns, Listed
<1>5. OnePackage'
  BY <1>1, <1>3 DEF KalshiInv, OnePackage, Collecting
<1>6. FetchReaches'
  <2>1. ASSUME NEW q \in Runs, pc'[q] = "saved", NEW m \in DOMAIN fetch[q].from,
               NEW h \in Hours(m, fetch[q].end - fetch[q].hours, fetch[q].end)
        PROVE  <<m, h>> \in DOMAIN raw'
    <3>1. CASE q = r
      <4>1. h \in Hours(m, fetch[r].from[m], fetch[r].end)
        BY <2>1, <3>1 DEF KalshiInv, FetchReaches
      <4> QED BY <1>2, <2>1, <3>1, <4>1
    <3>2. CASE q # r
      BY <1>2, <1>3, <2>1, <3>2 DEF KalshiInv, FetchReaches
    <3> QED BY <3>1, <3>2
  <2>2. \A q \in Runs : pc'[q] = "fetched" => pc[q] = "fetched"
    BY <1>1, <1>3
  <2> QED BY <1>1, <2>1, <2>2 DEF KalshiInv, FetchReaches, Hours
<1>7. CheckedHoursAreStored'
  BY <1>1, <1>2 DEF KalshiInv, CheckedHoursAreStored, Hours
<1>8. Elsewhere(r, "saved")
  BY <1>1, <1>3 DEF Elsewhere, Outside, Ended, Family
<1> QED BY <1>2, <1>4, <1>5, <1>6, <1>7, <1>8 DEF KalshiInv

LEMMA NoFetchIs == DOMAIN NoFetch.from = {} /\ NoFetch.end = 0 /\ NoFetch.stamp = 0
                   /\ NoFetch = [from |-> NoFetch.from, hours |-> NoFetch.hours, end |-> NoFetch.end, stamp |-> NoFetch.stamp]
BY DEF NoFetch

(* What a run forgets of its candlesticks leaves the others alone.         *)
LEMMA Forgets ==
  ASSUME Memory, Stamped, NEW r \in Runs, fetch' = [fetch EXCEPT ![r] = NoFetch]
  PROVE  /\ OnRuns(fetch') /\ fetch'[r] = NoFetch /\ \A q \in Runs : q # r => fetch'[q] = fetch[q]
         /\ \A q \in Runs : /\ DOMAIN fetch'[q].from \subseteq registry /\ fetch'[q].end \in Time /\ fetch'[q].end <= now
                            /\ \A m \in DOMAIN fetch'[q].from : fetch'[q].from[m] \in Int
                            /\ fetch'[q] = [from |-> fetch'[q].from, hours |-> fetch'[q].hours, end |-> fetch'[q].end, stamp |-> fetch'[q].stamp]
                            /\ fetch'[q].stamp \in Nat /\ fetch'[q].stamp <= now
<1>1. OnRuns(fetch') /\ fetch'[r] = NoFetch /\ \A q \in Runs : q # r => fetch'[q] = fetch[q]
  BY DEF Memory, OnRuns
<1>2. 0 \in Time /\ 0 <= now
  BY TimeAssumption, TimesAre DEF Time, Stamped
<1>3. ASSUME NEW q \in Runs
      PROVE  /\ DOMAIN fetch'[q].from \subseteq registry /\ fetch'[q].end \in Time /\ fetch'[q].end <= now
             /\ \A m \in DOMAIN fetch'[q].from : fetch'[q].from[m] \in Int
             /\ fetch'[q] = [from |-> fetch'[q].from, hours |-> fetch'[q].hours, end |-> fetch'[q].end, stamp |-> fetch'[q].stamp]
             /\ fetch'[q].stamp \in Nat /\ fetch'[q].stamp <= now
  <2>1. CASE q = r
    BY <1>1, <1>2, <2>1, NoFetchIs
  <2>2. CASE q # r
    BY <1>1, <2>2 DEF Memory
  <2> QED BY <2>1, <2>2
<1> QED BY <1>1, <1>3

LEMMA WriteLedgerKeeps ==
  ASSUME KalshiInv, Stamped, Family, NEW r \in Runs, WriteLedger(r)
  PROVE  KalshiInv' /\ Elsewhere(r, After(r, "candles"))
<1> DEFINE place == After(r, "candles")
           new == [m \in DOMAIN fetch[r].from |->
                    [next |-> now + Interval, hours |-> fetch[r].hours, end |-> fetch[r].end]]
<1>0. place \in {"done", "dbt"}
  BY AfterIs
<1>1. /\ pc[r] = "saved" /\ Goto(r, place, 1) /\ fetch' = [fetch EXCEPT ![r] = NoFetch]
      /\ ledger' = Merge(new, ledger)
      /\ UNCHANGED <<scope, now, raw, tables, marks, lock, child, overlapped, broken, registry, landed,
                     pending, refreshed, last, collected>>
  BY DEF WriteLedger, Checked, files, process, history, collection
<1> HIDE DEF place
<1>2. /\ scope = "kalshi" /\ pc'[r] = place /\ \A q \in Runs : q # r => pc'[q] = pc[q]
      /\ at' = [at EXCEPT ![r] = 1] /\ full' = full /\ pc' = [pc EXCEPT ![r] = place]
  BY <1>1, GoesOn DEF Outside, Ended
<1>3. /\ DOMAIN ledger' = DOMAIN fetch[r].from \cup DOMAIN ledger
      /\ \A m \in DOMAIN ledger' : IF m \in DOMAIN fetch[r].from
           THEN /\ ledger'[m].next = now + Interval
                /\ ledger'[m].hours = fetch[r].hours /\ ledger'[m].end = fetch[r].end
           ELSE ledger'[m] = ledger[m]
  BY <1>1 DEF Merge
<1>4. now \in Nat /\ Interval \in Nat
  BY TimesAre, OpensAssumption DEF Stamped
<1>5. Memory'
  <2>1. \A q \in Runs : pc'[q] \notin Fetching => fetch'[q] = NoFetch
    BY <1>2, <1>1, Forgets DEF KalshiInv, Memory
  <2>2. /\ DOMAIN ledger' \subseteq registry
        /\ \A m \in DOMAIN ledger' : ledger'[m].next \in Nat /\ ledger'[m].end \in Time
    <3>1. DOMAIN fetch[r].from \subseteq registry /\ fetch[r].end \in Time /\ DOMAIN ledger \subseteq registry
          /\ \A m \in DOMAIN ledger : ledger[m].next \in Nat /\ ledger[m].end \in Time
      BY DEF KalshiInv, Memory
    <3> HIDE DEF new
    <3>2. now + Interval \in Nat
      BY <1>4
    <3>3. ASSUME NEW m \in DOMAIN ledger' PROVE ledger'[m].next \in Nat /\ ledger'[m].end \in Time
      BY <1>3, <3>1, <3>2
    <3>4. DOMAIN ledger' \subseteq registry
      BY <1>3, <3>1
    <3> QED BY <3>3, <3>4
  <2>3. /\ OnRuns(fetch')
        /\ \A q \in Runs : /\ DOMAIN fetch'[q].from \subseteq registry /\ fetch'[q].end \in Time /\ fetch'[q].end <= now
                           /\ \A m \in DOMAIN fetch'[q].from : fetch'[q].from[m] \in Int
                           /\ fetch'[q] = [from |-> fetch'[q].from, hours |-> fetch'[q].hours, end |-> fetch'[q].end, stamp |-> fetch'[q].stamp]
                           /\ fetch'[q].stamp \in Nat /\ fetch'[q].stamp <= now
    BY <1>1, Forgets DEF KalshiInv
  <2> HIDE DEF new
  <2> QED BY <1>1, <1>2, <2>1, <2>2, <2>3 DEF KalshiInv, Memory, OnRuns, Listed
<1>6. OnePackage'
  BY <1>0, <1>1, <1>2 DEF KalshiInv, OnePackage, Collecting
<1>7. FetchReaches'
  <2>1. fetch'[r] = NoFetch /\ pc'[r] \notin Fetching /\ \A q \in Runs : q # r => fetch'[q] = fetch[q]
    BY <1>0, <1>1, <1>2, Forgets DEF KalshiInv, Fetching
  <2>2. ASSUME NEW q \in Runs
        PROVE  /\ pc'[q] = "fetched" => now <= fetch'[q].stamp + MaxLatency
               /\ \A m \in DOMAIN fetch'[q].from :
                    Hours(m, fetch'[q].end - fetch'[q].hours, fetch'[q].end) \subseteq Hours(m, fetch'[q].from[m], fetch'[q].end)
               /\ pc'[q] = "saved" => \A m \in DOMAIN fetch'[q].from :
                    \A h \in Hours(m, fetch'[q].end - fetch'[q].hours, fetch'[q].end) : <<m, h>> \in DOMAIN raw
    <3>1. CASE q = r
      BY <2>1, <3>1, NoFetchIs DEF Fetching
    <3>2. CASE q # r
      BY <1>2, <2>1, <3>2 DEF KalshiInv, FetchReaches
    <3> QED BY <3>1, <3>2
  <2> QED BY <1>1, <2>2 DEF FetchReaches, Hours
<1>8. CheckedHoursAreStored'
  <2>1. ASSUME NEW m \in DOMAIN ledger', NEW h \in Hours(m, ledger'[m].end - ledger'[m].hours, ledger'[m].end)
        PROVE  <<m, h>> \in DOMAIN raw
    <3>1. CASE m \in DOMAIN fetch[r].from
      BY <1>1, <1>3, <2>1, <3>1 DEF KalshiInv, FetchReaches
    <3>2. CASE m \notin DOMAIN fetch[r].from
      BY <1>3, <2>1, <3>2 DEF KalshiInv, CheckedHoursAreStored
    <3> QED BY <3>1, <3>2
  <2> QED BY <1>1, <2>1 DEF CheckedHoursAreStored, Hours
<1>9. Elsewhere(r, place)
  BY <1>0, <1>1, <1>2 DEF Elsewhere, Outside, Ended, Family
<1> QED BY <1>5, <1>6, <1>7, <1>8, <1>9 DEF KalshiInv, place

LEMMA RunEndsKeeps ==
  ASSUME KalshiInv, Stamped, Family, NEW r \in Runs, RunEnds(r)
  PROVE  KalshiInv' /\ Dies(r)
<1>1. /\ Dies(r) /\ fetch' = [fetch EXCEPT ![r] = NoFetch] /\ collected' = [collected EXCEPT ![r] = {}]
      /\ UNCHANGED <<scope, now, raw, tables, registry, landed, pending, refreshed, ledger, last>>
  BY DEF RunEnds, LockedOut, RunDies, NeedsWarehouse, Goto, Dies, files, process, history, collection
<1>2. /\ pc'[r] = "failed" /\ \A q \in Runs : q # r => pc'[q] = pc[q]
      /\ UNCHANGED <<overlapped>>
  BY <1>1 DEF Dies, Family
<1>3. collected' \in [Runs -> SUBSET registry] /\ \A q \in Runs : q # r => collected'[q] = collected[q]
  BY <1>1 DEF KalshiInv, Memory
<1>4. fetch'[r] = NoFetch /\ \A q \in Runs : q # r => fetch'[q] = fetch[q]
  BY <1>1, Forgets DEF KalshiInv
<1>5. Memory'
  <2>1. \A q \in Runs : pc'[q] \notin Fetching => fetch'[q] = NoFetch
    BY <1>2, <1>4 DEF KalshiInv, Memory
  <2>2. /\ OnRuns(fetch')
        /\ \A q \in Runs : /\ DOMAIN fetch'[q].from \subseteq registry /\ fetch'[q].end \in Time /\ fetch'[q].end <= now
                           /\ \A m \in DOMAIN fetch'[q].from : fetch'[q].from[m] \in Int
                           /\ fetch'[q] = [from |-> fetch'[q].from, hours |-> fetch'[q].hours, end |-> fetch'[q].end, stamp |-> fetch'[q].stamp]
                           /\ fetch'[q].stamp \in Nat /\ fetch'[q].stamp <= now
    BY <1>1, Forgets DEF KalshiInv
  <2>3. scope # "kalshi" => \A q \in Runs : pc'[q] \notin Outside \ (Ended \cup {"dbt"})
    BY <1>2 DEF KalshiInv, Memory, Ended
  <2> QED BY <1>1, <1>3, <2>1, <2>2, <2>3 DEF KalshiInv, Memory, OnRuns, Listed
<1>6. OnePackage'
  BY <1>1, <1>2, <1>3 DEF KalshiInv, OnePackage, Collecting
<1>7. FetchReaches'
  <2>2. ASSUME NEW q \in Runs
        PROVE  /\ pc'[q] = "fetched" => now <= fetch'[q].stamp + MaxLatency
               /\ \A m \in DOMAIN fetch'[q].from :
                    Hours(m, fetch'[q].end - fetch'[q].hours, fetch'[q].end) \subseteq Hours(m, fetch'[q].from[m], fetch'[q].end)
               /\ pc'[q] = "saved" => \A m \in DOMAIN fetch'[q].from :
                    \A h \in Hours(m, fetch'[q].end - fetch'[q].hours, fetch'[q].end) : <<m, h>> \in DOMAIN raw
    <3>1. CASE q = r
      BY <1>2, <1>4, <3>1, NoFetchIs
    <3>2. CASE q # r
      BY <1>2, <1>4, <3>2 DEF KalshiInv, FetchReaches
    <3> QED BY <3>1, <3>2
  <2> QED BY <1>1, <2>2 DEF FetchReaches, Hours
<1>8. CheckedHoursAreStored'
  BY <1>1 DEF KalshiInv, CheckedHoursAreStored, Hours
<1> QED BY <1>1, <1>5, <1>6, <1>7, <1>8 DEF KalshiInv

LEMMA StartKeeps ==
  ASSUME KalshiInv, Family, NEW r \in Runs, Start(r)
  PROVE  KalshiInv' /\ \E place : Elsewhere(r, place)
<1>1. PICK range \in IF scope = "kalshi" THEN Ranges ELSE {<<"dbt", "dbt">>} :
        pc' = [pc EXCEPT ![r] = range[1]] /\ last' = [last EXCEPT ![r] = range[2]]
  BY DEF Start
<1> DEFINE place == range[1]
<1>2. /\ pc[r] = "idle" /\ at' = at
      /\ UNCHANGED <<scope, now, raw, tables, marks, lock, child, full, overlapped, broken, registry, landed,
                     pending, refreshed, ledger, collected, fetch>>
  BY DEF Start, files, process, history, collection
<1>3. /\ place \in {"markets", "registry", "candles", "dbt"} /\ range[2] \in {"registry", "candles", "dbt"}
      /\ (scope # "kalshi" => place = "dbt")
  <2>1. CASE scope = "kalshi"
    BY <2>1 DEF Ranges
  <2>2. CASE scope # "kalshi"
    BY <2>2
  <2> QED BY <2>1, <2>2
<1>4. pc' = [pc EXCEPT ![r] = place] /\ pc'[r] = place /\ \A q \in Runs : q # r => pc'[q] = pc[q]
  BY <1>1 DEF Family
<1>5. last' \in [Runs -> {"registry", "candles", "dbt"}]
  BY <1>1, <1>3 DEF KalshiInv, Memory
<1> HIDE DEF place
<1>6. Memory'
  <2>1. \A q \in Runs : pc'[q] \notin Fetching => fetch'[q] = NoFetch
    BY <1>2, <1>4 DEF KalshiInv, Memory, Fetching
  <2>2. scope # "kalshi" => \A q \in Runs : pc'[q] \notin Outside \ (Ended \cup {"dbt"})
    BY <1>3, <1>4 DEF KalshiInv, Memory
  <2> QED BY <1>2, <1>5, <2>1, <2>2 DEF KalshiInv, Memory, OnRuns, Listed
<1>7. OnePackage'
  BY <1>2, <1>3, <1>4 DEF KalshiInv, OnePackage, Collecting
<1>8. FetchReaches'
  BY <1>2, <1>3, <1>4 DEF KalshiInv, FetchReaches, Hours
<1>9. CheckedHoursAreStored'
  BY <1>2 DEF KalshiInv, CheckedHoursAreStored, Hours
<1>10. Elsewhere(r, place)
  BY <1>2, <1>3, <1>4 DEF Elsewhere, Outside, Ended, Family
<1> QED BY <1>6, <1>7, <1>8, <1>9, <1>10 DEF KalshiInv

LEMMA TickKeeps ==
  ASSUME KalshiInv, Stamped, Tick
  PROVE  KalshiInv'
<1>1. /\ now' = now + 1 /\ \A r \in Runs : pc[r] = "fetched" => now < fetch[r].stamp + MaxLatency
      /\ UNCHANGED <<scope, raw, pc, overlapped, registry, landed, pending, refreshed, ledger, last, collected, fetch>>
  BY DEF Tick, files, step, history, kalshi, collection, runs
<1>2. now \in Nat /\ MaxLatency \in Nat
  BY TimesAre DEF Stamped
<1>3. Memory'
  <2>1. \A x \in Int : x <= now => x <= now'
    BY <1>1, <1>2
  <2>2. Listed \subseteq Listed'
    <3>1. \A m \in Markets : Opens[m] \in Int
      BY OpensAssumption, TimeAssumption DEF Time
    <3> QED BY <2>1, <3>1 DEF Listed
  <2>3. \A r \in Runs : fetch[r].end \in Int /\ fetch[r].end <= now /\ fetch[r].stamp \in Int /\ fetch[r].stamp <= now
    <3>1. \A t \in Time : t \in Int
      BY TimeAssumption DEF Time
    <3>2. \A r \in Runs : fetch[r].end \in Time /\ fetch[r].end <= now /\ fetch[r].stamp \in Nat /\ fetch[r].stamp <= now
      BY DEF KalshiInv, Memory
    <3> QED BY <3>1, <3>2
  <2>4. registry \subseteq Listed'
    BY <2>2 DEF KalshiInv, Memory
  <2>5. \A r \in Runs : fetch[r].end <= now' /\ fetch[r].stamp <= now'
    BY <2>1, <2>3
  <2> QED BY <1>1, <2>4, <2>5 DEF KalshiInv, Memory, OnRuns
<1>4. OnePackage'
  BY <1>1 DEF KalshiInv, OnePackage
<1>5. FetchReaches'
  <2>1. ASSUME NEW r \in Runs, pc[r] = "fetched" PROVE now' <= fetch[r].stamp + MaxLatency
    <3>1. fetch[r].stamp \in Nat /\ now < fetch[r].stamp + MaxLatency
      BY <1>1, <2>1 DEF KalshiInv, Memory
    <3> QED BY <1>1, <1>2, <3>1
  <2> QED BY <1>1, <2>1 DEF KalshiInv, FetchReaches, Hours
<1>6. CheckedHoursAreStored'
  BY <1>1 DEF KalshiInv, CheckedHoursAreStored, Hours
<1> QED BY <1>3, <1>4, <1>5, <1>6 DEF KalshiInv

(* Beside the Kalshi scope the raw rows are no candlesticks.               *)
LEMMA SyncKeeps ==
  ASSUME KalshiInv, NEW k, Land(k) \/ Revise(k), UNCHANGED kalshi
  PROVE  KalshiInv'
<1>1. scope # "kalshi" /\ UNCHANGED <<scope, now, pc, overlapped, registry, landed, pending, refreshed, ledger, last, collected, fetch>>
  BY DEF Land, Revise, step, history, kalshi, collection, runs
<1>2. ledger = << >> /\ registry = {} /\ \A r \in Runs : DOMAIN fetch[r].from = {}
  BY <1>1 DEF KalshiInv, Memory
<1>3. Memory'
  BY <1>1 DEF KalshiInv, Memory, OnRuns, Listed
<1>4. OnePackage'
  BY <1>1 DEF KalshiInv, OnePackage
<1>5. FetchReaches'
  BY <1>1, <1>2 DEF KalshiInv, FetchReaches
<1>6. CheckedHoursAreStored'
  BY <1>1, <1>2 DEF CheckedHoursAreStored
<1> QED BY <1>3, <1>4, <1>5, <1>6 DEF KalshiInv

(* Steps of a build and of its child leave a run within its build, or end it. *)
Within(r) ==
  /\ \A q \in Runs : q # r => pc'[q] = pc[q]
  /\ \/ pc'[r] = pc[r]
     \/ pc[r] \in Preparing \cup {"dbt", "recovering", "building"}
        /\ pc'[r] \in Preparing \cup {"recovering", "building", "done", "failed"}

LEMMA GotoWithin ==
  ASSUME Family, NEW r \in Runs, NEW place, NEW i, Goto(r, place, i),
         pc[r] \in Preparing, place \in Preparing \cup {"recovering", "building", "done", "failed"}
  PROVE  Within(r)
BY DEF Goto, Family, Within

LEMMA BuildStepWithin ==
  ASSUME Family, NEW r \in Runs, BuildStep(r)
  PROVE  /\ Within(r) /\ UNCHANGED <<scope, now, raw, tables, broken>>
         /\ (overlapped => overlapped')
<1> USE DEF files, process, step, history, Preparing
<1>1. CASE BeginBuild(r)
  <2>1. pc'[r] \in {"launch", "recover"} /\ \A q \in Runs : q # r => pc'[q] = pc[q]
    BY <1>1 DEF BeginBuild, Family
  <2> QED BY <1>1, <2>1 DEF BeginBuild, Within
<1>2. CASE CheckMark(r)
  <2>1. \E place \in {"mark", "relaunch", "recover"} : \E i : Goto(r, place, i)
    BY <1>2 DEF CheckMark
  <2> QED BY <1>2, <2>1, GotoWithin DEF CheckMark
<1>3. CASE Unmark(r)
  BY <1>3, GotoWithin DEF Unmark
<1>4. CASE Mark(r)
  <2>1. \E place \in {"mark", "launch"} : \E i : Goto(r, place, i)
    BY <1>4 DEF Mark
  <2> QED BY <1>4, <2>1, GotoWithin DEF Mark
<1>5. CASE Launch(r)
  <2>1. \E place \in {"recovering", "building"} : \E i : Goto(r, place, i)
    BY <1>5 DEF Launch
  <2> QED BY <1>5, <2>1, GotoWithin DEF Launch
<1>6. CASE Clear(r)
  <2>1. \E place \in {"done", "clear"} : \E i : Goto(r, place, i)
    BY <1>6 DEF Clear
  <2> QED BY <1>6, <2>1, GotoWithin DEF Clear
<1> QED BY <1>1, <1>2, <1>3, <1>4, <1>5, <1>6 DEF BuildStep

LEMMA ChildStepWithin ==
  ASSUME Family, NEW r \in Runs, ChildStep(r)
  PROVE  Within(r) /\ UNCHANGED <<scope, now, raw>> /\ (overlapped => overlapped')
<1> USE DEF files, process, step, history, Preparing
<1>1. CASE BuildModel(r)
  BY <1>1 DEF BuildModel, Within
<1>2. ASSUME ChildExits(r) \/ ChildDies(r) PROVE Within(r)
  <2>1. child[r] # NoChild
    BY <1>2 DEF ChildExits, ChildDies
  <2>2. pc[r] \in {"recovering", "building", "failed"}
    BY <2>1 DEF Family, ParentOK
  <2>3. \E place \in {"unmark", "done", "clear", "failed"} : pc' = Goes(r, place)
    BY <1>2 DEF ChildExits, ChildDies, FailedBuild
  <2>4. PICK place \in {"unmark", "done", "clear", "failed"} : pc' = Goes(r, place)
    BY <2>3
  <2>5. CASE pc[r] = "failed"
    BY <2>4, <2>5 DEF Goes, Live, Ended, Within
  <2>6. CASE pc[r] \in {"recovering", "building"}
    <3>1. pc' = [pc EXCEPT ![r] = place]
      BY <2>4, <2>6 DEF Goes, Live, Ended
    <3> QED BY <2>6, <3>1 DEF Family, Within
  <2> QED BY <2>2, <2>5, <2>6
<1>3. CASE ChildExits(r)
  BY <1>2, <1>3 DEF ChildExits
<1>4. CASE ChildDies(r)
  BY <1>2, <1>4 DEF ChildDies
<1> QED BY <1>1, <1>3, <1>4 DEF ChildStep

LEMMA BuildKeepsKalshi ==
  ASSUME KalshiInv, Family, NEW r \in Runs, BuildStep(r) \/ ChildStep(r), UNCHANGED kalshi
  PROVE  KalshiInv'
<1>1. Within(r) /\ KalshiKept
  BY BuildStepWithin, ChildStepWithin DEF KalshiKept
<1>2. \A q \in Runs : \/ pc'[q] = pc[q]
                      \/ pc[q] \notin Fetching /\ pc'[q] \notin Collecting \cup Fetching \cup {"metrics"}
                         /\ pc'[q] \notin Outside \ (Ended \cup {"dbt"})
  BY <1>1 DEF Within, Preparing, Collecting, Fetching, Outside, Ended
<1> QED BY <1>1, <1>2, KalshiStays

LEMMA KalshiStepKeeps ==
  ASSUME scope \in Scopes, BuildInv, KalshiInv, NEW r \in Runs, KalshiStep(r)
  PROVE  BuildInv' /\ KalshiInv' /\ UNCHANGED scope
<1> USE DEF files, process, history
<1>1. Family /\ OneBuild /\ Clean /\ Stamped /\ Settled
  BY DEF BuildInv
<1>2. ASSUME SaveCandles(r) PROVE KalshiInv' /\ Stamped' /\ Settled' /\ Elsewhere(r, "saved")
  BY <1>1, <1>2, SaveCandlesKeeps
<1>3. ASSUME ~SaveCandles(r) PROVE UNCHANGED <<scope, now, raw, tables, broken>> /\ (overlapped => overlapped')
  <2>1. CASE DropPending(r)
    BY <2>1 DEF DropPending
  <2>2. CASE CollectMarkets(r)
    BY <2>2 DEF CollectMarkets
  <2>3. CASE Extract(r)
    BY <2>3 DEF Extract
  <2>4. CASE Load(r)
    BY <2>4 DEF Load
  <2>5. CASE SaveMetrics(r)
    BY <2>5 DEF SaveMetrics
  <2>6. CASE RefreshRegistry(r)
    BY <2>6 DEF RefreshRegistry
  <2>7. CASE RegistryFails(r)
    BY <2>7 DEF RegistryFails
  <2>8. CASE ReadDue(r)
    BY <2>8 DEF ReadDue
  <2>9. CASE FetchCandles(r)
    BY <2>9 DEF FetchCandles
  <2>10. CASE WriteLedger(r)
    BY <2>10 DEF WriteLedger
  <2> QED BY <1>3, <2>1, <2>2, <2>3, <2>4, <2>5, <2>6, <2>7, <2>8, <2>9, <2>10 DEF KalshiStep
<1>4. ASSUME ~SaveCandles(r) PROVE Stamped' /\ Settled'
  BY <1>1, <1>3, <1>4, DataStays
<1>5. ASSUME ~SaveCandles(r) PROVE KalshiInv' /\ \E place : Elsewhere(r, place)
  <2>1. CASE DropPending(r)
    BY <1>1, <2>1, DropPendingKeeps
  <2>2. CASE CollectMarkets(r)
    BY <1>1, <2>2, CollectMarketsKeeps
  <2>3. CASE Extract(r)
    BY <1>1, <2>3, ExtractKeeps
  <2>4. CASE Load(r)
    BY <1>1, <2>4, LoadKeeps
  <2>5. CASE SaveMetrics(r)
    BY <1>1, <2>5, SaveMetricsKeeps
  <2>6. CASE RefreshRegistry(r)
    BY <1>1, <2>6, RefreshRegistryKeeps
  <2>7. CASE RegistryFails(r)
    BY <1>1, <2>7, RegistryFailsKeeps
  <2>8. CASE ReadDue(r)
    BY <1>1, <2>8, ReadDueKeeps
  <2>9. CASE FetchCandles(r)
    BY <1>1, <2>9, FetchCandlesKeeps
  <2>10. CASE WriteLedger(r)
    BY <1>1, <2>10, WriteLedgerKeeps
  <2> QED BY <1>5, <2>1, <2>2, <2>3, <2>4, <2>5, <2>6, <2>7, <2>8, <2>9, <2>10 DEF KalshiStep
<1>6. KalshiInv' /\ Stamped' /\ Settled' /\ \E place : Elsewhere(r, place)
  BY <1>2, <1>4, <1>5
<1>7. PICK place : Elsewhere(r, place)
  BY <1>6
<1>8. Family' /\ OneBuild' /\ Clean'
  BY <1>1, <1>7, ElsewhereKeeps
<1> QED BY <1>6, <1>7, <1>8 DEF BuildInv, Elsewhere

LEMMA RunEndsKeepsAll ==
  ASSUME scope \in Scopes, BuildInv, KalshiInv, NEW r \in Runs, RunEnds(r)
  PROVE  BuildInv' /\ KalshiInv' /\ UNCHANGED scope
<1>1. Family /\ OneBuild /\ Clean /\ Stamped /\ Settled
  BY DEF BuildInv
<1>2. KalshiInv' /\ Dies(r)
  BY <1>1, RunEndsKeeps
<1>3. Family' /\ OneBuild' /\ Clean'
  BY <1>1, <1>2, DiesKeeps
<1>4. UNCHANGED <<scope, now, raw, tables, broken>> /\ (overlapped => overlapped')
  BY DEF RunEnds, LockedOut, RunDies, files, history
<1>5. Stamped' /\ Settled'
  BY <1>1, <1>4, DataStays
<1> QED BY <1>2, <1>3, <1>4, <1>5 DEF BuildInv

LEMMA BuildKeepsAll ==
  ASSUME scope \in Scopes, BuildInv, KalshiInv, NEW r \in Runs, BuildStep(r) \/ ChildStep(r), UNCHANGED kalshi
  PROVE  BuildInv' /\ KalshiInv' /\ UNCHANGED scope
<1>1. Family /\ OneBuild /\ Clean /\ Stamped /\ Settled
  BY DEF BuildInv
<1>2. KalshiInv'
  BY <1>1, BuildKeepsKalshi
<1>3. UNCHANGED scope
  BY <1>1, BuildStepWithin, ChildStepWithin
<1>4. CASE BuildStep(r)
  <2>1. UNCHANGED <<scope, now, raw, tables, broken>> /\ (overlapped => overlapped')
    BY <1>1, <1>4, BuildStepWithin
  <2>2. Stamped' /\ Settled'
    BY <1>1, <2>1, DataStays
  <2>3. Family' /\ OneBuild' /\ Clean'
    <3>1. CASE BeginBuild(r)
      BY <1>1, <3>1, BeginBuildKeeps
    <3>2. CASE CheckMark(r)
      BY <1>1, <3>2, CheckMarkKeeps
    <3>3. CASE Unmark(r)
      BY <1>1, <3>3, UnmarkKeeps
    <3>4. CASE Mark(r)
      BY <1>1, <3>4, MarkKeeps
    <3>5. CASE Launch(r)
      BY <1>1, <3>5, LaunchKeeps
    <3>6. CASE Clear(r)
      BY <1>1, <3>6, ClearKeeps
    <3> QED BY <1>4, <3>1, <3>2, <3>3, <3>4, <3>5, <3>6 DEF BuildStep
  <2> QED BY <1>2, <1>3, <2>2, <2>3 DEF BuildInv
<1>5. CASE BuildModel(r)
  <2>1. Family' /\ OneBuild' /\ Clean'
    BY <1>1, <1>5, BuildModelKeeps
  <2>2. Stamped' /\ Settled'
    BY <1>1, <1>5, BuildModelKeepsData
  <2> QED BY <1>2, <1>3, <2>1, <2>2 DEF BuildInv
<1>6. CASE ChildExits(r)
  <2>1. Family' /\ OneBuild' /\ Clean'
    BY <1>1, <1>6, ChildExitsKeeps
  <2>2. UNCHANGED <<scope, now, raw, tables, broken>> /\ (overlapped => overlapped')
    BY <1>6 DEF ChildExits, files, history
  <2>3. Stamped' /\ Settled'
    BY <1>1, <2>2, DataStays
  <2> QED BY <1>2, <1>3, <2>1, <2>3 DEF BuildInv
<1>7. CASE ChildDies(r)
  <2>1. Family' /\ OneBuild' /\ Clean'
    BY <1>1, <1>7, ChildDiesKeeps
  <2>2. Stamped' /\ Settled'
    BY <1>1, <1>7, ChildDiesKeepsData
  <2> QED BY <1>2, <1>3, <2>1, <2>2 DEF BuildInv
<1> QED BY <1>4, <1>5, <1>6, <1>7 DEF ChildStep

(* Time passes, or rows come in from elsewhere: no process moves.          *)
LEMMA NobodyMoves ==
  ASSUME Family, OneBuild, Clean, UNCHANGED <<scope, marks, process, step, history>>
  PROVE  Family' /\ OneBuild' /\ Clean'
<1> USE DEF process, step, history
<1>1. Models' = Models /\ Guarded' = Guarded /\ BuildTodo' = BuildTodo
  BY ModelsStay
<1>2. Family'
  <2>1. ASSUME NEW r \in Runs PROVE ChildOK(child[r])' /\ ParentOK(r)'
    BY <1>1 DEF Family, ChildOK, ParentOK
  <2> QED BY <1>1, <2>1 DEF Family, OnRuns
<1>3. OneBuild'
  BY DEF OneBuild, Building
<1>4. Clean'
  BY <1>1 DEF Clean
<1> QED BY <1>2, <1>3, <1>4

LEMMA KalshiNextKeeps ==
  ASSUME scope \in Scopes, BuildInv, KalshiInv, KalshiNext
  PROVE  BuildInv' /\ KalshiInv' /\ UNCHANGED scope
<1>1. Family /\ OneBuild /\ Clean /\ Stamped /\ Settled
  BY DEF BuildInv
<1>2. CASE Tick
  <2>1. UNCHANGED <<scope, marks, process, step, history>>
    BY <1>2 DEF Tick, files
  <2>2. Family' /\ OneBuild' /\ Clean'
    BY <1>1, <2>1, NobodyMoves
  <2>3. Stamped' /\ Settled' /\ KalshiInv'
    BY <1>1, <1>2, TickKeeps, TickKeepsData
  <2> QED BY <2>1, <2>2, <2>3 DEF BuildInv
<1>3. ASSUME NEW k \in Keys, Land(k) \/ Revise(k), UNCHANGED kalshi PROVE BuildInv' /\ KalshiInv' /\ UNCHANGED scope
  <2>1. UNCHANGED <<scope, marks, process, step, history>>
    BY <1>3 DEF Land, Revise
  <2>2. Family' /\ OneBuild' /\ Clean'
    BY <1>1, <2>1, NobodyMoves
  <2>3. Stamped' /\ Settled'
    BY <1>1, <1>3, LandKeepsData, ReviseKeepsData
  <2>4. KalshiInv'
    BY <1>3, SyncKeeps
  <2> QED BY <2>1, <2>2, <2>3, <2>4 DEF BuildInv
<1>4. ASSUME NEW r \in Runs, Start(r) PROVE BuildInv' /\ KalshiInv' /\ UNCHANGED scope
  <2>1. KalshiInv' /\ \E place : Elsewhere(r, place)
    BY <1>1, <1>4, StartKeeps
  <2>2. Family' /\ OneBuild' /\ Clean'
    BY <1>1, <2>1, ElsewhereKeeps
  <2>3. UNCHANGED <<scope, now, raw, tables, broken>> /\ (overlapped => overlapped')
    BY <1>4 DEF Start, files, history
  <2>4. Stamped' /\ Settled'
    BY <1>1, <2>3, DataStays
  <2> QED BY <2>1, <2>2, <2>3, <2>4 DEF BuildInv
<1>5. ASSUME NEW r \in Runs, RunStep(r) PROVE BuildInv' /\ KalshiInv' /\ UNCHANGED scope
  BY <1>5, KalshiStepKeeps, RunEndsKeepsAll, BuildKeepsAll DEF RunStep
<1> QED BY <1>2, <1>3, <1>4, <1>5 DEF KalshiNext

------------------------------------------------------------------------------
(* What follows of the tables *)

LEMMA NextBuild ==
  ASSUME scope \in Scopes, Stamped, Settled, broken = {}, ~overlapped
  PROVE  NextTables(FALSE) = NextTables(TRUE)
<1>1. \A m \in Range(Models) : Range(Models) \subseteq Tables
  BY ModelsOf
<1>2. CASE Len(Models) = 1
  <2>1. Models[1] \in Range(Models) /\ Models[1] # "dense"
    BY <1>2, ModelsOf DEF Range
  <2>2. Built(Models[1], tables, FALSE) = Built(Models[1], tables, TRUE)
    <3>1. Built(Models[1], tables, FALSE) = SourceOf(Models[1], tables)
      BY <2>1, BuiltIsSource
    <3>2. Built(Models[1], tables, TRUE) = SourceOf(Models[1], tables)
      BY DEF Built
    <3> QED BY <3>1, <3>2
  <2> QED BY <1>2, <2>2 DEF NextTables
<1>3. CASE Len(Models) = 2
  <2>1. Models[1] = "observed" /\ Models[2] = "dense" /\ "observed" \in Range(Models)
    <3>1. Models = <<"observed", "dense">>
      BY <1>3, ModelsOf
    <3>2. Models[1] = "observed" /\ Models[2] = "dense" /\ 1 \in DOMAIN Models
      BY <3>1
    <3> QED BY <3>2 DEF Range
  <2> DEFINE source == SourceOf("observed", tables)
             first == [tables EXCEPT !["observed"] = source]
  <2>2. Built("observed", tables, FALSE) = source /\ Built("observed", tables, TRUE) = source
        /\ AsSource("observed", source)
    <3>1. Built("observed", tables, FALSE) = source /\ AsSource("observed", source)
      BY <2>1, BuiltIsSource
    <3> QED BY <3>1 DEF Built
  <2>3. first["observed"] = source /\ first["dense"] = tables["dense"]
    BY DEF Stamped, Tables
  <2>4. Fits(source) /\ Fits(tables["dense"])
    <3>1. Fits(tables["observed"]) /\ Fits(tables["dense"]) /\ "observed" \in Tables
      BY DEF Stamped, Tables
    <3> QED BY <3>1, SourceIs
  <2>5. IsWhole(source) /\ IsWhole(tables["dense"])
    BY <2>2 DEF AsSource, Settled, StatesSettled
  <2> HIDE DEF first, source
  <2>6. FitToBuild("dense", first)
    BY <2>3, <2>4, <2>5 DEF FitToBuild
  <2>7. Incremental("dense", first) = SourceOf("dense", first)
    BY <2>6, IncrementalCompletes DEF Tables
  <2>8. Built("dense", first, FALSE) = Built("dense", first, TRUE)
    BY <2>7 DEF Built
  <2>9. NextTables(FALSE) = [first EXCEPT !["dense"] = Built("dense", first, FALSE)]
    BY <1>3, <2>1, <2>2 DEF NextTables, first
  <2>10. NextTables(TRUE) = [first EXCEPT !["dense"] = Built("dense", first, TRUE)]
    BY <1>3, <2>1, <2>2 DEF NextTables, first
  <2> QED BY <2>8, <2>9, <2>10
<1>4. Len(Models) = 1 \/ Len(Models) = 2
  BY ModelsOf
<1> QED BY <1>2, <1>3, <1>4

LEMMA QuietIsSettled ==
  ASSUME scope = "jobs", Quiet
  PROVE  Stamped /\ Settled /\ broken = {} /\ ~overlapped
<1>1. \A m \in Tables : tables[m] = << >> /\ DOMAIN tables[m] = {}
  BY DEF Quiet
<1>2. now \in Time
  BY TimeAssumption DEF Quiet, Time
<1>3. \A m \in Tables : Fits(tables[m])
  BY <1>1 DEF Fits
<1>4. Stamped
  BY <1>1, <1>2, <1>3 DEF Quiet, Stamped
<1>5. HourlySettled /\ CandlesSettled
  BY DEF HourlySettled, CandlesSettled
<1>6. StatesSettled
  BY <1>1 DEF StatesSettled, IsWhole, Tables
<1> QED BY <1>4, <1>5, <1>6 DEF Quiet, Settled

LEMMA InvRecovers ==
  ASSUME Inv
  PROVE  BuildsRecover
<1>1. scope \in Scopes
  BY DEF Inv
<1>2. CASE scope = "jobs"
  <2>1. Quiet
    BY <1>2 DEF Inv
  <2>2. Stamped /\ Settled /\ broken = {} /\ ~overlapped
    BY <1>2, <2>1, QuietIsSettled
  <2>3. NextTables(FALSE) = NextTables(TRUE)
    BY <1>1, <2>2, NextBuild
  <2> QED BY <2>2, <2>3 DEF BuildsRecover, NextBuildCompletes, DamageIsMarked
<1>3. CASE scope # "jobs"
  <2>1. Family /\ Clean /\ Stamped /\ Settled
    BY <1>3 DEF Inv, BuildInv
  <2>2. DamageIsMarked
    BY <2>1 DEF Clean, DamageIsMarked
  <2>3. NextBuildCompletes
    <3> SUFFICES ASSUME ~overlapped, marks = {}, scope = "kalshi" => broken = {}
                 PROVE  NextTables(FALSE) = NextTables(TRUE)
      BY DEF NextBuildCompletes
    <3>1. broken = {}
      <4>1. scope # "kalshi" => Range(Guarded) = Range(Models)
        BY <1>1, ModelsOf
      <4>2. broken \cap Range(Guarded) = {} /\ broken \subseteq Range(Models)
        BY <2>1 DEF Clean, Family
      <4> QED BY <4>1, <4>2
    <3> QED BY <1>1, <2>1, <3>1, NextBuild
  <2> QED BY <2>2, <2>3 DEF BuildsRecover
<1> QED BY <1>2, <1>3

LEMMA InvTypes ==
  ASSUME Inv
  PROVE  BuildTypeOK /\ (scope # "jobs" => KalshiTypeOK)
<1>1. scope \in Scopes
  BY DEF Inv
<1>2. CASE scope = "jobs"
  <2>1. Quiet
    BY <1>2 DEF Inv
  <2>2. Stamped
    BY <1>2, <2>1, QuietIsSettled
  <2>3. \A r \in Runs : at[r] = 1 /\ full[r] = FALSE /\ 1 \in 1..Len(Models) + 1
    BY <1>1, <2>1, ModelsOf DEF Quiet
  <2>4. \A m \in DOMAIN tables : \A k \in DOMAIN tables[m] : tables[m][k] \in Row
    BY <2>2 DEF Stamped, Fits
  <2>5. marks \subseteq Range(Guarded) /\ broken \subseteq Range(Models)
    BY <2>1 DEF Quiet
  <2> QED BY <1>1, <1>2, <2>1, <2>2, <2>3, <2>4, <2>5 DEF BuildTypeOK, Quiet, Stamped
<1>3. CASE scope # "jobs"
  <2>1. Family /\ Stamped /\ Memory
    BY <1>3 DEF Inv, BuildInv, KalshiInv
  <2>2. BuildTypeOK
    <3>1. \A r \in Runs : at[r] \in 1..Len(Models) + 1
      BY <1>1, <2>1, ModelsOf DEF Family, ParentOK
    <3>2. \A m \in DOMAIN tables : \A k \in DOMAIN tables[m] : tables[m][k] \in Row
      BY <2>1 DEF Stamped, Fits
    <3> QED BY <1>1, <2>1, <3>1, <3>2 DEF BuildTypeOK, Family, Stamped
  <2>3. KalshiTypeOK
    <3>1. Range(Steps) = {"markets", "registry", "candles", "dbt"}
      <4>1. DOMAIN Steps = 1..4 /\ Steps[1] = "markets" /\ Steps[2] = "registry" /\ Steps[3] = "candles" /\ Steps[4] = "dbt"
        BY DEF Steps
      <4> QED BY <4>1 DEF Range
    <3>2. ASSUME NEW r \in Runs
          PROVE  /\ pc[r] \in {"collect", "extract", "load", "metrics", "fetching", "fetched", "saved"}
                       \cup Range(Steps) \cup Ended \/ Building(r)
                 /\ collected[r] \subseteq registry /\ DOMAIN fetch[r].from \subseteq registry
      <4>1. pc[r] \in Places
        BY <2>1 DEF Family
      <4>2. collected[r] \subseteq registry /\ DOMAIN fetch[r].from \subseteq registry
        BY <2>1 DEF Memory
      <4>3. CASE pc[r] \in Outside
        BY <3>1, <4>2, <4>3 DEF Outside
      <4>4. CASE pc[r] \notin Outside
        BY <4>1, <4>2, <4>4 DEF Places, Preparing, Building
      <4> QED BY <4>3, <4>4
    <3> QED BY <2>1, <3>2 DEF Memory, KalshiTypeOK
  <2> QED BY <2>2, <2>3
<1> QED BY <1>2, <1>3

LEMMA InvStores ==
  ASSUME Inv
  PROVE  KalshiIsStored
<1>1. CASE scope = "jobs"
  <2>1. ledger = << >> /\ \A r \in Runs : pc[r] # "metrics"
    BY <1>1 DEF Inv, Quiet, Ledgers, Types, AtStep
  <2> QED BY <2>1 DEF KalshiIsStored, CollectionIsLanded, CheckedHoursAreStored
<1>2. CASE scope # "jobs"
  BY <1>2 DEF Inv, KalshiInv, OnePackage, KalshiIsStored, CollectionIsLanded
<1> QED BY <1>1, <1>2

------------------------------------------------------------------------------
(* Steps of a job *)

(* A function on runs after an update, and a function with one more value. *)
LEMMA Update ==
  ASSUME NEW f, OnRuns(f), NEW r \in Runs, NEW x, NEW g, g = [f EXCEPT ![r] = x]
  PROVE  OnRuns(g) /\ g[r] = x /\ \A q \in Runs : q # r => g[q] = f[q]
BY DEF OnRuns

LEMMA PutIs ==
  ASSUME NEW f, NEW x, NEW v
  PROVE  DOMAIN Put(f, x, v) = DOMAIN f \cup {x} /\ Put(f, x, v)[x] = v
         /\ \A y \in DOMAIN f : y # x => Put(f, x, v)[y] = f[y]
BY DEF Put

SameFor(q) ==
  /\ pc'[q] = pc[q] /\ job'[q] = job[q] /\ current'[q] = current[q] /\ outcome'[q] = outcome[q]
  /\ over'[q] = over[q] /\ stepRow'[q] = stepRow[q] /\ runRow'[q] = runRow[q] /\ disturbed'[q] = disturbed[q]

(* A run none of whose values change keeps what holds of it.               *)
LEMMA SameKeeps ==
  ASSUME NEW r \in Runs, RunOK(r), SameFor(r)
  PROVE  RunOK(r)'
<1> USE DEF SameFor, RunOK
<1>1. JobOK(r)'
  BY DEF JobOK, Met
<1>2. RowsOK(r)'
  BY DEF RowsOK
<1>3. VerdictOK(r)' /\ ReachedBy(r)'
  BY DEF VerdictOK, ReachedBy
<1>4. EarnedBy(r)'
  BY DEF EarnedBy
<1> QED BY <1>1, <1>2, <1>3, <1>4

(* What has gone well.                                                     *)
Fine(r, s) == s \in DOMAIN over[r] /\ over[r][s] = "ok"

(* The step graph, written out.                                            *)
LEMMA StepsAre ==
  /\ StepsOf("registry") = {"preflight", "contracts", "catalog", "converged", "registry", "roles"}
  /\ StepsOf("minute") = {"preflight", "contracts", "minute", "reconciled", "health"}
  /\ StepsOf("dbt") = {"preflight", "contracts", "core", "mart", "monitoring"}
  /\ StepsOf("full") = {"preflight", "contracts", "catalog", "converged", "registry", "roles", "minute",
                        "reconciled", "health", "core", "mart", "monitoring"}
<1>1. StepsOf("registry") = {"preflight", "contracts", "catalog", "converged", "registry", "roles"}
  BY DEF StepsOf, Preflight
<1>2. StepsOf("minute") = {"preflight", "contracts", "minute", "reconciled", "health"}
  BY DEF StepsOf, Preflight
<1>3. StepsOf("dbt") = {"preflight", "contracts", "core", "mart", "monitoring"}
  BY DEF StepsOf, Preflight
<1>4. StepsOf("full") = {"preflight", "contracts", "catalog", "converged", "registry", "roles", "minute",
                        "reconciled", "health", "core", "mart", "monitoring"}
  BY DEF StepsOf, Preflight
<1> QED BY <1>1, <1>2, <1>3, <1>4

LEMMA NeedsAre ==
  /\ Needs("preflight") = {} /\ Needs("catalog") = {"preflight", "contracts"}
  /\ Needs("registry") = {"catalog", "converged"} /\ Needs("minute") = {"registry", "roles"}
  /\ Needs("core") = {"preflight", "catalog", "converged", "registry", "roles", "minute", "reconciled"}
  /\ Needs("monitoring") = {"preflight", "core"} /\ Needs("contracts") = {"preflight"}
  /\ Needs("converged") = {"catalog"} /\ Needs("roles") = {"registry"}
  /\ Needs("reconciled") = {"minute"} /\ Needs("health") = {"minute"} /\ Needs("mart") = {"core"}
BY DEF Needs, Preflight

LEMMA BehindAre ==
  /\ Behind("registry") = {"preflight", "contracts", "catalog", "converged"} /\ Terminal("registry") = "registry"
  /\ Behind("minute") = {} /\ Terminal("minute") = "minute"
  /\ Behind("dbt") = {"preflight", "core"} /\ Terminal("dbt") = "monitoring"
  /\ Behind("full") = {"preflight", "contracts", "catalog", "converged", "registry", "roles", "minute",
                       "reconciled", "core"}
  /\ Terminal("full") = "monitoring"
<1>1. Terminal("registry") = "registry" /\ Terminal("minute") = "minute" /\ Terminal("dbt") = "monitoring"
      /\ Terminal("full") = "monitoring"
  BY DEF Terminal
<1>2. Behind("registry") = {"preflight", "contracts", "catalog", "converged"} /\ Behind("minute") = {}
      /\ Behind("dbt") = {"preflight", "core"}
  BY DEF Behind, Preflight
<1>3. Behind("full") = {"preflight", "contracts", "catalog", "converged", "registry", "roles", "minute",
                       "reconciled", "core"}
  BY StepsAre DEF Behind
<1> QED BY <1>1, <1>2, <1>3

(* A step that may begin, or has, stands on steps that have gone well.     *)
LEMMA StandsOn ==
  ASSUME NEW r \in Runs, NEW s, Met(r, s)
  PROVE  /\ job[r] = "registry" =>
              /\ s \in {"contracts", "catalog"} => Fine(r, "preflight")
              /\ s = "catalog" => Fine(r, "contracts")
              /\ s \in {"converged", "registry"} => Fine(r, "catalog")
              /\ s = "registry" => Fine(r, "converged")
              /\ s = "roles" => Fine(r, "registry")
         /\ job[r] = "full" =>
              /\ s \in {"contracts", "catalog"} => Fine(r, "preflight")
              /\ s = "catalog" => Fine(r, "contracts")
              /\ s \in {"converged", "registry"} => Fine(r, "catalog")
              /\ s = "registry" => Fine(r, "converged")
              /\ s \in {"roles", "minute"} => Fine(r, "registry")
              /\ s = "minute" => Fine(r, "roles")
              /\ s \in {"reconciled", "health"} => Fine(r, "minute")
              /\ s = "core" => Fine(r, "minute") /\ Fine(r, "reconciled")
              /\ s \in {"mart", "monitoring"} => Fine(r, "core")
         /\ job[r] = "dbt" /\ s \in {"core", "monitoring"} => Fine(r, "preflight")
         /\ job[r] = "dbt" /\ s = "monitoring" => Fine(r, "core")
<1>1. \A n \in Needs(s) \cap StepsOf(job[r]) : Fine(r, n)
  BY DEF Met, Fine
<1>2. CASE job[r] = "registry"
  BY <1>1, <1>2, StepsAre, NeedsAre
<1>3. CASE job[r] = "full"
  BY <1>1, <1>3, StepsAre, NeedsAre
<1>4. CASE job[r] = "dbt"
  BY <1>1, <1>4, StepsAre, NeedsAre
<1> QED BY <1>2, <1>3, <1>4

(* A monitored step begins only while all that is over on the way to the   *)
(* terminal step has gone well, and before that one is over.               *)
LEMMA Chain ==
  ASSUME NEW r \in Runs, JobOK(r), job[r] \in {"registry", "full"},
         NEW s \in Monitored, s \in StepsOf(job[r]) \ DOMAIN over[r], Met(r, s)
  PROVE  /\ Terminal(job[r]) \notin DOMAIN over[r]
         /\ \A b \in Behind(job[r]) \cap DOMAIN over[r] : over[r][b] = "ok"
<1> DEFINE d == DOMAIN over[r]
<1>1. \A n \in d : Met(r, n)
  BY DEF JobOK
<1>2. \A n : Fine(r, n) => n \in d /\ over[r][n] = "ok"
  BY DEF Fine
<1>3. s \notin d
  OBVIOUS
<1>4. CASE job[r] = "registry"
  <2>1. /\ "contracts" \in d => Fine(r, "preflight")
        /\ "catalog" \in d => Fine(r, "preflight") /\ Fine(r, "contracts")
        /\ "converged" \in d => Fine(r, "catalog")
        /\ "registry" \in d => Fine(r, "catalog") /\ Fine(r, "converged")
    BY <1>1, <1>4, StandsOn
  <2>2. /\ s = "catalog" => Fine(r, "preflight") /\ Fine(r, "contracts")
        /\ s = "registry" => Fine(r, "catalog") /\ Fine(r, "converged")
    BY <1>4, StandsOn
  <2>3. s \in {"preflight", "catalog", "registry"}
    BY <1>4, StepsAre DEF Monitored
  <2> HIDE DEF d
  <2>4. CASE s = "preflight"
    <3>1. "preflight" \notin d /\ "contracts" \notin d /\ "catalog" \notin d /\ "converged" \notin d /\ "registry" \notin d
      BY <1>2, <1>3, <2>1, <2>4
    <3> QED BY <1>4, <3>1, BehindAre DEF d
  <2>5. CASE s = "catalog"
    <3>1. "catalog" \notin d /\ "converged" \notin d /\ "registry" \notin d /\ over[r]["preflight"] = "ok"
          /\ over[r]["contracts"] = "ok"
      BY <1>2, <1>3, <2>1, <2>2, <2>5
    <3> QED BY <1>4, <3>1, BehindAre DEF d
  <2>6. CASE s = "registry"
    <3>1. "registry" \notin d /\ over[r]["preflight"] = "ok" /\ over[r]["contracts"] = "ok" /\ over[r]["catalog"] = "ok"
          /\ over[r]["converged"] = "ok"
      BY <1>2, <1>3, <2>1, <2>2, <2>6
    <3> QED BY <1>4, <3>1, BehindAre DEF d
  <2> QED BY <2>3, <2>4, <2>5, <2>6
<1>5. CASE job[r] = "full"
  <2>1. /\ "contracts" \in d => Fine(r, "preflight")
        /\ "catalog" \in d => Fine(r, "preflight") /\ Fine(r, "contracts")
        /\ "converged" \in d => Fine(r, "catalog")
        /\ "registry" \in d => Fine(r, "catalog") /\ Fine(r, "converged")
        /\ "roles" \in d => Fine(r, "registry")
        /\ "minute" \in d => Fine(r, "registry") /\ Fine(r, "roles")
        /\ "reconciled" \in d => Fine(r, "minute")
        /\ "core" \in d => Fine(r, "minute") /\ Fine(r, "reconciled")
        /\ "monitoring" \in d => Fine(r, "core")
    BY <1>1, <1>5, StandsOn
  <2>2. /\ s = "catalog" => Fine(r, "preflight") /\ Fine(r, "contracts")
        /\ s = "registry" => Fine(r, "catalog") /\ Fine(r, "converged")
        /\ s = "minute" => Fine(r, "registry") /\ Fine(r, "roles")
        /\ s = "core" => Fine(r, "minute") /\ Fine(r, "reconciled")
        /\ s = "monitoring" => Fine(r, "core")
    BY <1>5, StandsOn
  <2>3. s \in {"preflight", "catalog", "registry", "minute", "core", "monitoring"}
    BY DEF Monitored
  <2> HIDE DEF d
  <2>4. CASE s = "preflight"
    <3>1. "preflight" \notin d /\ "contracts" \notin d /\ "catalog" \notin d /\ "converged" \notin d /\ "registry" \notin d
      BY <1>2, <1>3, <2>1, <2>4
    <3>2. "roles" \notin d /\ "minute" \notin d /\ "reconciled" \notin d /\ "core" \notin d /\ "monitoring" \notin d
      BY <1>2, <2>1, <3>1
    <3> QED BY <1>5, <3>1, <3>2, BehindAre DEF d
  <2>5. CASE s = "catalog"
    <3>1. "catalog" \notin d /\ "converged" \notin d /\ "registry" \notin d /\ over[r]["preflight"] = "ok"
          /\ over[r]["contracts"] = "ok"
      BY <1>2, <1>3, <2>1, <2>2, <2>5
    <3>2. "roles" \notin d /\ "minute" \notin d /\ "reconciled" \notin d /\ "core" \notin d /\ "monitoring" \notin d
      BY <1>2, <2>1, <3>1
    <3> QED BY <1>5, <3>1, <3>2, BehindAre DEF d
  <2>6. CASE s = "registry"
    <3>1. "registry" \notin d /\ over[r]["preflight"] = "ok" /\ over[r]["contracts"] = "ok" /\ over[r]["catalog"] = "ok"
          /\ over[r]["converged"] = "ok"
      BY <1>2, <1>3, <2>1, <2>2, <2>6
    <3>2. "roles" \notin d /\ "minute" \notin d /\ "reconciled" \notin d /\ "core" \notin d /\ "monitoring" \notin d
      BY <1>2, <2>1, <3>1
    <3> QED BY <1>5, <3>1, <3>2, BehindAre DEF d
  <2>7. CASE s = "minute"
    <3>1. "minute" \notin d /\ over[r]["preflight"] = "ok" /\ over[r]["contracts"] = "ok" /\ over[r]["catalog"] = "ok"
          /\ over[r]["converged"] = "ok" /\ over[r]["registry"] = "ok" /\ over[r]["roles"] = "ok"
      BY <1>2, <1>3, <2>1, <2>2, <2>7
    <3>2. "reconciled" \notin d /\ "core" \notin d /\ "monitoring" \notin d
      BY <1>2, <2>1, <3>1
    <3> QED BY <1>5, <3>1, <3>2, BehindAre DEF d
  <2>8. CASE s = "core"
    <3>1. "core" \notin d /\ "monitoring" \notin d /\ over[r]["minute"] = "ok" /\ over[r]["reconciled"] = "ok"
          /\ over[r]["registry"] = "ok" /\ over[r]["roles"] = "ok"
      BY <1>2, <1>3, <2>1, <2>2, <2>8
    <3>2. over[r]["preflight"] = "ok" /\ over[r]["contracts"] = "ok" /\ over[r]["catalog"] = "ok"
          /\ over[r]["converged"] = "ok"
      BY <1>2, <2>1, <2>2, <2>8
    <3> QED BY <1>5, <3>1, <3>2, BehindAre DEF d
  <2>9. CASE s = "monitoring"
    <3>1. "monitoring" \notin d /\ over[r]["minute"] = "ok" /\ over[r]["reconciled"] = "ok"
          /\ over[r]["registry"] = "ok" /\ over[r]["roles"] = "ok" /\ over[r]["core"] = "ok"
      BY <1>2, <1>3, <2>1, <2>2, <2>9
    <3>2. over[r]["preflight"] = "ok" /\ over[r]["contracts"] = "ok" /\ over[r]["catalog"] = "ok"
          /\ over[r]["converged"] = "ok"
      BY <1>2, <2>1, <2>2, <2>9
    <3> QED BY <1>5, <3>1, <3>2, BehindAre DEF d
  <2> QED BY <2>3, <2>4, <2>5, <2>6, <2>7, <2>8, <2>9
<1> QED BY <1>4, <1>5

(* All that the terminal step of a job builds on has gone well when it runs. *)
LEMMA TerminalStandsOn ==
  ASSUME NEW r \in Runs, JobOK(r), job[r] \in Jobs, Met(r, Terminal(job[r])), NEW b \in Behind(job[r])
  PROVE  Fine(r, b)
<1>1. \A n \in DOMAIN over[r] : Met(r, n)
  BY DEF JobOK
<1>2. \A n : Fine(r, n) => n \in DOMAIN over[r]
  BY DEF Fine
<1>3. CASE job[r] = "registry"
  <2>1. Fine(r, "catalog") /\ Fine(r, "converged")
    BY <1>3, BehindAre, StandsOn
  <2>2. Fine(r, "preflight") /\ Fine(r, "contracts")
    BY <1>1, <1>2, <1>3, <2>1, StandsOn
  <2> QED BY <1>3, <2>1, <2>2, BehindAre
<1>4. CASE job[r] = "minute"
  BY <1>4, BehindAre
<1>5. CASE job[r] = "dbt"
  <2>1. Fine(r, "preflight") /\ Fine(r, "core")
    BY <1>5, BehindAre, StandsOn
  <2> QED BY <1>5, <2>1, BehindAre
<1>6. CASE job[r] = "full"
  <2>1. Fine(r, "core")
    BY <1>6, BehindAre, StandsOn
  <2>2. Fine(r, "minute") /\ Fine(r, "reconciled")
    BY <1>1, <1>2, <1>6, <2>1, StandsOn
  <2>3. Fine(r, "registry") /\ Fine(r, "roles")
    BY <1>1, <1>2, <1>6, <2>2, StandsOn
  <2>4. Fine(r, "catalog") /\ Fine(r, "converged")
    BY <1>1, <1>2, <1>6, <2>3, StandsOn
  <2>5. Fine(r, "preflight") /\ Fine(r, "contracts")
    BY <1>1, <1>2, <1>6, <2>4, StandsOn
  <2> QED BY <1>6, <2>1, <2>2, <2>3, <2>4, <2>5, BehindAre
<1> QED BY <1>3, <1>4, <1>5, <1>6 DEF Jobs

LEMMA MovesIs ==
  ASSUME Types, NEW r \in Runs, NEW place \in AtStep \cup {"idle", "between", "done"}, Moves(r, place)
  PROVE  /\ pc' \in [Runs -> AtStep \cup {"idle", "between", "done"}] /\ pc'[r] = place
         /\ \A q \in Runs : q # r => pc'[q] = pc[q]
BY DEF Types, Moves

LEMMA WritesIs ==
  ASSUME Types, NEW r \in Runs, NEW s, NEW status, Writes(r, s, status)
  PROVE  /\ OnRuns(stepRow)' /\ stepRow'[r] = Put(stepRow[r], s, status)
         /\ \A q \in Runs : q # r => stepRow'[q] = stepRow[q]
<1> DEFINE x == Put(stepRow[r], s, status)
<1>1. stepRow' = [stepRow EXCEPT ![r] = x] /\ OnRuns(stepRow)
  BY DEF Writes, Types
<1> HIDE DEF x
<1>2. OnRuns(stepRow)' /\ stepRow'[r] = x /\ \A q \in Runs : q # r => stepRow'[q] = stepRow[q]
  BY <1>1, Update DEF OnRuns
<1> QED BY <1>2 DEF x

LEMMA OverIs ==
  ASSUME Types, NEW r \in Runs, NEW s, NEW result, NEW place \in {"between", "done"}, Over(r, s, result, place)
  PROVE  /\ OnRuns(over)' /\ OnRuns(current)' /\ OnRuns(outcome)'
         /\ pc' \in [Runs -> AtStep \cup {"idle", "between", "done"}]
         /\ over'[r] = Put(over[r], s, result) /\ current'[r] = "none" /\ outcome'[r] = "none" /\ pc'[r] = place
         /\ \A q \in Runs : q # r => /\ over'[q] = over[q] /\ current'[q] = current[q] /\ outcome'[q] = outcome[q]
                                     /\ pc'[q] = pc[q]
<1> DEFINE x == Put(over[r], s, result)
<1>1. over' = [over EXCEPT ![r] = x] /\ OnRuns(over) /\ Moves(r, place)
  BY DEF Over, Types
<1> HIDE DEF x
<1>2. OnRuns(over)' /\ over'[r] = x /\ \A q \in Runs : q # r => over'[q] = over[q]
  BY <1>1, Update DEF OnRuns
<1>3. OnRuns(current)' /\ current'[r] = "none" /\ \A q \in Runs : q # r => current'[q] = current[q]
  BY Update DEF OnRuns, Over, Types
<1>4. OnRuns(outcome)' /\ outcome'[r] = "none" /\ \A q \in Runs : q # r => outcome'[q] = outcome[q]
  BY Update DEF OnRuns, Over, Types
<1>5. /\ pc' \in [Runs -> AtStep \cup {"idle", "between", "done"}] /\ pc'[r] = place
      /\ \A q \in Runs : q # r => pc'[q] = pc[q]
  BY <1>1, MovesIs
<1> QED BY <1>2, <1>3, <1>4, <1>5 DEF x

(* Nothing changes in the other runs.                                      *)
OthersStay(r) == \A q \in Runs : q # r => SameFor(q)

(* A job begins without steps and without records.                         *)
LEMMA StartJobKeeps ==
  ASSUME Types, NEW r \in Runs, StartJob(r)
  PROVE  Types' /\ OthersStay(r) /\ (RunOK(r) => RunOK(r)')
<1>1. PICK j \in Jobs : job' = [job EXCEPT ![r] = j]
  BY DEF StartJob
<1>2. OnRuns(job)' /\ job'[r] = j /\ \A q \in Runs : q # r => job'[q] = job[q]
  BY <1>1, Update DEF OnRuns, Types
<1>3. Moves(r, "between") /\ UNCHANGED <<current, outcome, over, stepRow, runRow, disturbed>> /\ pc[r] = "idle"
  BY DEF StartJob, rows
<1>4. /\ pc' \in [Runs -> AtStep \cup {"idle", "between", "done"}] /\ pc'[r] = "between"
      /\ \A q \in Runs : q # r => pc'[q] = pc[q]
  BY <1>3, MovesIs
<1>5. Types'
  BY <1>2, <1>3, <1>4 DEF Types, OnRuns
<1>6. OthersStay(r)
  BY <1>2, <1>3, <1>4 DEF OthersStay, SameFor
<1>7. ASSUME RunOK(r)
      PROVE  RunOK(r)'
  <2>1. /\ over[r] = << >> /\ stepRow[r] = << >> /\ runRow[r] = "none" /\ current[r] = "none" /\ outcome[r] = "none"
    BY <1>3, <1>7 DEF RunOK, JobOK, AtStep
  <2>2. /\ over'[r] = << >> /\ stepRow'[r] = << >> /\ runRow'[r] = "none" /\ current'[r] = "none" /\ outcome'[r] = "none"
    BY <1>3, <2>1
  <2>3. JobOK(r)'
    BY <1>2, <1>4, <2>2 DEF JobOK, AtStep, Jobs
  <2>4. RowsOK(r)'
    BY <1>4, <2>2 DEF RowsOK
  <2>5. VerdictOK(r)' /\ EarnedBy(r)' /\ ReachedBy(r)'
    BY <1>4, <2>2 DEF VerdictOK, EarnedBy, ReachedBy
  <2> QED BY <2>3, <2>4, <2>5 DEF RunOK
<1> QED BY <1>5, <1>6, <1>7

(* A step that begins stands on steps that have gone well.                 *)
LEMMA BeginStepKeeps ==
  ASSUME Types, NEW r \in Runs, BeginStep(r)
  PROVE  Types' /\ OthersStay(r) /\ (RunOK(r) => RunOK(r)')
<1>1. PICK s \in Monitored : Ready(r, s) /\ current' = [current EXCEPT ![r] = s]
  BY DEF BeginStep
<1>2. OnRuns(current)' /\ current'[r] = s /\ \A q \in Runs : q # r => current'[q] = current[q]
  BY <1>1, Update DEF OnRuns, Types
<1>3. Moves(r, "open") /\ UNCHANGED <<job, outcome, over, stepRow, runRow, disturbed>>
  BY DEF BeginStep, rows
<1>4. /\ pc' \in [Runs -> AtStep \cup {"idle", "between", "done"}] /\ pc'[r] = "open"
      /\ \A q \in Runs : q # r => pc'[q] = pc[q]
  BY <1>3, MovesIs DEF AtStep
<1>5. Types'
  BY <1>2, <1>3, <1>4 DEF Types, OnRuns
<1>6. OthersStay(r)
  BY <1>2, <1>3, <1>4 DEF OthersStay, SameFor
<1>7. ASSUME RunOK(r)
      PROVE  RunOK(r)'
  <2>1. pc[r] = "between" /\ s \in StepsOf(job[r]) \ DOMAIN over[r] /\ Met(r, s)
    BY <1>1 DEF Ready, Met
  <2>2. job'[r] = job[r] /\ outcome'[r] = outcome[r] /\ over'[r] = over[r] /\ stepRow'[r] = stepRow[r]
        /\ runRow'[r] = runRow[r] /\ disturbed'[r] = disturbed[r]
    BY <1>3
  <2>3. \A n : Met(r, n) <=> Met(r, n)'
    BY <2>2 DEF Met
  <2>4. s # "none"
    BY DEF Monitored
  <2>5. JobOK(r)'
    BY <1>2, <1>4, <1>7, <2>1, <2>2, <2>3, <2>4 DEF JobOK, AtStep, RunOK
  <2>6. RowsOK(r)'
    BY <1>4, <1>7, <2>2 DEF RowsOK, RunOK
  <2>7. VerdictOK(r)' /\ EarnedBy(r)' /\ ReachedBy(r)'
    BY <1>4, <1>7, <2>2 DEF VerdictOK, EarnedBy, ReachedBy, RunOK
  <2> QED BY <2>5, <2>6, <2>7 DEF RunOK
<1> QED BY <1>5, <1>6, <1>7

LEMMA OpenRunKeeps ==
  ASSUME Types, NEW r \in Runs, OpenRun(r)
  PROVE  Types' /\ OthersStay(r) /\ (RunOK(r) => RunOK(r)')
<1>1. OnRuns(runRow)' /\ runRow'[r] = "running" /\ \A q \in Runs : q # r => runRow'[q] = runRow[q]
  BY Update DEF OnRuns, Types, OpenRun
<1>2. Moves(r, "opened") /\ UNCHANGED <<job, current, outcome, over, stepRow, disturbed>> /\ pc[r] = "open"
  BY DEF OpenRun
<1>3. /\ pc' \in [Runs -> AtStep \cup {"idle", "between", "done"}] /\ pc'[r] = "opened"
      /\ \A q \in Runs : q # r => pc'[q] = pc[q]
  BY <1>2, MovesIs DEF AtStep
<1>4. Types'
  BY <1>1, <1>2, <1>3 DEF Types, OnRuns
<1>5. OthersStay(r)
  BY <1>1, <1>2, <1>3 DEF OthersStay, SameFor
<1>6. ASSUME RunOK(r)
      PROVE  RunOK(r)'
  <2>1. job'[r] = job[r] /\ outcome'[r] = outcome[r] /\ over'[r] = over[r] /\ stepRow'[r] = stepRow[r]
        /\ current'[r] = current[r] /\ disturbed'[r] = disturbed[r]
    BY <1>2
  <2>2. \A n : Met(r, n) <=> Met(r, n)'
    BY <2>1 DEF Met
  <2>3. JobOK(r)'
    BY <1>1, <1>2, <1>3, <1>6, <2>1, <2>2 DEF JobOK, AtStep, RunOK
  <2>4. RowsOK(r)'
    BY <1>3, <1>6, <2>1 DEF RowsOK, RunOK
  <2>5. /\ JobOK(r) /\ current[r] \in Monitored /\ current[r] \in StepsOf(job[r]) \ DOMAIN over[r]
        /\ Met(r, current[r])
    BY <1>2, <1>6 DEF JobOK, AtStep, RunOK
  <2>6. job[r] \in {"registry", "full"} =>
          /\ Terminal(job[r]) \notin DOMAIN over[r]
          /\ \A b \in Behind(job[r]) \cap DOMAIN over[r] : over[r][b] = "ok"
    BY <2>5, Chain
  <2>7. VerdictOK(r)'
    BY <2>1, <2>6 DEF VerdictOK
  <2>8. EarnedBy(r)' /\ ReachedBy(r)'
    BY <1>1, <1>3 DEF EarnedBy, ReachedBy
  <2> QED BY <2>3, <2>4, <2>7, <2>8 DEF RunOK
<1> QED BY <1>4, <1>5, <1>6

(* The record of a monitored step changes no other.                        *)
LEMMA WritesKeepsRows ==
  ASSUME NEW r \in Runs, RunOK(r), pc[r] \in AtStep, NEW v \in Verdicts \cup {"running"},
         stepRow'[r] = Put(stepRow[r], current[r], v), over'[r] = over[r], current'[r] = current[r],
         outcome'[r] = outcome[r], pc'[r] = "close" => v = outcome[r]
  PROVE  RowsOK(r)'
<1> DEFINE c == current[r]
           row == stepRow[r]
           new == Put(row, c, v)
<1>1. c \in Monitored /\ c \notin Checks /\ c \notin DOMAIN over[r]
  BY DEF RunOK, JobOK, Monitored, Checks, Blocking
<1>2. \A s \in DOMAIN row : row[s] \in Verdicts \cup {"running"} /\ (s \in Checks => row[s] = "failed")
  BY DEF RunOK, RowsOK
<1>3. \A s \in DOMAIN over[r] \cap Monitored : over[r][s] = "ok" =>
        s \in DOMAIN row /\ row[s] \in {"success", "partial"}
  BY DEF RunOK, RowsOK
<1>4. DOMAIN new = DOMAIN row \cup {c} /\ new[c] = v /\ \A y \in DOMAIN row : y # c => new[y] = row[y]
  <2> HIDE DEF c, row
  <2> QED BY DEF Put
<1>5. stepRow'[r] = new
  OBVIOUS
<1>6. current'[r] = c
  OBVIOUS
<1> HIDE DEF c, row, new
<1>7. \A s \in DOMAIN new : new[s] \in Verdicts \cup {"running"} /\ (s \in Checks => new[s] = "failed")
  BY <1>1, <1>2, <1>4
<1>8. pc'[r] = "close" => c \in DOMAIN new /\ new[c] = outcome'[r]
  BY <1>4
<1>9. \A s \in DOMAIN over'[r] \cap Monitored : over'[r][s] = "ok" =>
        s \in DOMAIN new /\ new[s] \in {"success", "partial"}
  BY <1>1, <1>3, <1>4
<1> QED BY <1>5, <1>6, <1>7, <1>8, <1>9 DEF RowsOK

LEMMA OpenStepKeeps ==
  ASSUME Types, NEW r \in Runs, OpenStep(r)
  PROVE  Types' /\ OthersStay(r) /\ (RunOK(r) => RunOK(r)')
<1>1. /\ Writes(r, current[r], "running") /\ Moves(r, "work") /\ pc[r] = "opened"
      /\ UNCHANGED <<job, current, outcome, over, runRow, disturbed>>
  BY DEF OpenStep
<1>2. /\ OnRuns(stepRow)' /\ stepRow'[r] = Put(stepRow[r], current[r], "running")
      /\ \A q \in Runs : q # r => stepRow'[q] = stepRow[q]
  BY <1>1, WritesIs
<1>3. /\ pc' \in [Runs -> AtStep \cup {"idle", "between", "done"}] /\ pc'[r] = "work"
      /\ \A q \in Runs : q # r => pc'[q] = pc[q]
  BY <1>1, MovesIs DEF AtStep
<1>4. Types'
  BY <1>1, <1>2, <1>3 DEF Types, OnRuns
<1>5. OthersStay(r)
  BY <1>1, <1>2, <1>3 DEF OthersStay, SameFor
<1>6. ASSUME RunOK(r)
      PROVE  RunOK(r)'
  <2>1. job'[r] = job[r] /\ outcome'[r] = outcome[r] /\ over'[r] = over[r] /\ runRow'[r] = runRow[r]
        /\ current'[r] = current[r] /\ disturbed'[r] = disturbed[r]
    BY <1>1
  <2>2. \A n : Met(r, n) <=> Met(r, n)'
    BY <2>1 DEF Met
  <2>3. runRow[r] = "running" /\ job[r] # "none"
    BY <1>1, <1>6 DEF JobOK, AtStep, RunOK
  <2>4. JobOK(r)'
    BY <1>1, <1>3, <1>6, <2>1, <2>2, <2>3 DEF JobOK, AtStep, RunOK
  <2>5. RowsOK(r)'
    BY <1>1, <1>2, <1>3, <1>6, <2>1, WritesKeepsRows DEF AtStep
  <2>6. VerdictOK(r)'
    BY <1>6, <2>1 DEF VerdictOK, RunOK
  <2>7. EarnedBy(r)' /\ ReachedBy(r)'
    BY <1>3, <2>1, <2>3 DEF EarnedBy, ReachedBy
  <2> QED BY <2>4, <2>5, <2>6, <2>7 DEF RunOK
<1> QED BY <1>4, <1>5, <1>6

(* The record of the step precedes that of the run.                        *)
LEMMA FinishStepKeeps ==
  ASSUME Types, NEW r \in Runs, FinishStep(r)
  PROVE  Types' /\ OthersStay(r) /\ (RunOK(r) => RunOK(r)')
<1>1. /\ Writes(r, current[r], outcome[r]) /\ Moves(r, "close") /\ pc[r] = "finish"
      /\ UNCHANGED <<job, current, outcome, over, runRow, disturbed>>
  BY DEF FinishStep
<1>2. /\ OnRuns(stepRow)' /\ stepRow'[r] = Put(stepRow[r], current[r], outcome[r])
      /\ \A q \in Runs : q # r => stepRow'[q] = stepRow[q]
  BY <1>1, WritesIs
<1>3. /\ pc' \in [Runs -> AtStep \cup {"idle", "between", "done"}] /\ pc'[r] = "close"
      /\ \A q \in Runs : q # r => pc'[q] = pc[q]
  BY <1>1, MovesIs DEF AtStep
<1>4. Types'
  BY <1>1, <1>2, <1>3 DEF Types, OnRuns
<1>5. OthersStay(r)
  BY <1>1, <1>2, <1>3 DEF OthersStay, SameFor
<1>6. ASSUME RunOK(r)
      PROVE  RunOK(r)'
  <2>1. job'[r] = job[r] /\ outcome'[r] = outcome[r] /\ over'[r] = over[r] /\ runRow'[r] = runRow[r]
        /\ current'[r] = current[r] /\ disturbed'[r] = disturbed[r]
    BY <1>1
  <2>2. \A n : Met(r, n) <=> Met(r, n)'
    BY <2>1 DEF Met
  <2>3. runRow[r] = "running" /\ job[r] # "none" /\ outcome[r] \in Verdicts
    BY <1>1, <1>6 DEF JobOK, AtStep, RunOK
  <2>4. JobOK(r)'
    BY <1>1, <1>3, <1>6, <2>1, <2>2, <2>3 DEF JobOK, AtStep, RunOK
  <2>5. RowsOK(r)'
    BY <1>1, <1>2, <1>3, <1>6, <2>1, <2>3, WritesKeepsRows DEF AtStep
  <2>6. VerdictOK(r)'
    BY <1>6, <2>1 DEF VerdictOK, RunOK
  <2>7. EarnedBy(r)' /\ ReachedBy(r)'
    BY <1>3, <2>1, <2>3 DEF EarnedBy, ReachedBy
  <2> QED BY <2>4, <2>5, <2>6, <2>7 DEF RunOK
<1> QED BY <1>4, <1>5, <1>6

LEMMA WorkKeeps ==
  ASSUME Types, NEW r \in Runs, Work(r)
  PROVE  Types' /\ OthersStay(r) /\ (RunOK(r) => RunOK(r)')
<1>1. PICK o \in Outcomes(current[r]) : outcome' = [outcome EXCEPT ![r] = o]
  BY DEF Work
<1>2. OnRuns(outcome)' /\ outcome'[r] = o /\ \A q \in Runs : q # r => outcome'[q] = outcome[q]
  BY <1>1, Update DEF OnRuns, Types
<1>3. Moves(r, "finish") /\ UNCHANGED <<job, current, over, stepRow, runRow, disturbed>> /\ pc[r] = "work"
  BY DEF Work, rows
<1>4. /\ pc' \in [Runs -> AtStep \cup {"idle", "between", "done"}] /\ pc'[r] = "finish"
      /\ \A q \in Runs : q # r => pc'[q] = pc[q]
  BY <1>3, MovesIs DEF AtStep
<1>5. Types'
  BY <1>2, <1>3, <1>4 DEF Types, OnRuns
<1>6. OthersStay(r)
  BY <1>2, <1>3, <1>4 DEF OthersStay, SameFor
<1>7. ASSUME RunOK(r)
      PROVE  RunOK(r)'
  <2>1. job'[r] = job[r] /\ current'[r] = current[r] /\ over'[r] = over[r] /\ stepRow'[r] = stepRow[r]
        /\ runRow'[r] = runRow[r] /\ disturbed'[r] = disturbed[r]
    BY <1>3
  <2>2. \A n : Met(r, n) <=> Met(r, n)'
    BY <2>1 DEF Met
  <2>3. o \in Verdicts /\ o # "none" /\ (o = "partial" => current[r] = "minute")
    BY DEF Outcomes, Verdicts
  <2>4. JobOK(r)'
    BY <1>2, <1>3, <1>4, <1>7, <2>1, <2>2, <2>3 DEF JobOK, AtStep, RunOK
  <2>5. RowsOK(r)'
    BY <1>4, <1>7, <2>1 DEF RowsOK, RunOK
  <2>6. VerdictOK(r)' /\ EarnedBy(r)' /\ ReachedBy(r)'
    BY <1>4, <1>7, <2>1 DEF VerdictOK, EarnedBy, ReachedBy, RunOK
  <2> QED BY <2>4, <2>5, <2>6 DEF RunOK
<1> QED BY <1>5, <1>6, <1>7

LEMMA LaunchStepKeeps ==
  ASSUME Types, NEW r \in Runs, LaunchStep(r)
  PROVE  Types' /\ OthersStay(r) /\ (r \in MonitoredRuns /\ RunOK(r) => RunOK(r)')
<1>1. UNCHANGED <<job, current, outcome, over, stepRow, runRow, disturbed>>
  BY DEF LaunchStep, soccer, rows
<1>2. CASE pc[r] = "work" /\ Moves(r, "build")
  <2>1. /\ pc' \in [Runs -> AtStep \cup {"idle", "between", "done"}] /\ pc'[r] = "build"
        /\ \A q \in Runs : q # r => pc'[q] = pc[q]
    BY <1>2, MovesIs DEF AtStep
  <2>2. Types'
    BY <1>1, <2>1 DEF Types, OnRuns
  <2>3. OthersStay(r)
    BY <1>1, <2>1 DEF OthersStay, SameFor
  <2>4. ASSUME RunOK(r)
        PROVE  RunOK(r)'
    <3>1. job'[r] = job[r] /\ current'[r] = current[r] /\ over'[r] = over[r] /\ stepRow'[r] = stepRow[r]
          /\ runRow'[r] = runRow[r] /\ disturbed'[r] = disturbed[r] /\ outcome'[r] = outcome[r]
      BY <1>1
    <3>2. \A n : Met(r, n) <=> Met(r, n)'
      BY <3>1 DEF Met
    <3>3. JobOK(r)'
      BY <1>2, <2>1, <2>4, <3>1, <3>2 DEF JobOK, AtStep, RunOK
    <3>4. RowsOK(r)'
      BY <2>1, <2>4, <3>1 DEF RowsOK, RunOK
    <3>5. VerdictOK(r)' /\ EarnedBy(r)' /\ ReachedBy(r)'
      BY <2>1, <2>4, <3>1 DEF VerdictOK, EarnedBy, ReachedBy, RunOK
    <3> QED BY <3>3, <3>4, <3>5 DEF RunOK
  <2> QED BY <2>2, <2>3, <2>4
<1>3. CASE r \notin MonitoredRuns /\ UNCHANGED pc
  <2>1. Types'
    BY <1>1, <1>3 DEF Types, OnRuns
  <2>2. OthersStay(r)
    BY <1>1, <1>3 DEF OthersStay, SameFor
  <2> QED BY <1>3, <2>1, <2>2
<1> QED BY <1>2, <1>3 DEF LaunchStep

(* A child may outlive its step, and its end is then nobody's outcome.     *)
LEMMA StepChildEndsKeeps ==
  ASSUME Types, NEW r \in Runs, StepChildEnds(r)
  PROVE  Types' /\ OthersStay(r) /\ (RunOK(r) => RunOK(r)')
<1>1. UNCHANGED <<job, current, over, stepRow, runRow, disturbed>>
  BY DEF StepChildEnds, rows
<1>2. CASE pc[r] = "build"
  <2>1. PICK o \in {"success", "failed", "interrupted"} : outcome' = [outcome EXCEPT ![r] = o]
    BY <1>2 DEF StepChildEnds
  <2>2. OnRuns(outcome)' /\ outcome'[r] = o /\ \A q \in Runs : q # r => outcome'[q] = outcome[q]
    BY <2>1, Update DEF OnRuns, Types
  <2>3. Moves(r, "finish")
    BY <1>2 DEF StepChildEnds
  <2>4. /\ pc' \in [Runs -> AtStep \cup {"idle", "between", "done"}] /\ pc'[r] = "finish"
        /\ \A q \in Runs : q # r => pc'[q] = pc[q]
    BY <2>3, MovesIs DEF AtStep
  <2>5. Types'
    BY <1>1, <2>2, <2>4 DEF Types, OnRuns
  <2>6. OthersStay(r)
    BY <1>1, <2>2, <2>4 DEF OthersStay, SameFor
  <2>7. ASSUME RunOK(r)
        PROVE  RunOK(r)'
    <3>1. job'[r] = job[r] /\ current'[r] = current[r] /\ over'[r] = over[r] /\ stepRow'[r] = stepRow[r]
          /\ runRow'[r] = runRow[r] /\ disturbed'[r] = disturbed[r]
      BY <1>1
    <3>2. \A n : Met(r, n) <=> Met(r, n)'
      BY <3>1 DEF Met
    <3>3. o \in Verdicts /\ o # "none" /\ o # "partial"
      BY DEF Verdicts
    <3>4. JobOK(r)'
      BY <1>2, <2>2, <2>4, <2>7, <3>1, <3>2, <3>3 DEF JobOK, AtStep, RunOK
    <3>5. RowsOK(r)'
      BY <2>4, <2>7, <3>1 DEF RowsOK, RunOK
    <3>6. VerdictOK(r)' /\ EarnedBy(r)' /\ ReachedBy(r)'
      BY <2>4, <2>7, <3>1 DEF VerdictOK, EarnedBy, ReachedBy, RunOK
    <3> QED BY <3>4, <3>5, <3>6 DEF RunOK
  <2> QED BY <2>5, <2>6, <2>7
<1>3. CASE pc[r] # "build"
  <2>1. UNCHANGED <<pc, outcome>>
    BY <1>3 DEF StepChildEnds
  <2>2. Types'
    BY <1>1, <2>1 DEF Types, OnRuns
  <2>3. OthersStay(r) /\ SameFor(r)
    BY <1>1, <2>1 DEF OthersStay, SameFor
  <2> QED BY <2>2, <2>3, SameKeeps
<1> QED BY <1>2, <1>3

(* A run that dies is disturbed; what its row says was true before.        *)
LEMMA JobDiesKeeps ==
  ASSUME Types, NEW r \in Runs, JobDies(r)
  PROVE  Types' /\ OthersStay(r) /\ (RunOK(r) => RunOK(r)')
<1>1. OnRuns(current)' /\ current'[r] = "none" /\ \A q \in Runs : q # r => current'[q] = current[q]
  BY Update DEF OnRuns, Types, JobDies
<1>2. OnRuns(outcome)' /\ outcome'[r] = "none" /\ \A q \in Runs : q # r => outcome'[q] = outcome[q]
  BY Update DEF OnRuns, Types, JobDies
<1>3. Moves(r, "done") /\ UNCHANGED <<job, over, stepRow, runRow>> /\ pc[r] # "idle"
  BY DEF JobDies, rows, Live, Ended
<1>4. /\ disturbed' \in [Runs -> BOOLEAN] /\ disturbed'[r] = TRUE
      /\ \A q \in Runs : q # r => disturbed'[q] = disturbed[q]
  BY DEF JobDies, Types
<1>5. /\ pc' \in [Runs -> AtStep \cup {"idle", "between", "done"}] /\ pc'[r] = "done"
      /\ \A q \in Runs : q # r => pc'[q] = pc[q]
  BY <1>3, MovesIs
<1>6. Types'
  BY <1>1, <1>2, <1>3, <1>4, <1>5 DEF Types, OnRuns
<1>7. OthersStay(r)
  BY <1>1, <1>2, <1>3, <1>4, <1>5 DEF OthersStay, SameFor
<1>8. ASSUME RunOK(r)
      PROVE  RunOK(r)'
  <2>1. job'[r] = job[r] /\ over'[r] = over[r] /\ stepRow'[r] = stepRow[r] /\ runRow'[r] = runRow[r]
    BY <1>3
  <2>2. \A n : Met(r, n) <=> Met(r, n)'
    BY <2>1 DEF Met
  <2>3. JobOK(r)'
    BY <1>1, <1>2, <1>3, <1>5, <1>8, <2>1, <2>2 DEF JobOK, AtStep, RunOK
  <2>4. RowsOK(r)'
    BY <1>5, <1>8, <2>1 DEF RowsOK, RunOK
  <2>5. VerdictOK(r)' /\ ReachedBy(r)'
    BY <1>4 DEF VerdictOK, ReachedBy
  <2>6. EarnedBy(r)'
    BY <1>8, <2>1 DEF EarnedBy, RunOK
  <2> QED BY <2>3, <2>4, <2>5, <2>6 DEF RunOK
<1> QED BY <1>6, <1>7, <1>8

(* A step is over that all it stands on has gone before.                   *)
LEMMA OverKeepsJob ==
  ASSUME NEW r \in Runs, JobOK(r), job[r] # "none", NEW s \in StepsOf(job[r]) \ DOMAIN over[r], Met(r, s),
         NEW result \in {"ok", "bad"}, over'[r] = Put(over[r], s, result), job'[r] = job[r],
         current'[r] = "none", outcome'[r] = "none", pc'[r] \in {"between", "done"},
         runRow'[r] \in Verdicts \cup {"none", "running"}
  PROVE  JobOK(r)'
<1> DEFINE o == over[r]
           new == Put(o, s, result)
<1>1. DOMAIN new = DOMAIN o \cup {s} /\ new[s] = result /\ \A y \in DOMAIN o : y # s => new[y] = o[y]
  <2> HIDE DEF o
  <2> QED BY DEF Put
<1>2. over'[r] = new
  OBVIOUS
<1>3. \A n : n \in DOMAIN o /\ o[n] = "ok" => n \in DOMAIN over'[r] /\ over'[r][n] = "ok"
  <2>1. s \notin DOMAIN o
    OBVIOUS
  <2> HIDE DEF new, o
  <2> QED BY <1>1, <1>2, <2>1
<1>4. \A n : Met(r, n) => Met(r, n)'
  BY <1>3 DEF Met
<1>5. \A n \in DOMAIN o : o[n] \in {"ok", "bad"} /\ Met(r, n)
  BY DEF JobOK
<1>6. \A n \in DOMAIN over'[r] : over'[r][n] \in {"ok", "bad"} /\ Met(r, n)'
  <2> HIDE DEF new, o
  <2> QED BY <1>1, <1>2, <1>4, <1>5
<1>7. DOMAIN over'[r] \subseteq StepsOf(job'[r])
  <2>1. DOMAIN o \subseteq StepsOf(job[r])
    BY DEF JobOK
  <2> HIDE DEF new, o
  <2> QED BY <1>1, <1>2, <2>1
<1>8. job[r] \in Jobs
  BY DEF JobOK
<1> QED BY <1>6, <1>7, <1>8 DEF JobOK, AtStep

(* A run that is a success on record stays one when a step is over after.  *)
LEMMA OverKeepsEarned ==
  ASSUME NEW r \in Runs, EarnedBy(r), NEW s, s \notin DOMAIN over[r], NEW result,
         over'[r] = Put(over[r], s, result), job'[r] = job[r], stepRow'[r] = stepRow[r], runRow'[r] = runRow[r]
  PROVE  EarnedBy(r)'
<1> DEFINE o == over[r]
           new == Put(o, s, result)
<1>1. DOMAIN new = DOMAIN o \cup {s} /\ new[s] = result /\ \A y \in DOMAIN o : y # s => new[y] = o[y]
  <2> HIDE DEF o
  <2> QED BY DEF Put
<1>2. over'[r] = new
  OBVIOUS
<1>3. SUFFICES ASSUME runRow[r] = "success"
               PROVE  \A b \in Behind(job[r]) : b \in DOMAIN over'[r] /\ over'[r][b] = "ok"
  BY DEF EarnedBy
<1>4. \A b \in Behind(job[r]) : b \in DOMAIN o /\ o[b] = "ok"
  BY <1>3 DEF EarnedBy
<1> HIDE DEF new, o
<1> QED BY <1>1, <1>2, <1>4 DEF o

(* What is over has a record, unless it has failed.                        *)
LEMMA OverKeepsRows ==
  ASSUME NEW r \in Runs, RowsOK(r), NEW s, s \notin DOMAIN over[r], NEW result,
         over'[r] = Put(over[r], s, result), stepRow'[r] = stepRow[r], pc'[r] # "close",
         result = "ok" => s \notin Monitored \/ (s \in DOMAIN stepRow[r] /\ stepRow[r][s] \in {"success", "partial"})
  PROVE  RowsOK(r)'
<1> DEFINE o == over[r]
           new == Put(o, s, result)
<1>1. DOMAIN new = DOMAIN o \cup {s} /\ new[s] = result /\ \A y \in DOMAIN o : y # s => new[y] = o[y]
  <2> HIDE DEF o
  <2> QED BY DEF Put
<1>2. over'[r] = new
  OBVIOUS
<1>3. \A n \in DOMAIN o \cap Monitored : o[n] = "ok" =>
        n \in DOMAIN stepRow[r] /\ stepRow[r][n] \in {"success", "partial"}
  BY DEF RowsOK
<1>4. \A n \in DOMAIN over'[r] \cap Monitored : over'[r][n] = "ok" =>
        n \in DOMAIN stepRow[r] /\ stepRow[r][n] \in {"success", "partial"}
  <2> HIDE DEF new, o
  <2> QED BY <1>1, <1>2, <1>3
<1> QED BY <1>4 DEF RowsOK

LEMMA StepDiesKeeps ==
  ASSUME Types, NEW r \in Runs, StepDies(r)
  PROVE  Types' /\ OthersStay(r) /\ (RunOK(r) => RunOK(r)')
<1>1. Over(r, current[r], "bad", "between") /\ UNCHANGED <<job, stepRow, runRow>> /\ current[r] # "none"
  BY DEF StepDies, rows
<1>2. /\ OnRuns(over)' /\ OnRuns(current)' /\ OnRuns(outcome)'
      /\ pc' \in [Runs -> AtStep \cup {"idle", "between", "done"}]
      /\ over'[r] = Put(over[r], current[r], "bad") /\ current'[r] = "none" /\ outcome'[r] = "none"
      /\ pc'[r] = "between"
      /\ \A q \in Runs : q # r => /\ over'[q] = over[q] /\ current'[q] = current[q] /\ outcome'[q] = outcome[q]
                                  /\ pc'[q] = pc[q]
  BY <1>1, OverIs
<1>3. /\ disturbed' \in [Runs -> BOOLEAN] /\ disturbed'[r] = TRUE
      /\ \A q \in Runs : q # r => disturbed'[q] = disturbed[q]
  BY DEF StepDies, Types
<1>4. Types'
  BY <1>1, <1>2, <1>3 DEF Types, OnRuns
<1>5. OthersStay(r)
  BY <1>1, <1>2, <1>3 DEF OthersStay, SameFor
<1>6. ASSUME RunOK(r)
      PROVE  RunOK(r)'
  <2>1. /\ JobOK(r) /\ RowsOK(r) /\ EarnedBy(r) /\ job[r] # "none" /\ current[r] \in StepsOf(job[r]) \ DOMAIN over[r]
        /\ Met(r, current[r]) /\ runRow[r] \in Verdicts \cup {"none", "running"}
    BY <1>1, <1>6 DEF JobOK, AtStep, RunOK
  <2>2. job'[r] = job[r] /\ stepRow'[r] = stepRow[r] /\ runRow'[r] = runRow[r]
    BY <1>1
  <2>3. JobOK(r)'
    BY <1>2, <2>1, <2>2, OverKeepsJob
  <2>4. RowsOK(r)'
    BY <1>2, <2>1, <2>2, OverKeepsRows
  <2>5. EarnedBy(r)'
    BY <1>2, <2>1, <2>2, OverKeepsEarned
  <2>6. VerdictOK(r)' /\ ReachedBy(r)'
    BY <1>3 DEF VerdictOK, ReachedBy
  <2> QED BY <2>3, <2>4, <2>5, <2>6 DEF RunOK
<1> QED BY <1>4, <1>5, <1>6

LEMMA CheckPassesKeeps ==
  ASSUME Types, NEW r \in Runs, CheckPasses(r)
  PROVE  Types' /\ OthersStay(r) /\ (RunOK(r) => RunOK(r)')
<1>1. PICK s \in Checks : Ready(r, s) /\ Over(r, s, "ok", "between")
  BY DEF CheckPasses
<1>2. UNCHANGED <<job, stepRow, runRow, disturbed>>
  BY DEF CheckPasses, rows
<1>3. /\ OnRuns(over)' /\ OnRuns(current)' /\ OnRuns(outcome)'
      /\ pc' \in [Runs -> AtStep \cup {"idle", "between", "done"}]
      /\ over'[r] = Put(over[r], s, "ok") /\ current'[r] = "none" /\ outcome'[r] = "none"
      /\ pc'[r] = "between"
      /\ \A q \in Runs : q # r => /\ over'[q] = over[q] /\ current'[q] = current[q] /\ outcome'[q] = outcome[q]
                                  /\ pc'[q] = pc[q]
  BY <1>1, OverIs
<1>4. Types'
  BY <1>2, <1>3 DEF Types, OnRuns
<1>5. OthersStay(r)
  BY <1>2, <1>3 DEF OthersStay, SameFor
<1>6. ASSUME RunOK(r)
      PROVE  RunOK(r)'
  <2>1. pc[r] = "between" /\ s \in StepsOf(job[r]) \ DOMAIN over[r] /\ Met(r, s)
    BY <1>1 DEF Ready, Met
  <2>2. /\ JobOK(r) /\ RowsOK(r) /\ EarnedBy(r) /\ VerdictOK(r) /\ job[r] # "none"
        /\ runRow[r] \in Verdicts \cup {"none", "running"}
    BY <1>6, <2>1 DEF JobOK, RunOK
  <2>3. job'[r] = job[r] /\ stepRow'[r] = stepRow[r] /\ runRow'[r] = runRow[r] /\ disturbed'[r] = disturbed[r]
    BY <1>2
  <2>4. JobOK(r)'
    BY <1>3, <2>1, <2>2, <2>3, OverKeepsJob
  <2>5. RowsOK(r)'
    <3>1. s \notin Monitored
      BY DEF Checks, Blocking, Monitored
    <3>2. RowsOK(r) /\ s \notin DOMAIN over[r] /\ stepRow'[r] = stepRow[r]
      BY <2>1, <2>2, <2>3
    <3>3. over'[r] = Put(over[r], s, "ok") /\ pc'[r] # "close"
      BY <1>3
    <3> QED BY <3>1, <3>2, <3>3, OverKeepsRows
  <2>6. EarnedBy(r)'
    <3>1. s \notin DOMAIN over[r] /\ over'[r] = Put(over[r], s, "ok")
      BY <1>3, <2>1
    <3> QED BY <2>2, <2>3, <3>1, OverKeepsEarned
  <2>7. VerdictOK(r)'
    <3> DEFINE o == over[r]
               new == Put(o, s, "ok")
    <3>1. DOMAIN new = DOMAIN o \cup {s} /\ new[s] = "ok" /\ \A y \in DOMAIN o : y # s => new[y] = o[y]
      <4> HIDE DEF o
      <4> QED BY DEF Put
    <3>2. over'[r] = new
      BY <1>3
    <3>3. job[r] \in {"registry", "full"} => Terminal(job[r]) # s
      BY BehindAre DEF Checks, Blocking
    <3>4. ~disturbed[r] /\ job[r] \in {"registry", "full"} =>
            /\ Terminal(job[r]) \in DOMAIN o => runRow[r] \in Verdicts
            /\ \A n \in Behind(job[r]) \cap DOMAIN o : o[n] = "bad" => runRow[r] \in {"failed", "interrupted"}
      BY <2>2 DEF VerdictOK
    <3> HIDE DEF o, new
    <3>5. ~disturbed[r] /\ job[r] \in {"registry", "full"} =>
            /\ Terminal(job[r]) \in DOMAIN new => runRow[r] \in Verdicts
            /\ \A n \in Behind(job[r]) \cap DOMAIN new : new[n] = "bad" => runRow[r] \in {"failed", "interrupted"}
      BY <3>1, <3>3, <3>4
    <3> QED BY <2>3, <3>2, <3>5 DEF VerdictOK
  <2>8. ReachedBy(r)'
    BY <1>3 DEF ReachedBy
  <2> QED BY <2>4, <2>5, <2>6, <2>7, <2>8 DEF RunOK
<1> QED BY <1>4, <1>5, <1>6

LEMMA CheckRaisesKeeps ==
  ASSUME Types, NEW r \in Runs, CheckRaises(r)
  PROVE  Types' /\ OthersStay(r) /\ (RunOK(r) => RunOK(r)')
<1>1. PICK s \in Blocking : Ready(r, s) /\ Over(r, s, "bad", "between")
  BY DEF CheckRaises
<1>2. UNCHANGED <<job, stepRow, runRow>>
  BY DEF CheckRaises, rows
<1>3. /\ OnRuns(over)' /\ OnRuns(current)' /\ OnRuns(outcome)'
      /\ pc' \in [Runs -> AtStep \cup {"idle", "between", "done"}]
      /\ over'[r] = Put(over[r], s, "bad") /\ current'[r] = "none" /\ outcome'[r] = "none"
      /\ pc'[r] = "between"
      /\ \A q \in Runs : q # r => /\ over'[q] = over[q] /\ current'[q] = current[q] /\ outcome'[q] = outcome[q]
                                  /\ pc'[q] = pc[q]
  BY <1>1, OverIs
<1>4. /\ disturbed' \in [Runs -> BOOLEAN] /\ disturbed'[r] = TRUE
      /\ \A q \in Runs : q # r => disturbed'[q] = disturbed[q]
  BY DEF CheckRaises, Types
<1>5. Types'
  BY <1>2, <1>3, <1>4 DEF Types, OnRuns
<1>6. OthersStay(r)
  BY <1>2, <1>3, <1>4 DEF OthersStay, SameFor
<1>7. ASSUME RunOK(r)
      PROVE  RunOK(r)'
  <2>1. pc[r] = "between" /\ s \in StepsOf(job[r]) \ DOMAIN over[r] /\ Met(r, s)
    BY <1>1 DEF Ready, Met
  <2>2. /\ JobOK(r) /\ RowsOK(r) /\ EarnedBy(r) /\ job[r] # "none"
        /\ runRow[r] \in Verdicts \cup {"none", "running"}
    BY <1>7, <2>1 DEF JobOK, RunOK
  <2>3. job'[r] = job[r] /\ stepRow'[r] = stepRow[r] /\ runRow'[r] = runRow[r]
    BY <1>2
  <2>4. JobOK(r)'
    BY <1>3, <2>1, <2>2, <2>3, OverKeepsJob
  <2>5. RowsOK(r)'
    BY <1>3, <2>1, <2>2, <2>3, OverKeepsRows
  <2>6. EarnedBy(r)'
    <3>1. s \notin DOMAIN over[r] /\ over'[r] = Put(over[r], s, "bad")
      BY <1>3, <2>1
    <3> QED BY <2>2, <2>3, <3>1, OverKeepsEarned
  <2>7. VerdictOK(r)' /\ ReachedBy(r)'
    BY <1>4 DEF VerdictOK, ReachedBy
  <2> QED BY <2>4, <2>5, <2>6, <2>7 DEF RunOK
<1> QED BY <1>5, <1>6, <1>7

LEMMA CheckFailsKeeps ==
  ASSUME Types, NEW r \in Runs, CheckFails(r)
  PROVE  Types' /\ OthersStay(r) /\ (RunOK(r) => RunOK(r)')
<1>1. PICK s \in Blocking : Ready(r, s) /\ Writes(r, s, "failed") /\ Over(r, s, "bad", "between")
  BY DEF CheckFails
<1>2. UNCHANGED job
  BY DEF CheckFails
<1>3. /\ OnRuns(over)' /\ OnRuns(current)' /\ OnRuns(outcome)'
      /\ pc' \in [Runs -> AtStep \cup {"idle", "between", "done"}]
      /\ over'[r] = Put(over[r], s, "bad") /\ current'[r] = "none" /\ outcome'[r] = "none"
      /\ pc'[r] = "between"
      /\ \A q \in Runs : q # r => /\ over'[q] = over[q] /\ current'[q] = current[q] /\ outcome'[q] = outcome[q]
                                  /\ pc'[q] = pc[q]
  BY <1>1, OverIs
<1>4. /\ OnRuns(stepRow)' /\ stepRow'[r] = Put(stepRow[r], s, "failed")
      /\ \A q \in Runs : q # r => stepRow'[q] = stepRow[q]
  BY <1>1, WritesIs
<1>5. /\ OnRuns(runRow)' /\ disturbed' \in [Runs -> BOOLEAN]
      /\ \/ runRow'[r] = "failed" \/ (runRow'[r] = runRow[r] /\ disturbed'[r] = TRUE)
      /\ \A q \in Runs : q # r => runRow'[q] = runRow[q] /\ disturbed'[q] = disturbed[q]
  <2>1. CASE runRow' = [runRow EXCEPT ![r] = "failed"] /\ UNCHANGED disturbed
    <3>1. OnRuns(runRow)' /\ runRow'[r] = "failed" /\ \A q \in Runs : q # r => runRow'[q] = runRow[q]
      BY <2>1, Update DEF OnRuns, Types
    <3> QED BY <2>1, <3>1 DEF Types
  <2>2. CASE disturbed' = [disturbed EXCEPT ![r] = TRUE] /\ UNCHANGED runRow
    <3>1. /\ disturbed' \in [Runs -> BOOLEAN] /\ disturbed'[r] = TRUE
          /\ \A q \in Runs : q # r => disturbed'[q] = disturbed[q]
      BY <2>2 DEF Types
    <3> QED BY <2>2, <3>1 DEF Types, OnRuns
  <2> QED BY <2>1, <2>2 DEF CheckFails
<1>6. Types'
  BY <1>2, <1>3, <1>4, <1>5 DEF Types, OnRuns
<1>7. OthersStay(r)
  BY <1>2, <1>3, <1>4, <1>5 DEF OthersStay, SameFor
<1>8. ASSUME RunOK(r)
      PROVE  RunOK(r)'
  <2>1. pc[r] = "between" /\ s \in StepsOf(job[r]) \ DOMAIN over[r] /\ Met(r, s)
    BY <1>1 DEF Ready, Met
  <2>2. /\ JobOK(r) /\ RowsOK(r) /\ EarnedBy(r) /\ job[r] # "none"
        /\ runRow[r] \in Verdicts \cup {"none", "running"}
    BY <1>8, <2>1 DEF JobOK, RunOK
  <2>3. job'[r] = job[r]
    BY <1>2
  <2>4. s \notin Monitored /\ \A j \in Jobs : Terminal(j) # s
    <3>1. s \notin Monitored /\ s \notin {"registry", "minute", "monitoring"}
      BY DEF Checks, Blocking, Monitored
    <3> QED BY <3>1, BehindAre DEF Jobs
  <2> DEFINE o == over[r]
             new == Put(o, s, "bad")
             row == stepRow[r]
             put == Put(row, s, "failed")
  <2>5. DOMAIN new = DOMAIN o \cup {s} /\ new[s] = "bad" /\ \A y \in DOMAIN o : y # s => new[y] = o[y]
    <3> HIDE DEF o
    <3> QED BY DEF Put
  <2>6. DOMAIN put = DOMAIN row \cup {s} /\ put[s] = "failed" /\ \A y \in DOMAIN row : y # s => put[y] = row[y]
    <3> HIDE DEF row
    <3> QED BY DEF Put
  <2>7. over'[r] = new /\ stepRow'[r] = put
    BY <1>3, <1>4
  <2>8. JobOK(r)'
    <3>1. runRow'[r] \in Verdicts \cup {"none", "running"}
      BY <1>5, <2>2 DEF Verdicts
    <3> QED BY <1>3, <2>1, <2>2, <2>3, <3>1, OverKeepsJob
  <2>9. RowsOK(r)'
    <3>1. \A n \in DOMAIN row : row[n] \in Verdicts \cup {"running"} /\ (n \in Checks => row[n] = "failed")
      BY <2>2 DEF RowsOK
    <3>2. \A n \in DOMAIN o \cap Monitored : o[n] = "ok" => n \in DOMAIN row /\ row[n] \in {"success", "partial"}
      BY <2>2 DEF RowsOK
    <3> HIDE DEF o, new, row, put
    <3>3. "failed" \in Verdicts
      BY DEF Verdicts
    <3>4. \A n \in DOMAIN put : put[n] \in Verdicts \cup {"running"} /\ (n \in Checks => put[n] = "failed")
      BY <2>6, <3>1, <3>3
    <3>5. \A n \in DOMAIN new \cap Monitored : new[n] = "ok" => n \in DOMAIN put /\ put[n] \in {"success", "partial"}
      BY <2>4, <2>5, <2>6, <3>2
    <3> QED BY <1>3, <2>7, <3>4, <3>5 DEF RowsOK
  <2>10. VerdictOK(r)' /\ ReachedBy(r)'
    BY <1>3, <1>5 DEF VerdictOK, ReachedBy, Verdicts
  <2>11. EarnedBy(r)'
    <3>1. SUFFICES ASSUME runRow'[r] = "success"
                   PROVE  /\ "partial" \notin Range(put)
                          /\ Terminal(job[r]) \in DOMAIN put /\ put[Terminal(job[r])] = "success"
                          /\ \A b \in Behind(job[r]) : /\ b \in DOMAIN new /\ new[b] = "ok"
                                                       /\ b \in Monitored => put[b] = "success"
      BY <2>3, <2>7 DEF EarnedBy
    <3>2. runRow[r] = "success"
      BY <1>5, <3>1
    <3>3. /\ "partial" \notin Range(row)
          /\ Terminal(job[r]) \in DOMAIN row /\ row[Terminal(job[r])] = "success"
          /\ \A b \in Behind(job[r]) : /\ b \in DOMAIN o /\ o[b] = "ok"
                                       /\ b \in Monitored => row[b] = "success"
      BY <2>2, <3>2 DEF EarnedBy
    <3>4. \A n \in DOMAIN o \cap Monitored : o[n] = "ok" => n \in DOMAIN row
      BY <2>2 DEF RowsOK
    <3>5. s \notin DOMAIN o /\ Terminal(job[r]) # s
      BY <2>1, <2>2, <2>4 DEF JobOK
    <3> HIDE DEF o, new, row, put
    <3>6. "partial" \notin Range(put)
      <4>1. \A n \in DOMAIN row : row[n] # "partial"
        BY <3>3 DEF Range
      <4>2. \A n \in DOMAIN put : put[n] # "partial"
        BY <2>6, <4>1
      <4> QED BY <4>2 DEF Range
    <3>7. Terminal(job[r]) \in DOMAIN put /\ put[Terminal(job[r])] = "success"
      BY <2>6, <3>3, <3>5
    <3>8. \A b \in Behind(job[r]) : b \in DOMAIN new /\ new[b] = "ok"
      BY <2>5, <3>3, <3>5
    <3>9. \A b \in Behind(job[r]) : b \in Monitored => put[b] = "success"
      BY <2>4, <2>6, <3>3, <3>4
    <3> QED BY <3>6, <3>7, <3>8, <3>9
  <2> QED BY <2>8, <2>9, <2>10, <2>11 DEF RunOK
<1> QED BY <1>6, <1>7, <1>8

(* How the record of a step at its end bears on the run.                   *)
LEMMA FinishRunIs ==
  ASSUME Types, NEW r \in Runs, FinishRun(r)
  PROVE  /\ Types' /\ OthersStay(r)
         /\ pc[r] = "close" /\ job'[r] = job[r] /\ stepRow'[r] = stepRow[r]
         /\ runRow'[r] = IF Decides(r) THEN RunStatus(r) ELSE runRow[r]
         /\ current'[r] = "none" /\ outcome'[r] = "none"
         /\ pc'[r] = IF outcome[r] = "interrupted" THEN "done" ELSE "between"
         /\ \E result \in {"ok", "bad"} :
              /\ over'[r] = Put(over[r], current[r], result)
              /\ outcome[r] \in {"success", "partial"} => (result = "bad" => current[r] = "core")
              /\ outcome[r] \in {"failed", "interrupted"} => result = "bad"
              /\ result = "bad" /\ outcome[r] = "success" => disturbed'[r]
              /\ disturbed[r] => disturbed'[r]
<1> DEFINE place == IF outcome[r] = "interrupted" THEN "done" ELSE "between"
<1>1. PICK result \in {"ok", "bad"} :
        /\ outcome[r] \in {"success", "partial"} => (result = "bad" => current[r] = "core")
        /\ outcome[r] \in {"failed", "interrupted"} => result = "bad"
        /\ Over(r, current[r], result, place)
        /\ disturbed' = [disturbed EXCEPT ![r] = @ \/ (result = "bad" /\ outcome[r] = "success")]
  BY DEF FinishRun
<1>2. /\ runRow' = IF Decides(r) THEN [runRow EXCEPT ![r] = RunStatus(r)] ELSE runRow
      /\ UNCHANGED <<job, stepRow>> /\ pc[r] = "close"
  BY DEF FinishRun
<1>3. place \in {"between", "done"}
  OBVIOUS
<1>4. /\ OnRuns(over)' /\ OnRuns(current)' /\ OnRuns(outcome)'
      /\ pc' \in [Runs -> AtStep \cup {"idle", "between", "done"}]
      /\ over'[r] = Put(over[r], current[r], result) /\ current'[r] = "none" /\ outcome'[r] = "none"
      /\ pc'[r] = place
      /\ \A q \in Runs : q # r => /\ over'[q] = over[q] /\ current'[q] = current[q] /\ outcome'[q] = outcome[q]
                                  /\ pc'[q] = pc[q]
  <2>1. Over(r, current[r], result, place)
    BY <1>1
  <2> HIDE DEF place
  <2> QED BY <1>3, <2>1, OverIs
<1>5. /\ OnRuns(runRow)' /\ runRow'[r] = IF Decides(r) THEN RunStatus(r) ELSE runRow[r]
      /\ \A q \in Runs : q # r => runRow'[q] = runRow[q]
  <2>1. CASE Decides(r)
    <3>1. runRow' = [runRow EXCEPT ![r] = RunStatus(r)]
      BY <1>2, <2>1
    <3> QED BY <2>1, <3>1, Update DEF OnRuns, Types
  <2>2. CASE ~Decides(r)
    BY <1>2, <2>2 DEF OnRuns, Types
  <2> QED BY <2>1, <2>2
<1>6. /\ disturbed' \in [Runs -> BOOLEAN] /\ \A q \in Runs : q # r => disturbed'[q] = disturbed[q]
      /\ result = "bad" /\ outcome[r] = "success" => disturbed'[r]
      /\ disturbed[r] => disturbed'[r]
  <2> DEFINE b == disturbed[r] \/ (result = "bad" /\ outcome[r] = "success")
  <2>1. disturbed' = [disturbed EXCEPT ![r] = b] /\ disturbed \in [Runs -> BOOLEAN] /\ b \in BOOLEAN
    BY <1>1 DEF Types
  <2>2. (result = "bad" /\ outcome[r] = "success" => b) /\ (disturbed[r] => b)
    OBVIOUS
  <2> HIDE DEF b
  <2>3. /\ disturbed' \in [Runs -> BOOLEAN] /\ \A q \in Runs : q # r => disturbed'[q] = disturbed[q]
        /\ disturbed'[r] = b
    BY <2>1
  <2> QED BY <2>2, <2>3
<1>7. Types'
  BY <1>2, <1>4, <1>5, <1>6 DEF Types, OnRuns
<1>8. OthersStay(r)
  BY <1>2, <1>4, <1>5, <1>6 DEF OthersStay, SameFor
<1>9. job'[r] = job[r] /\ stepRow'[r] = stepRow[r]
  BY <1>2
<1> QED BY <1>1, <1>2, <1>4, <1>5, <1>6, <1>7, <1>8, <1>9

(* finish(): a success is written at the terminal step only, and then      *)
(* nothing behind it was partial.                                          *)
LEMMA FinishRunKeepsRun ==
  ASSUME Types, NEW r \in Runs, FinishRun(r), RunOK(r)
  PROVE  RunOK(r)'
<1> DEFINE c == current[r]
           e == outcome[r]
           o == over[r]
<1>1. /\ pc[r] = "close" /\ job'[r] = job[r] /\ stepRow'[r] = stepRow[r]
      /\ runRow'[r] = IF Decides(r) THEN RunStatus(r) ELSE runRow[r]
      /\ current'[r] = "none" /\ outcome'[r] = "none"
      /\ pc'[r] = IF outcome[r] = "interrupted" THEN "done" ELSE "between"
  BY FinishRunIs
<1>2. PICK result \in {"ok", "bad"} :
        /\ over'[r] = Put(o, c, result)
        /\ e \in {"success", "partial"} => (result = "bad" => c = "core")
        /\ e \in {"failed", "interrupted"} => result = "bad"
        /\ result = "bad" /\ e = "success" => disturbed'[r]
        /\ disturbed[r] => disturbed'[r]
  BY FinishRunIs
<1>3. /\ JobOK(r) /\ RowsOK(r) /\ job[r] \in Jobs /\ job[r] # "none" /\ c \in Monitored
      /\ c \in StepsOf(job[r]) \ DOMAIN o /\ Met(r, c) /\ runRow[r] = "running" /\ e \in Verdicts
      /\ (e = "partial" => c = "minute")
  BY <1>1 DEF RunOK, JobOK, AtStep
<1>4. c \in DOMAIN stepRow[r] /\ stepRow[r][c] = e
  BY <1>1, <1>3 DEF RowsOK
<1>5. e \in {"success", "partial", "failed", "interrupted"}
  BY <1>3 DEF Verdicts
<1>6. /\ e \in {"failed", "interrupted"} => runRow'[r] = e
      /\ e \in {"success", "partial"} /\ c # Terminal(job[r]) => runRow'[r] = "running"
      /\ e \in {"success", "partial"} /\ c = Terminal(job[r]) => runRow'[r] \in {"success", "partial"}
      /\ runRow'[r] = "success" => /\ e = "success" /\ c = Terminal(job[r]) /\ "partial" \notin Range(stepRow[r])
  BY <1>1, <1>3, <1>5 DEF Decides, RunStatus, IsTerminal
<1>7. result = "ok" => e \in {"success", "partial"}
  BY <1>2, <1>5
<1>8. ~disturbed'[r] /\ result = "bad" => e \in {"failed", "interrupted"}
  BY <1>2, <1>3, <1>5
<1> DEFINE new == Put(o, c, result)
<1>9. DOMAIN new = DOMAIN o \cup {c} /\ new[c] = result /\ \A y \in DOMAIN o : y # c => new[y] = o[y]
  <2> HIDE DEF o, c
  <2> QED BY DEF Put
<1>10. over'[r] = new
  BY <1>2
<1>11. JobOK(r)'
  <2>1. runRow'[r] \in Verdicts \cup {"none", "running"}
    BY <1>5, <1>6 DEF Verdicts
  <2>2. pc'[r] \in {"between", "done"}
    BY <1>1
  <2> QED BY <1>1, <1>2, <1>3, <2>1, <2>2, OverKeepsJob
<1>12. RowsOK(r)'
  <2>1. pc'[r] # "close"
    BY <1>1
  <2>2. c \notin DOMAIN o
    BY <1>3
  <2> QED BY <1>1, <1>2, <1>3, <1>4, <1>7, <2>1, <2>2, OverKeepsRows
<1>13. VerdictOK(r)'
  <2>1. SUFFICES ASSUME ~disturbed'[r], job[r] \in {"registry", "full"}
                 PROVE  /\ Terminal(job[r]) \in DOMAIN new => runRow'[r] \in Verdicts
                        /\ \A b \in Behind(job[r]) \cap DOMAIN new :
                             new[b] = "bad" => runRow'[r] \in {"failed", "interrupted"}
    BY <1>1, <1>10 DEF VerdictOK
  <2>2. Terminal(job[r]) \notin DOMAIN o /\ \A b \in Behind(job[r]) \cap DOMAIN o : o[b] = "ok"
    BY <1>3, <2>1, Chain
  <2> HIDE DEF o, c, e, new
  <2>3. CASE e \in {"failed", "interrupted"}
    BY <1>6, <2>3 DEF Verdicts
  <2>4. CASE e \in {"success", "partial"}
    <3>1. result = "ok"
      BY <1>8, <2>1, <2>4
    <3>2. \A b \in Behind(job[r]) \cap DOMAIN new : new[b] = "ok"
      BY <1>9, <2>2, <3>1
    <3>3. Terminal(job[r]) \in DOMAIN new => c = Terminal(job[r])
      BY <1>9, <2>2
    <3> QED BY <1>6, <2>4, <3>2, <3>3 DEF Verdicts
  <2> QED BY <1>5, <2>3, <2>4
<1>14. EarnedBy(r)'
  <2>1. SUFFICES ASSUME runRow'[r] = "success"
                 PROVE  /\ "partial" \notin Range(stepRow[r])
                        /\ Terminal(job[r]) \in DOMAIN stepRow[r] /\ stepRow[r][Terminal(job[r])] = "success"
                        /\ \A b \in Behind(job[r]) : /\ b \in DOMAIN new /\ new[b] = "ok"
                                                     /\ b \in Monitored => stepRow[r][b] = "success"
    BY <1>1, <1>10 DEF EarnedBy
  <2>2. e = "success" /\ c = Terminal(job[r]) /\ "partial" \notin Range(stepRow[r])
    BY <1>6, <2>1
  <2>3. Met(r, Terminal(job[r]))
    BY <1>3, <2>2
  <2>4. \A b \in Behind(job[r]) : b \in DOMAIN o /\ o[b] = "ok"
    BY <1>3, <2>3, TerminalStandsOn DEF Fine
  <2>5. \A b \in Behind(job[r]) : b \in Monitored => stepRow[r][b] = "success"
    <3>1. \A b \in Behind(job[r]) : b \in Monitored =>
            b \in DOMAIN stepRow[r] /\ stepRow[r][b] \in {"success", "partial"}
      BY <1>3, <2>4 DEF RowsOK
    <3>2. \A b \in DOMAIN stepRow[r] : stepRow[r][b] # "partial"
      BY <2>2 DEF Range
    <3> QED BY <3>1, <3>2
  <2>6. c \notin DOMAIN o
    BY <1>3
  <2>7. \A b \in Behind(job[r]) : b \in DOMAIN new /\ new[b] = "ok"
    <3> HIDE DEF o, c, e, new
    <3> QED BY <1>9, <2>4, <2>6
  <2> QED BY <1>4, <2>2, <2>5, <2>7
<1>15. ReachedBy(r)'
  <2>1. pc'[r] = "done" => e = "interrupted"
    BY <1>1
  <2> QED BY <1>6, <2>1 DEF ReachedBy, Verdicts
<1> QED BY <1>11, <1>12, <1>13, <1>14, <1>15 DEF RunOK

LEMMA FinishRunKeeps ==
  ASSUME Types, NEW r \in Runs, FinishRun(r)
  PROVE  Types' /\ OthersStay(r) /\ (RunOK(r) => RunOK(r)')
BY FinishRunIs, FinishRunKeepsRun

(* A catalog or full job with nothing left to start has come to its end or *)
(* to a failure on the way there.                                          *)
LEMMA NothingLeft ==
  ASSUME NEW r \in Runs, JobOK(r), pc[r] = "between", job[r] \in {"registry", "full"},
         \A s \in StepsOf(job[r]) : ~Ready(r, s), Terminal(job[r]) \notin DOMAIN over[r]
  PROVE  \E b \in Behind(job[r]) \cap DOMAIN over[r] : over[r][b] = "bad"
<1> SUFFICES ASSUME \A b \in Behind(job[r]) \cap DOMAIN over[r] : over[r][b] # "bad"
             PROVE  FALSE
  OBVIOUS
<1>1. \A b \in Behind(job[r]) : b \in DOMAIN over[r] => Fine(r, b)
  BY DEF JobOK, Fine
<1>2. \A s \in StepsOf(job[r]) : (\A n \in Needs(s) \cap StepsOf(job[r]) : Fine(r, n)) => s \in DOMAIN over[r]
  BY DEF Ready, Fine
<1>3. CASE job[r] = "registry"
  <2>1. Fine(r, "preflight")
    BY <1>1, <1>2, <1>3, StepsAre, NeedsAre, BehindAre
  <2>2. Fine(r, "contracts")
    BY <1>1, <1>2, <1>3, <2>1, StepsAre, NeedsAre, BehindAre
  <2>3. Fine(r, "catalog")
    BY <1>1, <1>2, <1>3, <2>1, <2>2, StepsAre, NeedsAre, BehindAre
  <2>4. Fine(r, "converged")
    BY <1>1, <1>2, <1>3, <2>3, StepsAre, NeedsAre, BehindAre
  <2>5. "registry" \in DOMAIN over[r]
    BY <1>2, <1>3, <2>3, <2>4, StepsAre, NeedsAre
  <2> QED BY <1>3, <2>5, BehindAre
<1>4. CASE job[r] = "full"
  <2>1. Fine(r, "preflight")
    BY <1>1, <1>2, <1>4, StepsAre, NeedsAre, BehindAre
  <2>2. Fine(r, "contracts")
    BY <1>1, <1>2, <1>4, <2>1, StepsAre, NeedsAre, BehindAre
  <2>3. Fine(r, "catalog")
    BY <1>1, <1>2, <1>4, <2>1, <2>2, StepsAre, NeedsAre, BehindAre
  <2>4. Fine(r, "converged")
    BY <1>1, <1>2, <1>4, <2>3, StepsAre, NeedsAre, BehindAre
  <2>5. Fine(r, "registry")
    BY <1>1, <1>2, <1>4, <2>3, <2>4, StepsAre, NeedsAre, BehindAre
  <2>6. Fine(r, "roles")
    BY <1>1, <1>2, <1>4, <2>5, StepsAre, NeedsAre, BehindAre
  <2>7. Fine(r, "minute")
    BY <1>1, <1>2, <1>4, <2>5, <2>6, StepsAre, NeedsAre, BehindAre
  <2>8. Fine(r, "reconciled")
    BY <1>1, <1>2, <1>4, <2>7, StepsAre, NeedsAre, BehindAre
  <2>9. Fine(r, "core")
    BY <1>1, <1>2, <1>4, <2>1, <2>3, <2>4, <2>5, <2>6, <2>7, <2>8, StepsAre, NeedsAre, BehindAre
  <2>10. "monitoring" \in DOMAIN over[r]
    BY <1>2, <1>4, <2>1, <2>9, StepsAre, NeedsAre
  <2> QED BY <1>4, <2>10, BehindAre
<1> QED BY <1>3, <1>4

LEMMA JobEndsKeeps ==
  ASSUME Types, NEW r \in Runs, JobEnds(r)
  PROVE  Types' /\ OthersStay(r) /\ (RunOK(r) => RunOK(r)')
<1>1. UNCHANGED <<job, current, outcome, over, stepRow, runRow, disturbed>> /\ pc[r] = "between" /\ Moves(r, "done")
  BY DEF JobEnds, soccer, rows
<1>2. /\ pc' \in [Runs -> AtStep \cup {"idle", "between", "done"}] /\ pc'[r] = "done"
      /\ \A q \in Runs : q # r => pc'[q] = pc[q]
  BY <1>1, MovesIs
<1>3. Types'
  BY <1>1, <1>2 DEF Types, OnRuns
<1>4. OthersStay(r)
  BY <1>1, <1>2 DEF OthersStay, SameFor
<1>5. ASSUME RunOK(r)
      PROVE  RunOK(r)'
  <2>1. job'[r] = job[r] /\ current'[r] = current[r] /\ over'[r] = over[r] /\ stepRow'[r] = stepRow[r]
        /\ runRow'[r] = runRow[r] /\ disturbed'[r] = disturbed[r] /\ outcome'[r] = outcome[r]
    BY <1>1
  <2>2. \A n : Met(r, n) <=> Met(r, n)'
    BY <2>1 DEF Met
  <2>3. JobOK(r)'
    BY <1>1, <1>2, <1>5, <2>1, <2>2 DEF JobOK, AtStep, RunOK
  <2>4. RowsOK(r)'
    BY <1>2, <1>5, <2>1 DEF RowsOK, RunOK
  <2>5. VerdictOK(r)' /\ EarnedBy(r)'
    BY <1>5, <2>1 DEF VerdictOK, EarnedBy, RunOK
  <2>6. ReachedBy(r)'
    <3>1. SUFFICES ASSUME ~disturbed[r], job[r] \in {"registry", "full"}
                   PROVE  runRow[r] \in Verdicts
      BY <2>1 DEF ReachedBy
    <3>2. JobOK(r) /\ VerdictOK(r) /\ \A s \in StepsOf(job[r]) : ~Ready(r, s)
      BY <1>5 DEF RunOK, JobEnds
    <3>3. Terminal(job[r]) \in DOMAIN over[r] \/ \E b \in Behind(job[r]) \cap DOMAIN over[r] : over[r][b] = "bad"
      BY <1>1, <3>1, <3>2, NothingLeft
    <3> QED BY <3>1, <3>2, <3>3 DEF VerdictOK, Verdicts
  <2> QED BY <2>3, <2>4, <2>5, <2>6 DEF RunOK
<1> QED BY <1>3, <1>4, <1>5

LEMMA OthersStayKeeps ==
  ASSUME Ledgers, NEW r \in Runs, Types', OthersStay(r), r \in MonitoredRuns /\ RunOK(r) => RunOK(r)'
  PROVE  Ledgers'
<1>1. ASSUME NEW q \in MonitoredRuns
      PROVE  RunOK(q)'
  <2>1. RunOK(q) /\ q \in Runs
    BY MonitoredAssumption DEF Ledgers
  <2>2. CASE q = r
    BY <2>1, <2>2
  <2>3. CASE q # r
    BY <2>1, <2>3, SameKeeps DEF OthersStay
  <2> QED BY <2>2, <2>3
<1> QED BY <1>1 DEF Ledgers

(* The warehouse is held by the run that has a child.                      *)
HeldBy == /\ lock \in Runs \cup {NoRun} /\ OnRuns(child)
          /\ \A r \in Runs : child[r] # NoChild <=> lock = r

LEMMA QuietStays ==
  ASSUME Quiet, UNCHANGED <<now, files, at, full, history, ledger>>, HeldBy'
  PROVE  Quiet'
BY DEF Quiet, files, history, HeldBy, OnRuns

LEMMA SoccerKeepsLock ==
  ASSUME HeldBy, NEW r \in Runs,
         LaunchStep(r) \/ StepChildEnds(r) \/ UNCHANGED <<child, lock>>
  PROVE  HeldBy'
<1>0. NoRun \notin Runs
  BY RunsAssumption DEF NoRun
<1>1. CASE LaunchStep(r)
  <2>1. lock = NoRun /\ lock' = r /\ child' = [child EXCEPT ![r] = StepChild]
    BY <1>1 DEF LaunchStep
  <2>2. OnRuns(child)' /\ child'[r] = StepChild /\ \A q \in Runs : q # r => child'[q] = child[q]
    BY <2>1, Update DEF OnRuns, HeldBy
  <2>3. StepChild # NoChild
    <3>1. StepChild.for = "step" /\ NoChild.for = "nothing"
      BY DEF StepChild, NoChild
    <3> QED BY <3>1
  <2>4. \A q \in Runs : child[q] = NoChild
    BY <1>0, <2>1 DEF HeldBy
  <2> QED BY <2>1, <2>2, <2>3, <2>4 DEF HeldBy
<1>2. CASE StepChildEnds(r)
  <2>1. child[r] # NoChild /\ lock' = NoRun /\ child' = [child EXCEPT ![r] = NoChild]
    BY <1>2 DEF StepChildEnds
  <2>2. OnRuns(child)' /\ child'[r] = NoChild /\ \A q \in Runs : q # r => child'[q] = child[q]
    BY <2>1, Update DEF OnRuns, HeldBy
  <2>3. \A q \in Runs : q # r => child[q] = NoChild
    BY <2>1 DEF HeldBy
  <2> QED BY <1>0, <2>1, <2>2, <2>3 DEF HeldBy
<1>3. CASE UNCHANGED <<child, lock>>
  BY <1>3 DEF HeldBy, OnRuns
<1> QED BY <1>1, <1>2, <1>3

LEMMA SoccerNextKeeps ==
  ASSUME Quiet, Ledgers, SoccerNext, UNCHANGED kalshi
  PROVE  Quiet' /\ Ledgers' /\ scope = "jobs" /\ UNCHANGED scope
<1>1. scope = "jobs" /\ UNCHANGED <<scope, now, files, at, full, history, ledger>>
  BY DEF SoccerNext, kalshi
<1>2. Types /\ HeldBy
  BY DEF Ledgers, Quiet, HeldBy
<1>3. PICK r \in Runs :
        \/ StartJob(r) \/ BeginStep(r) \/ OpenRun(r) \/ OpenStep(r)
        \/ Work(r) \/ LaunchStep(r) \/ StepChildEnds(r)
        \/ FinishStep(r) \/ FinishRun(r)
        \/ CheckPasses(r) \/ CheckFails(r) \/ CheckRaises(r)
        \/ StepDies(r) \/ JobDies(r) \/ JobEnds(r)
  BY DEF SoccerNext
<1>4. Types' /\ OthersStay(r) /\ (r \in MonitoredRuns /\ RunOK(r) => RunOK(r)')
  <2>1. CASE StartJob(r)
    BY <1>2, <2>1, StartJobKeeps
  <2>2. CASE BeginStep(r)
    BY <1>2, <2>2, BeginStepKeeps
  <2>3. CASE OpenRun(r)
    BY <1>2, <2>3, OpenRunKeeps
  <2>4. CASE OpenStep(r)
    BY <1>2, <2>4, OpenStepKeeps
  <2>5. CASE Work(r)
    BY <1>2, <2>5, WorkKeeps
  <2>6. CASE LaunchStep(r)
    BY <1>2, <2>6, LaunchStepKeeps
  <2>7. CASE StepChildEnds(r)
    BY <1>2, <2>7, StepChildEndsKeeps
  <2>8. CASE FinishStep(r)
    BY <1>2, <2>8, FinishStepKeeps
  <2>9. CASE FinishRun(r)
    BY <1>2, <2>9, FinishRunKeeps
  <2>10. CASE CheckPasses(r)
    BY <1>2, <2>10, CheckPassesKeeps
  <2>11. CASE CheckFails(r)
    BY <1>2, <2>11, CheckFailsKeeps
  <2>12. CASE CheckRaises(r)
    BY <1>2, <2>12, CheckRaisesKeeps
  <2>13. CASE StepDies(r)
    BY <1>2, <2>13, StepDiesKeeps
  <2>14. CASE JobDies(r)
    BY <1>2, <2>14, JobDiesKeeps
  <2>15. CASE JobEnds(r)
    BY <1>2, <2>15, JobEndsKeeps
  <2> QED BY <1>3, <2>1, <2>2, <2>3, <2>4, <2>5, <2>6, <2>7, <2>8, <2>9, <2>10, <2>11, <2>12, <2>13, <2>14, <2>15
<1>5. LaunchStep(r) \/ StepChildEnds(r) \/ UNCHANGED <<child, lock>>
  BY <1>3 DEF StartJob, BeginStep, OpenRun, OpenStep, Work, FinishStep, FinishRun, CheckPasses, CheckFails,
              CheckRaises, StepDies, JobDies, JobEnds
<1>6. HeldBy'
  BY <1>2, <1>5, SoccerKeepsLock
<1>7. Quiet'
  BY <1>1, <1>6, QuietStays
<1>8. Ledgers'
  BY <1>4, OthersStayKeeps
<1> QED BY <1>1, <1>7, <1>8

------------------------------------------------------------------------------
(* The invariant *)

(* At the start nothing is built, fetched or recorded.                     *)
LEMMA InitInv == Init => Inv
<1> SUFFICES ASSUME Init
             PROVE  Inv
  OBVIOUS
<1>1. scope \in Scopes /\ now = 0 /\ raw = << >> /\ tables = [m \in Tables |-> << >>] /\ marks = {} /\ broken = {}
      /\ overlapped = FALSE /\ lock = NoRun
  BY DEF Init, BuildInit, Tables
<1>2. \A r \in Runs : child[r] = NoChild /\ pc[r] = "idle" /\ at[r] = 1 /\ full[r] = FALSE
  BY DEF Init, BuildInit
<1>3. NoRun \notin Runs /\ \A r \in Runs : child[r] = NoChild /\ lock # r
  BY <1>1, <1>2, RunsAssumption DEF NoRun
<1>4. OnRuns(child) /\ at = [r \in Runs |-> 1] /\ full = [r \in Runs |-> FALSE] /\ pc = [r \in Runs |-> "idle"]
  BY DEF Init, BuildInit, OnRuns
<1>5. \A r \in Runs : job[r] = "none" /\ current[r] = "none" /\ outcome[r] = "none" /\ over[r] = << >>
                      /\ stepRow[r] = << >> /\ runRow[r] = "none"
  BY DEF Init, SoccerInit
<1>6. CASE scope = "jobs"
  <2>1. Quiet
    <3>1. ledger = << >>
      BY DEF Init, KalshiInit
    <3> QED BY <1>1, <1>3, <1>4, <3>1 DEF Quiet
  <2>2. Types
    <3>1. OnRuns(job) /\ OnRuns(current) /\ OnRuns(outcome) /\ OnRuns(over) /\ OnRuns(stepRow) /\ OnRuns(runRow)
      BY DEF Init, SoccerInit, OnRuns
    <3>2. disturbed \in [Runs -> BOOLEAN] /\ pc \in [Runs -> AtStep \cup {"idle", "between", "done"}]
      BY DEF Init, SoccerInit, BuildInit
    <3> QED BY <3>1, <3>2 DEF Types
  <2>3. ASSUME NEW r \in MonitoredRuns
        PROVE  RunOK(r)
    <3>1. r \in Runs
      BY MonitoredAssumption
    <3>2. /\ job[r] = "none" /\ current[r] = "none" /\ outcome[r] = "none" /\ over[r] = << >>
          /\ stepRow[r] = << >> /\ runRow[r] = "none" /\ pc[r] = "idle"
      BY <1>2, <1>5, <3>1
    <3>3. JobOK(r)
      BY <3>2 DEF JobOK, AtStep, Jobs
    <3>4. RowsOK(r)
      BY <3>2 DEF RowsOK
    <3>5. VerdictOK(r) /\ EarnedBy(r) /\ ReachedBy(r)
      BY <3>2 DEF VerdictOK, EarnedBy, ReachedBy
    <3> QED BY <3>3, <3>4, <3>5 DEF RunOK
  <2> QED BY <1>1, <1>6, <2>1, <2>2, <2>3 DEF Inv, Ledgers
<1>7. CASE scope # "jobs"
  <2>1. \A m \in Tables : tables[m] = << >> /\ DOMAIN tables[m] = {}
    BY <1>1
  <2>2. Family
    <3>1. Len(Guarded) \in Nat
      BY <1>1, ModelsOf
    <3>2. ASSUME NEW r \in Runs
          PROVE  ChildOK(child[r]) /\ ParentOK(r)
      <4>1. ChildOK(NoChild)
        <5>1. NoChild \in Children
          BY NoChildIs DEF NoChild, Children
        <5> QED BY <5>1 DEF ChildOK
      <4>2. ParentOK(r)
        BY <1>2, <3>1 DEF ParentOK
      <4> QED BY <1>2, <4>1, <4>2
    <3>3. pc \in [Runs -> Places] /\ at \in [Runs -> Nat] /\ full \in [Runs -> BOOLEAN]
      BY <1>4 DEF Places, Outside, Ended
    <3> QED BY <1>1, <1>3, <1>4, <3>2, <3>3 DEF Family
  <2>3. OneBuild
    BY <1>2 DEF OneBuild, Building
  <2>4. Clean
    <3>1. NoChild.for = "nothing" /\ NoChild.todo = << >>
      BY DEF NoChild
    <3>2. << >> # <<"dense">>
      OBVIOUS
    <3> QED BY <1>1, <1>2, <3>1, <3>2 DEF Clean
  <2>5. Stamped
    <3>1. now \in Time
      BY <1>1, TimeAssumption DEF Time
    <3>2. \A m \in Tables : Fits(tables[m])
      BY <2>1 DEF Fits
    <3>3. DOMAIN raw = {}
      BY <1>1
    <3> QED BY <1>1, <3>1, <3>2, <3>3 DEF Stamped
  <2>6. Settled
    <3>1. DOMAIN raw = {}
      BY <1>1
    <3>2. HourlySettled /\ CandlesSettled
      BY <2>1, <3>1 DEF HourlySettled, CandlesSettled, Tables
    <3>3. StatesSettled
      BY <2>1 DEF StatesSettled, IsWhole, Tables
    <3> QED BY <3>2, <3>3 DEF Settled
  <2>7. Memory
    <3>1. registry = {} /\ landed = {} /\ pending = NoPackage /\ refreshed = FALSE /\ ledger = << >>
          /\ OnRuns(fetch) /\ \A r \in Runs : last[r] = "dbt" /\ collected[r] = {} /\ fetch[r] = NoFetch
      BY DEF Init, KalshiInit, OnRuns
    <3>2. last \in [Runs -> {"registry", "candles", "dbt"}] /\ collected \in [Runs -> SUBSET registry]
      BY DEF Init, KalshiInit
    <3>3. NoFetch.from = << >> /\ NoFetch.end = 0 /\ NoFetch.stamp = 0 /\ DOMAIN NoFetch.from = {}
          /\ NoFetch = [from |-> NoFetch.from, hours |-> NoFetch.hours, end |-> NoFetch.end, stamp |-> NoFetch.stamp]
      BY DEF NoFetch
    <3>4. 0 \in Time /\ pending.markets = {}
      BY <3>1, TimeAssumption DEF Time, NoPackage
    <3>5. ASSUME NEW r \in Runs
          PROVE  /\ DOMAIN fetch[r].from \subseteq registry /\ fetch[r].end \in Time /\ fetch[r].end <= now
                 /\ \A m \in DOMAIN fetch[r].from : fetch[r].from[m] \in Int
                 /\ fetch[r] = [from |-> fetch[r].from, hours |-> fetch[r].hours, end |-> fetch[r].end, stamp |-> fetch[r].stamp]
                 /\ fetch[r].stamp \in Nat /\ fetch[r].stamp <= now
      BY <1>1, <3>1, <3>3, <3>4
    <3>6. \A r \in Runs : pc[r] \notin Outside \ (Ended \cup {"dbt"})
      BY <1>2 DEF Outside, Ended
    <3>7. /\ registry \subseteq Listed /\ landed \subseteq registry /\ pending.markets \subseteq registry
          /\ refreshed \in BOOLEAN /\ DOMAIN ledger = {}
      <4>1. registry \subseteq Listed /\ landed \subseteq registry
        BY <3>1
      <4>2. pending.markets \subseteq registry
        BY <3>4
      <4>3. refreshed \in BOOLEAN
        BY <3>1
      <4>4. DOMAIN ledger = {}
        BY <3>1
      <4> QED BY <4>1, <4>2, <4>3, <4>4
    <3>8. \A r \in Runs : pc[r] \notin Fetching => fetch[r] = NoFetch
      BY <3>1
    <3>9. \A m \in DOMAIN ledger : ledger[m].next \in Nat /\ ledger[m].end \in Time
      BY <3>7
    <3>10. DOMAIN ledger \subseteq registry
      BY <3>7
    <3> QED BY <3>1, <3>2, <3>5, <3>6, <3>7, <3>8, <3>9, <3>10 DEF Memory
  <2>8. OnePackage
    BY <1>2 DEF OnePackage, Collecting
  <2>9. FetchReaches /\ CheckedHoursAreStored
    <3>1. ledger = << >> /\ \A r \in Runs : DOMAIN fetch[r].from = {}
      BY DEF Init, KalshiInit, NoFetch
    <3> QED BY <1>2, <3>1 DEF FetchReaches, CheckedHoursAreStored
  <2>10. NoJobs
    BY <1>5 DEF NoJobs
  <2> QED BY <1>1, <1>7, <2>2, <2>3, <2>4, <2>5, <2>6, <2>7, <2>8, <2>9, <2>10 DEF Inv, BuildInv, KalshiInv
<1> QED BY <1>6, <1>7

LEMMA StutterInv == Inv /\ UNCHANGED vars => Inv'
<1> SUFFICES ASSUME Inv, UNCHANGED vars
             PROVE  Inv'
  OBVIOUS
<1>1. UNCHANGED <<scope, now, files, process, step, history, kalshi, soccer>>
  BY DEF vars
<1>2. UNCHANGED <<raw, tables, marks, lock, child, pc, at, full, overlapped, broken>>
  BY <1>1 DEF files, process, step, history
<1>3. UNCHANGED <<job, current, outcome, over, stepRow, runRow, disturbed>>
  BY <1>1 DEF soccer, rows
<1>4. CASE scope = "jobs"
  <2>1. Quiet /\ Ledgers
    BY <1>4 DEF Inv
  <2>2. HeldBy'
    BY <1>2, <2>1 DEF Quiet, HeldBy, OnRuns
  <2>3. Quiet'
    BY <1>1, <1>2, <2>1, <2>2, QuietStays DEF kalshi
  <2>4. Types'
    BY <1>2, <1>3, <2>1 DEF Ledgers, Types, OnRuns
  <2>5. ASSUME NEW q \in MonitoredRuns
        PROVE  RunOK(q)'
    <3>1. q \in Runs /\ RunOK(q) /\ SameFor(q)
      BY <1>2, <1>3, <2>1, MonitoredAssumption DEF Ledgers, SameFor
    <3> QED BY <3>1, SameKeeps
  <2> QED BY <1>1, <1>4, <2>3, <2>4, <2>5 DEF Inv, Ledgers
<1>5. CASE scope # "jobs"
  <2>1. scope \in Scopes /\ Family /\ OneBuild /\ Clean /\ Stamped /\ Settled /\ KalshiInv /\ NoJobs
    BY <1>5 DEF Inv, BuildInv
  <2>2. Family' /\ OneBuild' /\ Clean'
    BY <1>1, <1>2, <2>1, NobodyMoves
  <2>3. Stamped' /\ Settled'
    BY <1>1, <1>2, <2>1, DataStays
  <2>4. KalshiInv'
    BY <1>1, <1>2, <2>1, KalshiStays DEF KalshiKept
  <2>5. NoJobs'
    BY <1>3, <2>1 DEF NoJobs
  <2> QED BY <1>1, <1>5, <2>1, <2>2, <2>3, <2>4, <2>5 DEF Inv, BuildInv
<1> QED BY <1>4, <1>5

(* Each scope has its own part of the invariant and its own steps.         *)
LEMMA NextInv == Inv /\ [Next]_vars => Inv'
<1> SUFFICES ASSUME Inv, [Next]_vars
             PROVE  Inv'
  OBVIOUS
<1>1. CASE KalshiNext /\ UNCHANGED soccer
  <2>1. scope # "jobs"
    BY <1>1 DEF KalshiNext
  <2>2. scope \in Scopes /\ BuildInv /\ KalshiInv /\ NoJobs
    BY <2>1 DEF Inv
  <2>3. BuildInv' /\ KalshiInv' /\ UNCHANGED scope
    BY <1>1, <2>2, KalshiNextKeeps
  <2>4. NoJobs'
    BY <1>1, <2>2 DEF NoJobs, soccer, rows
  <2> QED BY <2>1, <2>2, <2>3, <2>4 DEF Inv
<1>2. CASE SoccerNext /\ UNCHANGED kalshi
  <2>1. scope = "jobs"
    BY <1>2 DEF SoccerNext
  <2>2. scope \in Scopes /\ Quiet /\ Ledgers
    BY <2>1 DEF Inv
  <2>3. Quiet' /\ Ledgers' /\ UNCHANGED scope
    BY <1>2, <2>2, SoccerNextKeeps
  <2> QED BY <2>1, <2>2, <2>3 DEF Inv
<1>3. CASE UNCHANGED vars
  BY <1>3, StutterInv
<1> QED BY <1>1, <1>2, <1>3 DEF Next

(* What the invariant says of the ledger.                                  *)
LEMMA InvJobs ==
  ASSUME Inv
  PROVE  (scope = "jobs" => SoccerTypeOK) /\ LedgerIsHonest
<1>1. CASE scope = "jobs"
  <2>1. \A r \in MonitoredRuns : RunOK(r)
    BY <1>1 DEF Inv, Ledgers
  <2>2. SoccerTypeOK
    <3> SUFFICES ASSUME NEW r \in MonitoredRuns
                 PROVE  /\ job[r] \in Jobs \cup {"none"} /\ current[r] \in Monitored \cup {"none"}
                        /\ outcome[r] \in Verdicts \cup {"none"} /\ runRow[r] \in Verdicts \cup {"none", "running"}
                        /\ job[r] # "none" =>
                             /\ DOMAIN over[r] \subseteq StepsOf(job[r])
                             /\ \A s \in DOMAIN stepRow[r] : /\ stepRow[r][s] \in Verdicts \cup {"running"}
                                                             /\ s \in Checks => stepRow[r][s] = "failed"
      BY DEF SoccerTypeOK
    <3>1. JobOK(r) /\ RowsOK(r)
      BY <2>1 DEF RunOK
    <3> QED BY <3>1 DEF JobOK, RowsOK
  <2>3. SuccessIsEarned
    <3>1. \A r \in MonitoredRuns : EarnedBy(r)
      BY <2>1 DEF RunOK
    <3> QED BY <3>1 DEF SuccessIsEarned, EarnedBy
  <2>4. VerdictIsReached
    <3> SUFFICES ASSUME NEW r \in MonitoredRuns, pc[r] = "done", ~disturbed[r], job[r] \in {"registry", "full"}
                 PROVE  /\ runRow[r] \in Verdicts
                        /\ (\E s \in Behind(job[r]) : s \in DOMAIN over[r] /\ over[r][s] = "bad")
                             => runRow[r] \in {"failed", "interrupted"}
      BY DEF VerdictIsReached
    <3>1. VerdictOK(r) /\ ReachedBy(r)
      BY <2>1 DEF RunOK
    <3> QED BY <3>1 DEF VerdictOK, ReachedBy
  <2> QED BY <2>2, <2>3, <2>4 DEF LedgerIsHonest
<1>2. CASE scope # "jobs"
  <2>1. \A r \in MonitoredRuns : job[r] = "none" /\ runRow[r] = "none"
    BY <1>2, MonitoredAssumption DEF Inv, NoJobs
  <2> QED BY <1>2, <2>1 DEF LedgerIsHonest, SuccessIsEarned, VerdictIsReached
<1> QED BY <1>1, <1>2

------------------------------------------------------------------------------
(* The theorems *)

(* The inductive invariant holds throughout.                               *)
LEMMA AlwaysInv == Spec => []Inv
<1>1. Init => Inv
  BY InitInv
<1>2. Inv /\ [Next]_vars => Inv'
  BY NextInv
<1> QED BY <1>1, <1>2, PTL DEF Spec

(* Whatever becomes of a dbt build, killed child, killed parent or an orphan *)
(* that still holds the warehouse, the next incremental build of the models  *)
(* makes the tables what a full refresh would make them, and a table that a  *)
(* child leaves half written is marked (dbt_incremental_build and the filters*)
(* of the incremental models).                                             *)
THEOREM TablesAlwaysRecover == Spec => []TablesRecover
<1>1. Inv => TablesRecover
  BY InvTypes, InvRecovers, InvJobs DEF TablesRecover, TypeOK
<1> QED BY <1>1, AlwaysInv, PTL

(* What the Kalshi pipeline has collected is landed when its step comes to   *)
(* its end, and every hour the candle ledger vouches for is in the raw       *)
(* table, whichever requests failed and wherever a run has died.           *)
THEOREM KalshiKeepsItsWord == Spec => []KalshiIsStored
<1>1. Inv => KalshiIsStored
  BY InvStores
<1> QED BY <1>1, AlwaysInv, PTL

(* A success in pipeline_runs is that of a run all of whose steps on the way *)
(* to its terminal step went well, with no partial one; a catalog or full    *)
(* run that ends undisturbed has a verdict, a bad one if a step on that way  *)
(* failed.                                                                 *)
THEOREM LedgersAreHonest == Spec => []LedgerIsHonest
<1>1. Inv => LedgerIsHonest
  BY InvJobs
<1> QED BY <1>1, AlwaysInv, PTL
=============================================================================
