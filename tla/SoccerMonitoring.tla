--------------------------- MODULE SoccerMonitoring ---------------------------
(***************************************************************************)
(* The run ledger of the soccer jobs.  A job is a graph of Dagster steps,   *)
(* one process at a time.  Monitored steps write to pipeline_runs and       *)
(* pipeline_step_runs before and after their work; a blocking check writes  *)
(* there only when it fails, after which Dagster skips what is downstream   *)
(* of the checked asset and nothing else.  Ledger and work share the        *)
(* warehouse, whose lock a dbt child may hold, that of a dead step too.     *)
(***************************************************************************)
EXTENDS DbtBuild

CONSTANT MonitoredRuns   \* the runs that are soccer jobs; the others only build

ASSUME MonitoredAssumption == MonitoredRuns \subseteq Runs

VARIABLES
  job,        \* run -> its job, or "none"
  current,    \* run -> the monitored step at work, or "none"
  outcome,    \* run -> how the work of that step has ended
  over,       \* run -> step that is over for Dagster -> "ok" or "bad"
  stepRow,    \* run -> pipeline_step_runs: step -> status
  runRow,     \* run -> pipeline_runs: status, or "none"
  disturbed   \* history variable: a step has ended without its record

soccer == <<job, current, outcome, over, stepRow, runRow, disturbed>>
rows   == <<stepRow, runRow>>

Monitored == {"preflight", "catalog", "registry", "minute", "core", "monitoring"}
Builds    == {"core", "monitoring"}
Blocking  == {"contracts", "converged", "roles", "reconciled", "mart"}
Checks    == Blocking \cup {"health"}
Verdicts  == {"success", "partial", "failed", "interrupted"}
Jobs      == {"registry", "minute", "dbt", "full"}

(* The selections of the four jobs.                                        *)
Preflight == {"preflight", "contracts"}
StepsOf(j) ==
  LET catalogs == {"catalog", "converged", "registry", "roles"}
      minutes  == {"minute", "reconciled", "health"}
      builds   == {"core", "mart", "monitoring"}
  IN  Preflight \cup
        CASE j = "registry" -> catalogs
          [] j = "minute"   -> minutes
          [] j = "dbt"      -> builds
          [] j = "full"     -> catalogs \cup minutes \cup builds

(* The steps a step waits for if its job has them: those of the assets it   *)
(* depends on, and the blocking checks of these assets.  The monitoring      *)
(* models read pipeline_runs, which is not the asset the preflight check is  *)
(* about, and the fetch status, which is not the mart.                       *)
Needs(s) ==
  CASE s = "preflight"  -> {}
    [] s = "catalog"    -> Preflight
    [] s = "registry"   -> {"catalog", "converged"}
    [] s = "minute"     -> {"registry", "roles"}
    [] s = "core"       -> {"preflight", "catalog", "converged", "registry", "roles",
                            "minute", "reconciled"}
    [] s = "monitoring" -> {"preflight", "core"}
    [] s = "contracts"  -> {"preflight"}
    [] s = "converged"  -> {"catalog"}
    [] s = "roles"      -> {"registry"}
    [] s \in {"reconciled", "health"} -> {"minute"}
    [] s = "mart"       -> {"core"}

(* _TERMINAL_STEPS.                                                        *)
Terminal(j) ==
  CASE j = "registry" -> "registry" [] j = "minute" -> "minute"
    [] j \in {"dbt", "full"} -> "monitoring"

Ready(r, s) ==
  /\ pc[r] = "between" /\ s \in StepsOf(job[r]) \ DOMAIN over[r]
  /\ \A n \in Needs(s) \cap StepsOf(job[r]) : n \in DOMAIN over[r] /\ over[r][n] = "ok"

-----------------------------------------------------------------------------
SoccerInit ==
  /\ job = [r \in Runs |-> "none"] /\ current = [r \in Runs |-> "none"]
  /\ outcome = [r \in Runs |-> "none"] /\ over = [r \in Runs |-> << >>]
  /\ stepRow = [r \in Runs |-> << >>] /\ runRow = [r \in Runs |-> "none"]
  /\ disturbed = [r \in Runs |-> FALSE]

Moves(r, place) == pc' = [pc EXCEPT ![r] = place]

Writes(r, s, status) == stepRow' = [stepRow EXCEPT ![r] = Put(@, s, status)]

(* Dagster takes note of a step that is over.                              *)
Over(r, s, result, place) ==
  /\ over' = [over EXCEPT ![r] = Put(@, s, result)]
  /\ current' = [current EXCEPT ![r] = "none"] /\ outcome' = [outcome EXCEPT ![r] = "none"]
  /\ Moves(r, place)

StartJob(r) ==
  /\ pc[r] = "idle" /\ r \in MonitoredRuns
  /\ \E j \in Jobs : job' = [job EXCEPT ![r] = j]
  /\ Moves(r, "between")
  /\ UNCHANGED <<child, lock, current, outcome, over, rows, disturbed>>

BeginStep(r) ==
  /\ \E s \in Monitored : Ready(r, s) /\ current' = [current EXCEPT ![r] = s]
  /\ Moves(r, "open")
  /\ UNCHANGED <<child, lock, job, outcome, over, rows, disturbed>>

(* start(): an insert or update of the run, whatever its status was, and    *)
(* then of the step, each on its own.                                       *)
OpenRun(r) ==
  /\ pc[r] = "open" /\ lock = NoRun
  /\ runRow' = [runRow EXCEPT ![r] = "running"] /\ Moves(r, "opened")
  /\ UNCHANGED <<child, lock, job, current, outcome, over, stepRow, disturbed>>

OpenStep(r) ==
  /\ pc[r] = "opened"
  /\ Writes(r, current[r], "running") /\ Moves(r, "work")
  /\ UNCHANGED <<child, lock, job, current, outcome, over, runRow, disturbed>>

(* The work of a step, which other modules have the details of.  A dbt step *)
(* may fail before its child starts.                                        *)
Outcomes(s) ==
  {"failed", "interrupted"} \cup (IF s \in Builds THEN {} ELSE {"success"})
    \cup (IF s = "minute" THEN {"partial"} ELSE {})

Work(r) ==
  /\ pc[r] = "work"
  /\ \E o \in Outcomes(current[r]) : outcome' = [outcome EXCEPT ![r] = o]
  /\ Moves(r, "finish")
  /\ UNCHANGED <<child, lock, job, current, over, rows, disturbed>>

StepChild == [todo |-> <<"models">>, full |-> FALSE, for |-> "step"]

(* A dbt child takes the warehouse: that of a step, or that of another run.  *)
LaunchStep(r) ==
  /\ lock = NoRun
  /\ \/ pc[r] = "work" /\ current[r] \in Builds /\ Moves(r, "build")
     \/ r \notin MonitoredRuns /\ UNCHANGED pc
  /\ lock' = r /\ child' = [child EXCEPT ![r] = StepChild]
  /\ UNCHANGED soccer

(* The child ends; its parent may be gone.                                  *)
StepChildEnds(r) ==
  /\ child[r] # NoChild
  /\ lock' = NoRun /\ child' = [child EXCEPT ![r] = NoChild]
  /\ IF pc[r] = "build"
     THEN /\ \E o \in {"success", "failed", "interrupted"} : outcome' = [outcome EXCEPT ![r] = o]
          /\ Moves(r, "finish")
     ELSE UNCHANGED <<pc, outcome>>
  /\ UNCHANGED <<job, current, over, rows, disturbed>>

-----------------------------------------------------------------------------
(* finish(): the step, then the run, each on its own.                       *)
FinishStep(r) ==
  /\ pc[r] = "finish" /\ lock = NoRun
  /\ Writes(r, current[r], outcome[r]) /\ Moves(r, "close")
  /\ UNCHANGED <<child, lock, job, current, outcome, over, runRow, disturbed>>

IsTerminal(r) == current[r] = Terminal(job[r])

(* Mutant of RunStatus: a partial step before the last one is not looked for. *)
StatusOfLast(r) == outcome[r]

RunStatus(r) ==
  IF IsTerminal(r) /\ outcome[r] = "success" /\ "partial" \in Range(stepRow[r])
  THEN "partial" ELSE outcome[r]

Decides(r) == outcome[r] \in {"failed", "interrupted"} \/ IsTerminal(r)

(* What a dbt step does after its record may still fail it.                 *)
FinishRun(r) ==
  /\ pc[r] = "close"
  /\ runRow' = IF Decides(r) THEN [runRow EXCEPT ![r] = RunStatus(r)] ELSE runRow
  /\ \E result \in {"ok", "bad"} :
       /\ outcome[r] \in {"success", "partial"}
            => (result = "bad" => current[r] = "core")
       /\ outcome[r] \in {"failed", "interrupted"} => result = "bad"
       /\ Over(r, current[r], result, IF outcome[r] = "interrupted" THEN "done" ELSE "between")
       /\ disturbed' = [disturbed EXCEPT ![r] = @ \/ (result = "bad" /\ outcome[r] = "success")]
  /\ UNCHANGED <<child, lock, job, stepRow>>

-----------------------------------------------------------------------------
(* production_health reports whatever it finds and any exception as a       *)
(* warning; the others read the warehouse.                                  *)
CheckPasses(r) ==
  /\ \E s \in Checks : /\ Ready(r, s) /\ (s \in Blocking => lock = NoRun)
                       /\ Over(r, s, "ok", "between")
  /\ UNCHANGED <<child, lock, job, rows, disturbed>>

(* record_soccer_check_failure: the step, then the run; the process may die  *)
(* in between.                                                              *)
CheckFails(r) ==
  /\ lock = NoRun
  /\ \E s \in Blocking : Ready(r, s) /\ Writes(r, s, "failed") /\ Over(r, s, "bad", "between")
  /\ \/ runRow' = [runRow EXCEPT ![r] = "failed"] /\ UNCHANGED disturbed
     \/ disturbed' = [disturbed EXCEPT ![r] = TRUE] /\ UNCHANGED runRow
  /\ UNCHANGED <<child, lock, job>>

(* A check that raises, as it does when it is locked out, records nothing.  *)
CheckRaises(r) ==
  /\ \E s \in Blocking : Ready(r, s) /\ Over(r, s, "bad", "between")
  /\ disturbed' = [disturbed EXCEPT ![r] = TRUE]
  /\ UNCHANGED <<child, lock, job, rows>>

(* A step is locked out where it writes its record, its own preflight fails *)
(* before there is one, or its process dies anywhere; a child goes on.      *)
StepDies(r) ==
  /\ current[r] # "none"
  /\ Over(r, current[r], "bad", "between")
  /\ disturbed' = [disturbed EXCEPT ![r] = TRUE]
  /\ UNCHANGED <<child, lock, job, rows>>

(* The whole run dies.                                                     *)
JobDies(r) ==
  /\ r \in MonitoredRuns /\ Live(r)
  /\ current' = [current EXCEPT ![r] = "none"] /\ outcome' = [outcome EXCEPT ![r] = "none"]
  /\ disturbed' = [disturbed EXCEPT ![r] = TRUE] /\ Moves(r, "done")
  /\ UNCHANGED <<child, lock, job, over, rows>>

JobEnds(r) ==
  /\ pc[r] = "between" /\ \A s \in StepsOf(job[r]) : ~Ready(r, s)
  /\ Moves(r, "done")
  /\ UNCHANGED <<child, lock, soccer>>

SoccerNext ==
  /\ scope = "jobs"
  /\ \E r \in Runs :
       \/ StartJob(r) \/ BeginStep(r) \/ OpenRun(r) \/ OpenStep(r)
       \/ Work(r) \/ LaunchStep(r) \/ StepChildEnds(r)
       \/ FinishStep(r) \/ FinishRun(r)
       \/ CheckPasses(r) \/ CheckFails(r) \/ CheckRaises(r)
       \/ StepDies(r) \/ JobDies(r) \/ JobEnds(r)
  /\ UNCHANGED <<scope, now, files, at, full, history>>

-----------------------------------------------------------------------------
SoccerTypeOK ==
  \A r \in MonitoredRuns :
    /\ job[r] \in Jobs \cup {"none"} /\ current[r] \in Monitored \cup {"none"}
    /\ outcome[r] \in Verdicts \cup {"none"} /\ runRow[r] \in Verdicts \cup {"none", "running"}
    /\ job[r] # "none" =>
         /\ DOMAIN over[r] \subseteq StepsOf(job[r])
         /\ \A s \in DOMAIN stepRow[r] :
              /\ stepRow[r][s] \in Verdicts \cup {"running"}
              /\ s \in Checks => stepRow[r][s] = "failed"

(* What has to go well before the terminal step of a job starts.            *)
Behind(j) ==
  CASE j = "registry" -> Preflight \cup {"catalog", "converged"}
    [] j = "minute"   -> {}
    [] j = "dbt"      -> {"preflight", "core"}
    [] j = "full"     -> StepsOf("registry") \cup {"minute", "reconciled", "core"}

(* A run whose ledger row says success has published all there was: every   *)
(* step the terminal one builds on has ended well and has a row that says so,*)
(* no step was partial, and no check on that way has failed, whichever       *)
(* processes died and whoever held the warehouse.                            *)
SuccessIsEarned ==
  \A r \in MonitoredRuns : runRow[r] = "success" =>
    /\ "partial" \notin Range(stepRow[r])
    /\ stepRow[r][Terminal(job[r])] = "success"
    /\ \A s \in Behind(job[r]) : /\ s \in DOMAIN over[r] /\ over[r][s] = "ok"
                                 /\ s \in Monitored => stepRow[r][s] = "success"

(* A catalog or full run that is over has a verdict in the ledger, and a bad *)
(* one if a step on the way to its terminal step has failed: a row that      *)
(* stays at running is that of a run one of whose steps died, was locked out *)
(* or raised outside its record.                                             *)
VerdictIsReached ==
  \A r \in MonitoredRuns :
    pc[r] = "done" /\ ~disturbed[r] /\ job[r] \in {"registry", "full"} =>
      /\ runRow[r] \in Verdicts
      /\ (\E s \in Behind(job[r]) : s \in DOMAIN over[r] /\ over[r][s] = "bad")
           => runRow[r] \in {"failed", "interrupted"}

(* The run ledger tells how the run went: no success that was not earned,   *)
(* no end without a verdict.                                                *)
LedgerIsHonest == SuccessIsEarned /\ VerdictIsReached
=============================================================================
