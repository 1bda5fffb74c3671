------------------------------ MODULE Pipelines ------------------------------
(***************************************************************************)
(* Runs of one scope beside each other on one warehouse: builds of the      *)
(* incremental models, the Kalshi pipeline around its build, or the soccer  *)
(* jobs with their ledger.                                                 *)
(***************************************************************************)
EXTENDS KalshiPipeline, SoccerMonitoring

vars == <<scope, now, files, process, step, history, kalshi, soccer>>

Init == BuildInit /\ KalshiInit /\ SoccerInit

Next ==
  \/ KalshiNext /\ UNCHANGED soccer
  \/ SoccerNext /\ UNCHANGED kalshi

Spec == Init /\ [][Next]_vars

TypeOK ==
  /\ BuildTypeOK
  /\ scope # "jobs" => KalshiTypeOK
  /\ scope = "jobs" => SoccerTypeOK

(* Every table has its type, and the next build makes the tables whole.     *)
TablesRecover == TypeOK /\ BuildsRecover
=============================================================================
