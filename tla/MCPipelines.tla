----------------------------- MODULE MCPipelines -----------------------------
(* Two token-hours or markets, two revisions, two Kalshi markets of which   *)
(* the second opens later.                                                 *)
EXTENDS Pipelines, TLC

CONSTANTS m1, m2

MCRuns      == 1..2
MCRevisions == 1..2
MCOpens     == (m1 :> 0) @@ (m2 :> 1)
=============================================================================
