----------------------------- MODULE MCOddsSync -----------------------------
(* Instances of OddsSync for TLC.                                          *)
EXTENDS OddsSync, TLC

CONSTANTS t1, t2, s1, s2

MCSource3 == (t1 :> {1, 3}) @@ (t2 :> {2})
MCSlots   == Permutations({s1, s2})
=============================================================================
