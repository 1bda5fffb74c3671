------------------------- MODULE MCMinuteOddsPublish -------------------------
(* Instances of MinuteOddsPublish for TLC.                                 *)
EXTENDS MinuteOddsPublish, TLC

CONSTANTS t1, t2

MCTokens == Permutations({t1, t2})

(* Soccer runs may overlap; those of the WC2026 legs may not.              *)
MCMaxActive == [match |-> 1, futures |-> 1, soccer |-> 2]

MCFaults ==
  [match |-> {"fetch", "crash"}, futures |-> {"fetch", "crash"}, soccer |-> {"fetch", "register"}]
=============================================================================
