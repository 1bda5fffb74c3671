--------------------------- MODULE MCStageExecution ---------------------------
(* Instances of StageExecution for TLC.                                    *)
EXTENDS StageExecution, TLC

(* Two decisions of one token whose windows touch, and one of another.     *)
MCLegs == {[token |-> 1, at |-> 3], [token |-> 1, at |-> 5], [token |-> 2, at |-> 6]}

Item(kind, t, id, at) == [kind |-> kind, token |-> t, id |-> id, at |-> at]

(* Changes before the first window, in both hours and at their boundary.   *)
MCEvidence ==
  {Item("book", 1, 1, 1), Item("book", 1, 2, 3), Item("book", 1, 3, 4), Item("book", 1, 4, 5), Item("book", 1, 5, 6),
   Item("trade", 1, 6, 5)}
=============================================================================
