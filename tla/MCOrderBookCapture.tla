-------------------------- MODULE MCOrderBookCapture --------------------------
(* Instances of OrderBookCapture for TLC.                                  *)
EXTENDS OrderBookCapture, TLC

Item(t, id, at) == [token |-> t, id |-> id, at |-> at]

(* Five snapshots of one token are more than an answer; one of them is at  *)
(* the boundary of the halves.                                             *)
MCListed ==
  [book  |-> {Item(1, 1, 1), Item(1, 2, 1), Item(1, 3, 2), Item(1, 4, 3), Item(1, 5, 3), Item(2, 1, 2)},
   trade |-> {Item(1, 1, 2), Item(1, 2, 3)}]

(* A snapshot is corrected or added, a trade is corrected. *)
MCChanges ==
  {[kind |-> "book",  gone |-> {Item(1, 4, 3)}, new |-> {Item(1, 4, 2)}],
   [kind |-> "book",  gone |-> {},              new |-> {Item(2, 9, 2)}],
   [kind |-> "trade", gone |-> {Item(1, 1, 2)}, new |-> {Item(1, 1, 1)}]}
=============================================================================
