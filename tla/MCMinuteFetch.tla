----------------------------- MODULE MCMinuteFetch -----------------------------
(* Instances of MinuteFetch for TLC.                                       *)
EXTENDS MinuteFetch, TLC

(* Three tokens share a window that is not made of whole minutes and takes *)
(* two chunks; two have windows of their own.                              *)
MCWindow == 1 :> [from |-> 1, to |-> 4] @@ 2 :> [from |-> 1, to |-> 4]
         @@ 3 :> [from |-> 1, to |-> 4] @@ 4 :> [from |-> 2, to |-> 3]
         @@ 5 :> [from |-> 3, to |-> 4]

(* Prices before, at the ends of and between the chunks.                   *)
MCHistory == 1 :> {0, 1, 2, 3, 4} @@ 2 :> {1, 3} @@ 3 :> {0, 2, 3} @@ 4 :> {0} @@ 5 :> {3}
=============================================================================
