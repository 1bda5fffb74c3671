------------------------ MODULE MinuteOddsPublication ------------------------
(***************************************************************************)
(* What publishing minute odds promises: the rows a reader is served and   *)
(* the fetch audit that describes them change together, in one step, and   *)
(* only by a run that replaces the tokens it fetched itself.  Only the     *)
(* death of a publisher may leave rows without an audit behind.            *)
(***************************************************************************)
EXTENDS Functions

CONSTANTS Tokens, Runs, Windows

VARIABLES
  served,     \* token -> the fetch whose rows a reader gets
  audited,    \* token -> the fetch its published audit row describes
  published,  \* runs that have published
  dead        \* runs whose process has died

vars == <<served, audited, published, dead>>

PartialFunctions(S, T) == UNION {[D -> T] : D \in SUBSET S}
FetchesOf(r) == PartialFunctions(Tokens, [run: {r}, window: Windows])

(* f, and g where f says nothing. *)
Over(f, g) == [x \in DOMAIN f \cup DOMAIN g |-> IF x \in DOMAIN f THEN f[x] ELSE g[x]]

Init == served = << >> /\ audited = << >> /\ published = {} /\ dead = {}

(* Run r replaces the tokens of fresh and keeps every other token.  It may *)
(* leave tokens it did not plan without a published audit row, but invents *)
(* none.                                                                   *)
Replace(fresh, kept) ==
  /\ served'  = Over(fresh, served)
  /\ audited' = Over(fresh, Restrict(audited, kept))

Publish(r) ==
  /\ r \notin published \cup dead
  /\ published' = published \cup {r}
  /\ \E fresh \in FetchesOf(r), kept \in SUBSET DOMAIN audited : Replace(fresh, kept)
  /\ UNCHANGED dead

(* The process of run r dies, perhaps after the rows have changed.          *)
Die(r) ==
  /\ r \notin published \cup dead
  /\ dead' = dead \cup {r}
  /\ \E fresh \in FetchesOf(r) : served' = Over(fresh, served)
  /\ UNCHANGED <<audited, published>>

(* An operator has audit rows published that describe the rows served: the  *)
(* same tokens and the same windows.                                        *)
Repair ==
  /\ audited' \in [DOMAIN served -> [run: Runs, window: Windows]]
  /\ \A t \in DOMAIN served : audited'[t].window = served[t].window
  /\ UNCHANGED <<served, published, dead>>

Next == Repair \/ \E r \in Runs : Publish(r) \/ Die(r)

Spec == Init /\ [][Next]_vars
=============================================================================
