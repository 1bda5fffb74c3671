------------------------- MODULE MCPolygonSettlement -------------------------
(* Instances of PolygonSettlement for TLC.                                 *)
EXTENDS PolygonSettlement, TLC

CONSTANTS a1, a2

Symmetry == Permutations({a1, a2})

MCExchanges == {"ctf", "neg"}

(* Time is the block number, and every window is block 1. *)
m1 == [yes |-> "y1", no |-> "n1", exchange |-> "ctf", start |-> 1, end |-> 2]
m2 == [yes |-> "y2", no |-> "n2", exchange |-> "neg", start |-> 1, end |-> 2]
m3 == [yes |-> "y3", no |-> "n3", exchange |-> "ctf", start |-> 1, end |-> 2]

MCMarkets   == {m1, m2, m3}
MCManifests == {{m1, m2}, {m2, m3}}
MCBlockTime == [b \in 0..3 |-> b]

Filled(side, token, maker, taker)  == [kind |-> "filled", side |-> side, token |-> token, maker |-> maker, taker |-> taker]
Matched(side, token, maker, taker) == [kind |-> "matched", side |-> side, token |-> token, maker |-> maker, taker |-> taker]

(* Complementary and minting trades of m1, one of them after its window,   *)
(* a merge of m2, and a trade nobody follows.                              *)
MCTxs ==
  {[block |-> 0, index |-> 0, exchange |-> "ctf",
    events |-> <<Filled("SELL", "z", 2, 1), Filled("BUY", "z", 1, 2), Matched("BUY", "z", 1, 2)>>],
   [block |-> 1, index |-> 0, exchange |-> "ctf",
    events |-> <<Filled("SELL", "y1", 4, 2), Filled("BUY", "y1", 2, 4), Matched("BUY", "y1", 2, 4)>>],
   [block |-> 1, index |-> 1, exchange |-> "ctf",
    events |-> <<Filled("BUY", "n1", 1, 3), Filled("SELL", "y1", 2, 1), Filled("BUY", "y1", 4, 5), Matched("BUY", "y1", 4, 5)>>],
   [block |-> 1, index |-> 2, exchange |-> "neg",
    events |-> <<Filled("SELL", "n2", 3, 1), Filled("SELL", "y2", 3, 2), Matched("SELL", "y2", 3, 2)>>],
   [block |-> 2, index |-> 0, exchange |-> "ctf",
    events |-> <<Filled("SELL", "y1", 4, 2), Filled("BUY", "y1", 2, 4), Matched("BUY", "y1", 2, 4)>>]}

(* The bisection finds the first block, the plan's ranges are the blocks   *)
(* of the windows with one on either side, and gaps are what is not done.  *)
ASSUME \A t \in 0..3 : FirstBlock(t) = CHOOSE b \in Blocks : MCBlockTime[b] >= t /\ \A c \in 0..b - 1 : MCBlockTime[c] < t

ASSUME \A s \in SUBSET MCMarkets : \A e \in MCExchanges :
  LET ranges == {t \in TargetRanges(s) : t.exchange = e}
  IN UNION {t.from..t.to : t \in ranges}
     = UNION {Window(m)[1] - 1..Window(m)[2] : m \in {x \in s : x.exchange = e}}

ASSUME \A done \in SUBSET {r \in (0..3) \X (0..3) : r[1] <= r[2]} :
  Cardinality(done) <= 2 =>
    LET gaps == Gaps(<<1, 3>>, done)
    IN ~BadChunks(<<1, 3>>, done) => /\ BlocksOf(ToSet(gaps)) = (1..3) \ BlocksOf(done)
                                     /\ \A i \in 1..Len(gaps) - 1 : gaps[i][2] + 1 < gaps[i + 1][1]
=============================================================================
