----------------------------- MODULE MCMarketScope -----------------------------
(* Instances of MarketScope for TLC.                                       *)
EXTENDS MarketScope, TLC

MCListing == <<"e1", "e2">>
MCSources == <<"tag">>
MCMatches == [s \in {"tag"} |-> {"e1", "e2"}]
MCRelated == [m \in Markets |-> IF m = "m1" THEN {"e2", "o1"} ELSE IF m = "m3" THEN {"o2"} ELSE {}]
MCHomes   == [m \in Markets |-> IF m = "m3" THEN {"e1", "o1"} ELSE {"e1"}]
Event(big, markets) == [closed |-> FALSE, big |-> big, markets |-> markets]
MCFirst   == [e \in Events |-> CASE e = "e1" -> Event(TRUE, {"m1", "m2"})
                                 [] e = "e2" -> Event(TRUE, {})
                                 [] OTHER -> Event(FALSE, {})]
=============================================================================
