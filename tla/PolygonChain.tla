----------------------------- MODULE PolygonChain -----------------------------
(***************************************************************************)
(* What a settlement scan computes from the Polygon chain: the block       *)
(* ranges a manifest of markets asks for, the leaves a range is split into *)
(* when the provider refuses it, and the normalized fills of a leaf.       *)
(*                                                                         *)
(* A transaction is a record [block, index, exchange, events]; an event is *)
(* an OrderFilled ("filled") or an OrdersMatched ("matched") with its      *)
(* side, token and amounts, and its log index is its position.  Hashes and *)
(* addresses are identities; a decoded log is the event itself.            *)
(***************************************************************************)
EXTENDS Integers, Sequences, FiniteSets, SequencesExt

CONSTANTS
  Exchanges,      \* the two V2 exchanges
  Markets,        \* records [yes, no, exchange, start, end]
  Manifests,      \* sets of markets: the seeds a scan may be asked for
  FinalizedHead,  \* number of the finalized head
  BlockTime,      \* timestamp of each block
  Txs,            \* the transactions of the chain
  ProviderLimit,  \* logs a provider returns for one range
  MinChunk        \* _MIN_LOG_CHUNK_SIZE

Blocks == 0..FinalizedHead

Before(x, y) == x[1] < y[1] \/ (x[1] = y[1] /\ x[2] <= y[2])

(* No block is older than its predecessor, and a window ends before the head. *)
ChainAssumption ==
  /\ FinalizedHead \in Nat /\ MinChunk \in Nat \ {0} /\ ProviderLimit \in Nat
  /\ BlockTime \in [Blocks -> Int]
  /\ \A b, c \in Blocks : b <= c => BlockTime[b] <= BlockTime[c]
  /\ \A m \in Markets : m.exchange \in Exchanges /\ m.start < m.end /\ m.end <= BlockTime[FinalizedHead]
ASSUME ChainAssumption

----------------------------------------------------------------------------
(* Planning *)

(* The first block whose timestamp reaches t, by bisection. *)
FirstBlock(t) ==
  LET search[lower \in Blocks, upper \in Blocks] ==
        LET middle == (lower + upper) \div 2
        IN CASE lower >= upper            -> lower
             [] BlockTime[middle] < t     -> search[middle + 1, upper]
             [] OTHER                     -> search[lower, middle]
  IN search[0, FinalizedHead]

(* The token's target: its blocks from first to before the boundary. *)
WindowOf  == [m \in Markets |-> <<FirstBlock(m.start), FirstBlock(m.end)>>]
Window(m) == WindowOf[m]

MarketsOf(manifest, token) == {m \in manifest : token \in {m.yes, m.no}}

(* A window's range begins a block early and includes the boundary block;  *)
(* it joins the last range when they touch.                                *)
Joined(ranges, window) ==
  LET from == IF window[1] = 0 THEN 0 ELSE window[1] - 1
      to   == window[2]
  IN IF ranges # <<>> /\ from <= Last(ranges)[2] + 1
     THEN Append(Front(ranges), <<Last(ranges)[1], IF to > Last(ranges)[2] THEN to ELSE Last(ranges)[2]>>)
     ELSE Append(ranges, <<from, to>>)

RangesOf(manifest, e) ==
  LET windows == SetToSortSeq({Window(m) : m \in {n \in manifest : n.exchange = e}}, Before)
  IN FoldLeft(Joined, <<>>, windows)

(* The plan's target ranges, each with its exchange. *)
TargetRanges(manifest) ==
  UNION {{[exchange |-> e, from |-> r[1], to |-> r[2]] : r \in ToSet(RangesOf(manifest, e))} : e \in Exchanges}

TargetsOf == [s \in Manifests |-> TargetRanges(s)]
Targets(manifest) == TargetsOf[manifest]

(* Every window has a block, as the plan requires. *)
Plannable(manifest) == manifest # {} /\ \A m \in manifest : Window(m)[1] < Window(m)[2]

----------------------------------------------------------------------------
(* Leaves *)

Within(from, to) == {tx \in Txs : tx.block \in from..to}

Positions(tx, kind) == {i \in DOMAIN tx.events : tx.events[i].kind = kind}

(* eth_getLogs of OrdersMatched: what the provider counts against its limit. *)
Discoveries(e, from, to) ==
  UNION {{<<tx, i>> : i \in Positions(tx, "matched")} : tx \in {t \in Within(from, to) : t.exchange = e}}

(* A range the provider refuses is halved, left part first, down to the    *)
(* smallest one it is asked for: the leaves before the first failure, and  *)
(* whether there is one.                                                   *)
Concat(left, right) == IF left.failed THEN left ELSE [right EXCEPT !.leaves = left.leaves \o @]

SplitOf ==
  [e \in Exchanges |->
     LET split[from \in Blocks, to \in Blocks] ==
           LET middle == (from + to) \div 2
           IN CASE Cardinality(Discoveries(e, from, to)) <= ProviderLimit ->
                     [leaves |-> <<<<from, to>>>>, failed |-> FALSE]
                [] OTHER -> IF to - from + 1 <= MinChunk
                            THEN [leaves |-> <<>>, failed |-> TRUE]
                            ELSE Concat(split[from, middle], split[middle + 1, to])
     IN [range \in {r \in Blocks \X Blocks : r[1] <= r[2]} |-> split[range[1], range[2]]]]

SplitRange(e, range) == SplitOf[e][range]

----------------------------------------------------------------------------
(* Normalization *)

(* A discovery counts when its token is followed on this exchange and its  *)
(* block is in the token's window.                                         *)
Eligible(manifest, e, d) ==
  \E m \in MarketsOf(manifest, d[1].events[d[2]].token) :
    m.exchange = e /\ Window(m)[1] <= d[1].block /\ d[1].block < Window(m)[2]

(* The settlement segments of a transaction: passive fills, the active one, *)
(* and the match that closes them.                                         *)
Segments(tx) ==
  LET step(acc, i) ==
        IF tx.events[i].kind = "filled"
        THEN [acc EXCEPT !.pending = Append(@, i)]
        ELSE [pending |-> <<>>,
              done |-> Append(acc.done, [passive |-> Front(acc.pending), active |-> Last(acc.pending), matched |-> i])]
  IN FoldLeft(step, [pending |-> <<>>, done |-> <<>>], [i \in DOMAIN tx.events |-> i]).done

(* Each match is preceded by a passive and an active fill, none is left.   *)
WellFormed(tx) ==
  /\ tx.events # <<>> => Last(tx.events).kind = "matched"
  /\ \A i \in Positions(tx, "matched") :
       i > 2 /\ tx.events[i - 1].kind = "filled" /\ tx.events[i - 2].kind = "filled"

Shares(ev)     == IF ev.side = "BUY" THEN ev.taker ELSE ev.maker
Collateral(ev) == IF ev.side = "BUY" THEN ev.maker ELSE ev.taker

(* A fill is at a positive price of at most one. *)
IsPriced(ev) == 0 < Collateral(ev) /\ Collateral(ev) <= Shares(ev)

IsComplementary(passive, active) == passive.token = active.token /\ passive.side # active.side

(* What a passive leg uses of the active order's collateral: its own, or,  *)
(* when the exchange mints or merges a pair, the complement of it.         *)
Consumed(passive, active) ==
  IF IsComplementary(passive, active) THEN Collateral(passive) ELSE Shares(passive) - Collateral(passive)

SumOver(S, f(_)) == FoldSet(LAMBDA x, sum : f(x) + sum, 0, S)

(* The match repeats the active fill. *)
MatchesActive(tx, seg) == [tx.events[seg.matched] EXCEPT !.kind = "filled"] = tx.events[seg.active]

(* The active aggregate agrees with its passive legs; a minting buy may be *)
(* refunded collateral, a merging sale shares.                             *)
Conserves(tx, seg) ==
  LET ev         == tx.events
      active     == ev[seg.active]
      passive    == ToSet(seg.passive)
      shares     == SumOver(passive, LAMBDA i : Shares(ev[i]))
      collateral == SumOver(passive, LAMBDA i : Consumed(ev[i], active))
      paired     == \E i \in passive : ~IsComplementary(ev[i], active)
  IN /\ \A i \in passive : Consumed(ev[i], active) > 0
     /\ \A i \in passive \cup {seg.active} : IsPriced(ev[i])
     /\ Shares(active) = shares \/ (paired /\ active.side = "SELL" /\ Shares(active) > shares)
     /\ Collateral(active) = collateral \/ (paired /\ active.side = "BUY" /\ Collateral(active) > collateral)

Leg(tx, i, ordinal, ev, collateral, shares) ==
  [block |-> tx.block, index |-> tx.index, exchange |-> tx.exchange, log |-> i, ordinal |-> ordinal,
   token |-> ev.token, side |-> ev.side, shares |-> shares, collateral |-> collateral]

(* The economic legs of a segment within its market's window: one for each *)
(* passive fill, and a derived one of the active token for each fill that  *)
(* was paired by mint or merge.                                            *)
Traded(manifest, tx, seg) ==
  \E m \in MarketsOf(manifest, tx.events[seg.active].token) :
    m.start <= BlockTime[tx.block] /\ BlockTime[tx.block] < m.end

PassiveLegs(manifest, tx, seg) ==
  {Leg(tx, i, 0, tx.events[i], Collateral(tx.events[i]), Shares(tx.events[i])) :
     i \in {j \in ToSet(seg.passive) : Traded(manifest, tx, seg)}}

LegsOf(manifest, tx, seg) ==
  LET active  == tx.events[seg.active]
      paired  == {i \in ToSet(seg.passive) : Traded(manifest, tx, seg) /\ ~IsComplementary(tx.events[i], active)}
      derived == {Leg(tx, i, 1, active, Consumed(tx.events[i], active), Shares(tx.events[i])) : i \in paired}
  IN PassiveLegs(manifest, tx, seg) \cup derived

(* Transactions of a leaf that are worth a receipt. *)
Relevant(manifest, e, from, to) == {d[1] : d \in {x \in Discoveries(e, from, to) : Eligible(manifest, e, x)}}

(* A segment that touches a market of the manifest stays within it, and    *)
(* each passive fill is of the active token from the other side or of its  *)
(* complement from the same side.                                          *)
Supported(manifest, tx, seg) ==
  LET token(i) == tx.events[i].token
      side(i)  == tx.events[i].side
  IN \E m \in MarketsOf(manifest, token(seg.active)) :
       m.exchange = tx.exchange /\ \A i \in ToSet(seg.passive) :
         token(i) \in {m.yes, m.no} /\ (token(i) = token(seg.active) <=> side(i) # side(seg.active))

IsTarget(manifest, tx, seg) ==
  \E i \in ToSet(seg.passive) \cup {seg.active} : MarketsOf(manifest, tx.events[i].token) # {}

(* A leaf whose receipts make no sense is refused.  The match is compared  *)
(* in every segment, the rest in those with a token of the manifest.       *)
TxIsSound(manifest, tx) ==
  WellFormed(tx) /\ \A seg \in ToSet(Segments(tx)) :
    /\ MatchesActive(tx, seg)
    /\ IsTarget(manifest, tx, seg) => Supported(manifest, tx, seg) /\ Conserves(tx, seg)

SoundOf == [s \in Manifests |-> {tx \in Txs : TxIsSound(s, tx)}]

LeafIsSound(manifest, e, from, to) == Relevant(manifest, e, from, to) \subseteq SoundOf[manifest]

(* The normalized fills of a leaf. *)
LeafFillsOf ==
  [leaf \in Manifests \X Exchanges \X Blocks \X Blocks |->
     UNION {UNION {LegsOf(leaf[1], tx, seg) : seg \in ToSet(Segments(tx))} :
              tx \in Relevant(leaf[1], leaf[2], leaf[3], leaf[4])}]

LeafFills(manifest, e, from, to) == LeafFillsOf[<<manifest, e, from, to>>]

(* What remains of a target once some chunks are done: the longest runs of *)
(* blocks in none of them.                                                 *)
BlocksOf(ranges) == UNION {r[1]..r[2] : r \in ranges}
Overlapping(r, q) == r[1] <= q[2] /\ q[1] <= r[2]

RunsOf(blocks) == {r \in blocks \X blocks : r[1]..r[2] \subseteq blocks /\ r[1] <= r[2]
                                            /\ {r[1] - 1, r[2] + 1} \cap blocks = {}}

Gaps(target, completed) == SetToSortSeq(RunsOf((target[1]..target[2]) \ BlocksOf(completed)), Before)

(* Chunks make no sense when two overlap or a run of them enters the       *)
(* target from before it.                                                  *)
BadChunks(target, completed) ==
  \/ \E c, d \in completed : c # d /\ Overlapping(c, d)
  \/ {target[1] - 1, target[1]} \subseteq BlocksOf(completed)
=============================================================================
