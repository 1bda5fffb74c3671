-------------------------- MODULE PolygonSettlement --------------------------
(***************************************************************************)
(* The Polygon settlement backfill: attempts that scan the target ranges   *)
(* of the current seed in leaves, stage what they find, resume what an     *)
(* earlier attempt has staged, and publish a complete scan in place of the *)
(* canonical one; and the advisory verification by a second provider.      *)
(*                                                                         *)
(* The identifier of a scan is a hash of its manifest and of the headers   *)
(* at the bounds of its target ranges.  The model lets a provider serve    *)
(* another header for blocks between those bounds only (forked), so that a *)
(* scan is its manifest.  Each database transaction is a step, and so is   *)
(* what an attempt does between two of them.                               *)
(***************************************************************************)
EXTENDS PolygonChain

CONSTANTS
  Attempts,       \* attempts that may be under way at a time
  MaxAttempts,    \* bound: attempts in all
  MaxReseeds,     \* bound: changes of the seed
  MaxForks,       \* bound: changes of what headers the provider serves
  Workers,        \* config.workers
  InitialChunk,   \* config.initial_block_chunk_size
  MaxChunk,       \* _MAX_LOG_CHUNK_SIZE
  Overlap,        \* subset of {"seed", "fork"}: a seed may change before its scan
                  \* is published; attempts that overlap may see different headers
  ScanFaults      \* subset of {"rpc", "crash"}

ASSUME ScanAssumption ==
  /\ Workers \in Nat \ {0} /\ InitialChunk \in MinChunk..MaxChunk
  /\ {MaxAttempts, MaxReseeds, MaxForks} \subseteq Nat
  /\ Overlap \subseteq {"seed", "fork"} /\ ScanFaults \subseteq {"rpc", "crash"}
ASSUME ManifestAssumption == \A s \in Manifests : Plannable(s) /\ {t.exchange : t \in Targets(s)} = Exchanges

VARIABLES
  seed, reseeds,   \* the manifest in the repository
  forked, forks,   \* blocks whose header differs from the one first served
  runs,            \* polygon_settlement_scan_runs
  chunks,          \* polygon_settlement_scan_chunks
  stage,           \* polygon_settlement_fill_stage
  fills,           \* polygon_settlement_fills
  attempts, begun, \* the attempts under way, the number begun
  verifier         \* the verification under way

environment == <<seed, reseeds, forked, forks>>
tables      == <<runs, chunks, stage, fills>>
settlement == <<environment, tables, attempts, begun, verifier>>

NoRow   == [status |-> "none", raw |-> FALSE, verified |-> "not_requested"]
NoRange == <<>>
NoTarget == [exchange |-> "none", from |-> 0, to |-> 0]

(* An attempt is idle, or between two steps: pc says which is next.        *)
(* target and range are current_address and current_range, chunk is the    *)
(* range the pool was given.                                               *)
Idle ==
  [pc |-> "idle", scan |-> {}, seen |-> {}, work |-> <<>>, ready |-> <<>>, pending |-> {},
   target |-> NoTarget, chunk |-> NoRange, range |-> NoRange, leaves |-> <<>>, error |-> FALSE]

NoVerifier == [scan |-> {}, seen |-> {}]

SettlementInit ==
  /\ seed \in Manifests /\ reseeds = 0
  /\ forked = {} /\ forks = 0
  /\ runs = [s \in Manifests |-> NoRow]
  /\ chunks = {} /\ stage = {} /\ fills = {}
  /\ attempts = [a \in Attempts |-> Idle] /\ begun = 0
  /\ verifier = NoVerifier

Successful(s) == {c \in chunks : c.scan = s /\ c.status = "success"}
Staged(s)     == {r \in stage : r.scan = s}
IsCanonical(run) == run.status = "published" /\ run.raw

Covers(c, leaf) == c.exchange = leaf.exchange /\ c.from = leaf.from /\ c.to = leaf.to

Move(a, new) == attempts' = [attempts EXCEPT ![a] = new]
Goto(a, pc)  == Move(a, [attempts[a] EXCEPT !.pc = pc])
Return(a)    == Move(a, Idle)

Headers(from, to) == <<from \in forked, to \in forked>>

----------------------------------------------------------------------------
(* Starting and resuming *)

(* An attempt begins when the seed has no published scan, and plans.       *)
Begin(a) ==
  /\ attempts[a].pc = "idle" /\ begun < MaxAttempts
  /\ ~IsCanonical(runs[seed])
  /\ \A b \in Attempts : attempts[b].pc # "idle" =>
       /\ "seed" \in Overlap \/ attempts[b].scan = seed
       /\ "fork" \in Overlap \/ forks = 0
  /\ Move(a, [Idle EXCEPT !.pc = "start", !.scan = seed])
  /\ begun' = begun + 1
  /\ UNCHANGED <<environment, tables, verifier>>

(* A scan that another one has replaced starts from nothing; any other is  *)
(* resumed.                                                                *)
StartScan(a) ==
  LET s == attempts[a].scan
      replaced == runs[s].status = "published"
  IN /\ attempts[a].pc = "start"
     /\ IF IsCanonical(runs[s])
        THEN Return(a) /\ UNCHANGED tables
        ELSE /\ Goto(a, "read")
             /\ runs' = [runs EXCEPT ![s] = [status |-> "running", raw |-> FALSE,
                           verified |-> IF replaced THEN "not_requested" ELSE @.verified]]
             /\ chunks' = IF replaced THEN {c \in chunks : c.scan # s} ELSE chunks
             /\ stage' = IF replaced THEN {r \in stage : r.scan # s} ELSE stage
             /\ UNCHANGED fills
     /\ UNCHANGED <<environment, begun, verifier>>

(* The chunks to resume from are read before the provider is asked for     *)
(* their headers.                                                          *)
ReadChunks(a) ==
  /\ attempts[a].pc = "read"
  /\ Move(a, [attempts[a] EXCEPT !.pc = "revalidate", !.seen = Successful(attempts[a].scan)])
  /\ UNCHANGED <<environment, tables, begun, verifier>>

AllStaged(s, ranges) == Staged(s)

(* What stays staged for a scan whose ranges are discarded. *)
StillStaged(s, ranges) == {r \in Staged(s) : ~\E c \in ranges : Covers(c, r)}

Stale(seen) == {c \in seen : c.headers # Headers(c.from, c.to)}

(* Chunks whose bounds now have other headers are discarded, with what is  *)
(* staged for them, and the attempt fails; a published scan is left alone. *)
Revalidate(a) ==
  LET s == attempts[a].scan
      stale == Stale(attempts[a].seen)
  IN /\ attempts[a].pc = "revalidate"
     /\ IF stale = {} \/ IsCanonical(runs[s])
        THEN Goto(a, "plan") /\ UNCHANGED <<chunks, stage>>
        ELSE /\ Goto(a, "fail")
             /\ chunks' = {c \in chunks : ~(c \in Successful(s) /\ \E x \in stale : Covers(x, c))}
             /\ stage' = (stage \ Staged(s)) \cup StillStaged(s, stale)
     /\ UNCHANGED <<environment, runs, fills, begun, verifier>>

(* The provider fails while headers are read. *)
RevalidateFails(a) ==
  /\ attempts[a].pc = "revalidate" /\ "rpc" \in ScanFaults
  /\ Goto(a, "fail")
  /\ UNCHANGED <<environment, tables, begun, verifier>>

(* The next chunk of a range: from the head of its gaps, no longer than    *)
(* the range's chunk size.                                                 *)
NextChunk(w) ==
  LET gap == w.gaps[1]
      end == IF w.from + w.size - 1 < gap[2] THEN w.from + w.size - 1 ELSE gap[2]
  IN <<w.from, end>>

AfterChunk(w) ==
  LET gap == w.gaps[1]
      end == NextChunk(w)[2]
      rest == Tail(w.gaps)
  IN IF end < gap[2] THEN [w EXCEPT !.from = end + 1]
     ELSE [w EXCEPT !.gaps = rest, !.from = IF rest = <<>> THEN 0 ELSE rest[1][1]]

(* The pool takes chunks of ready ranges while it has workers; a range     *)
(* with nothing left is dropped.                                           *)
Pool(att) ==
  LET step(acc, t) ==
        CASE acc.work[t].gaps = <<>> -> acc
          [] Cardinality(acc.pending) >= Workers -> [acc EXCEPT !.ready = Append(@, t)]
          [] OTHER -> [acc EXCEPT !.pending = @ \cup {[target |-> t, range |-> NextChunk(acc.work[t])]},
                                  !.work[t] = AfterChunk(@)]
  IN FoldLeft(step, [work |-> att.work, ready |-> <<>>, pending |-> att.pending], att.ready)

Submitted(att) ==
  LET pool == Pool(att)
  IN [att EXCEPT !.work = pool.work, !.ready = pool.ready, !.pending = pool.pending]

CompletedOf(s, t) == {<<c.from, c.to>> : c \in {x \in Successful(s) : x.exchange = t.exchange}}

(* The gaps of every target are worked on.  Chunks that overlap end the    *)
(* attempt before its failure would be recorded.                           *)
PlanWork(a) ==
  LET s == attempts[a].scan
      rest == [t \in Targets(s) |-> Gaps(<<t.from, t.to>>, CompletedOf(s, t))]
      work == [t \in Targets(s) |->
                 [gaps |-> rest[t], size |-> InitialChunk, from |-> IF rest[t] = <<>> THEN 0 ELSE rest[t][1][1]]]
      order(t, u) == Before(<<t.from, t.to>>, <<u.from, u.to>>)
  IN /\ attempts[a].pc = "plan"
     /\ IF \E t \in Targets(s) : BadChunks(<<t.from, t.to>>, CompletedOf(s, t))
        THEN Return(a)
        ELSE Move(a, Submitted([attempts[a] EXCEPT !.pc = "scan", !.seen = {}, !.work = work,
                                  !.ready = SetToSortSeq({t \in Targets(s) : work[t].gaps # <<>>}, order)]))
     /\ UNCHANGED <<environment, tables, begun, verifier>>

----------------------------------------------------------------------------
(* Collecting *)

(* A worker's leaves arrive: all of them, or those before its failure. The *)
(* guardrail may also end the attempt here.                                *)
LeavesArrive(a) ==
  LET att == attempts[a]
  IN /\ att.pc = "scan"
     /\ \E p \in att.pending :
          LET e     == p.target.exchange
              split == SplitRange(e, p.range)
              sound == LeafIsSound(att.scan, e, p.range[1], p.range[2])
          IN \E n \in 0..Len(split.leaves), failed \in BOOLEAN :
               /\ ~failed => sound /\ ~split.failed /\ n = Len(split.leaves)
               /\ failed => "rpc" \in ScanFaults \/ split.failed \/ ~sound
               /\ Move(a, [att EXCEPT !.pc = "record", !.pending = @ \ {p}, !.target = p.target,
                             !.chunk = p.range, !.range = p.range,
                             !.leaves = SubSeq(split.leaves, 1, n), !.error = failed])
     /\ UNCHANGED <<environment, tables, begun, verifier>>

LeafRows(s, leaf) ==
  {[scan |-> s, exchange |-> leaf.exchange, from |-> leaf.from, to |-> leaf.to, leg |-> leg] :
     leg \in LeafFills(s, leaf.exchange, leaf.from, leaf.to)}

Overlaps(c, leaf) == c.exchange = leaf.exchange /\ c.from <= leaf.to /\ leaf.from <= c.to

(* A leaf and its rows are stored together, unless they are there already; *)
(* a chunk with another payload (its duration is part of it) or one that   *)
(* overlaps the leaf ends the attempt.                                     *)
RecordLeaf(a) ==
  LET att   == attempts[a]
      s     == att.scan
      range == att.leaves[1]
      leaf  == [exchange |-> att.target.exchange, from |-> range[1], to |-> range[2]]
      same  == {c \in Successful(s) : Covers(c, leaf)}
      next  == [att EXCEPT !.range = range, !.leaves = Tail(@)]
      chunk == [scan |-> s, exchange |-> leaf.exchange, from |-> leaf.from, to |-> leaf.to, status |-> "success",
                fills |-> Cardinality(LeafRows(s, leaf)), headers |-> Headers(leaf.from, leaf.to)]
      kept(x) == ~(x.scan = s /\ Covers(x, leaf))
  IN /\ att.pc = "record" /\ att.leaves # <<>>
     /\ \/ /\ \E c \in same : c.headers = chunk.headers
           /\ Move(a, next)
           /\ UNCHANGED tables
        \/ /\ \E c \in Successful(s) : Overlaps(c, leaf)
           /\ Move(a, [next EXCEPT !.pc = "fail"])
           /\ UNCHANGED tables
        \/ /\ \A c \in Successful(s) : ~Overlaps(c, leaf)
           /\ Move(a, next)
           /\ chunks' = {c \in chunks : kept(c)} \cup {chunk}
           /\ stage' = {r \in stage : kept(r)} \cup LeafRows(s, leaf)
           /\ UNCHANGED <<runs, fills>>
     /\ UNCHANGED <<environment, begun, verifier>>

(* The size of a range's next chunk follows the provider's speed.          *)
Sizes(size) ==
  {size, IF 2 * size < MaxChunk THEN 2 * size ELSE MaxChunk,
   IF size \div 2 > MinChunk THEN size \div 2 ELSE MinChunk}

(* All leaves of a chunk are stored: the range is ready for its next one,  *)
(* if it has one, or the worker's failure ends the attempt.                *)
ChunkDone(a) ==
  LET att == attempts[a]
  IN /\ att.pc = "record" /\ att.leaves = <<>>
     /\ IF att.error
        THEN Move(a, [att EXCEPT !.pc = "fail", !.range = att.chunk])
        ELSE \E size \in IF att.work[att.target].gaps = <<>> THEN {0} ELSE Sizes(att.work[att.target].size) :
               Move(a, Submitted([att EXCEPT !.pc = "scan", !.range = att.chunk, !.work[att.target].size = size,
                                             !.ready = Append(@, att.target)]))
     /\ UNCHANGED <<environment, tables, begun, verifier>>

----------------------------------------------------------------------------
(* Publishing, failing, verifying *)

(* The successful chunks of an exchange tile its targets: a cursor that    *)
(* runs through them finds no gap, no overlap and nothing outside.         *)
Tiled(s) ==
  \A e \in Exchanges :
    LET targets == {<<t.from, t.to>> : t \in {u \in Targets(s) : u.exchange = e}}
        leaves  == {<<c.from, c.to>> : c \in {x \in Successful(s) : x.exchange = e}}
    IN /\ \A l \in leaves : \E t \in targets : t[1] <= l[1] /\ l[2] <= t[2]
       /\ \A l, k \in leaves : l # k => ~Overlapping(l, k)
       /\ BlocksOf(targets) = BlocksOf(leaves)

Expected(s) == FoldSet(LAMBDA c, sum : c.fills + sum, 0, Successful(s))

(* The generator is exhausted: the scan's coverage and its staged rows are *)
(* checked, unless another attempt has published it.                       *)
CheckPublication(a) ==
  LET s == attempts[a].scan
  IN /\ attempts[a].pc = "scan" /\ attempts[a].pending = {}
     /\ CASE IsCanonical(runs[s]) -> Return(a)
          [] ~IsCanonical(runs[s]) /\ Tiled(s) /\ Staged(s) # {} /\ Cardinality(Staged(s)) = Expected(s) ->
               Goto(a, "publish")
          [] OTHER -> Goto(a, "fail")
     /\ UNCHANGED <<environment, tables, begun, verifier>>

PublishedBeside(s) == [runs EXCEPT ![s] = [@ EXCEPT !.status = "published", !.raw = TRUE]]

(* The scan becomes the only one that is published raw. *)
Superseding(s) ==
  [r \in Manifests |-> IF r = s THEN [runs[r] EXCEPT !.status = "published", !.raw = TRUE]
                       ELSE [runs[r] EXCEPT !.raw = FALSE]]

(* Failed attempts are no part of what a published scan is audited by. *)
WithoutFailures(s) == {c \in chunks : ~(c.scan = s /\ c.status = "failed")}

(* One transaction: it replaces the canonical fills, or rolls back when    *)
(* the scan is published already.                                          *)
Publish(a) ==
  LET s == attempts[a].scan
  IN /\ attempts[a].pc = "publish"
     /\ IF runs[s].status \notin {"running", "failed"}
        THEN Goto(a, "fail") /\ UNCHANGED tables
        ELSE /\ Return(a)
             /\ chunks' = WithoutFailures(s)
             /\ runs' = Superseding(s)
             /\ fills' = {[scan |-> s, leg |-> r.leg] : r \in Staged(s)}
             /\ stage' = stage \ Staged(s)
     /\ UNCHANGED <<environment, begun, verifier>>

NothingIsFinal(s) == FALSE

(* Late failures must never demote the canonical scan. *)
CannotFail(s) == IsCanonical(runs[s])

(* A failure is recorded with its range, but never against the canonical   *)
(* scan, nor over a chunk that succeeded.                                  *)
RecordFailure(a) ==
  LET att == attempts[a]
      s   == att.scan
      at  == [exchange |-> att.target.exchange, from |-> att.range[1], to |-> att.range[2]]
      known == att.range # NoRange
  IN /\ att.pc = "fail"
     /\ IF CannotFail(s)
        THEN UNCHANGED tables
        ELSE /\ chunks' =
                  IF known /\ ~\E c \in Successful(s) : Covers(c, at)
                  THEN {c \in chunks : ~(c.scan = s /\ Covers(c, at))}
                       \cup {[scan |-> s, exchange |-> at.exchange, from |-> at.from, to |-> at.to,
                              status |-> "failed", fills |-> 0, headers |-> <<>>]}
                  ELSE chunks
             /\ runs' = [runs EXCEPT ![s].status = "failed", ![s].raw = FALSE]
             /\ UNCHANGED <<stage, fills>>
     /\ Return(a)
     /\ UNCHANGED <<environment, begun, verifier>>

(* The process of an attempt ends anywhere. *)
AttemptDies(a) ==
  /\ "crash" \in ScanFaults /\ attempts[a].pc # "idle"
  /\ Return(a)
  /\ UNCHANGED <<environment, tables, begun, verifier>>

(* Verification reads the canonical scan and its chunks, asks the second   *)
(* provider, which serves the first headers, and stores its verdict.       *)
VerifyBegin ==
  /\ verifier = NoVerifier /\ fills # {}
  /\ LET s == (CHOOSE f \in fills : TRUE).scan
     IN verifier' = [scan |-> s, seen |-> Successful(s)]
  /\ UNCHANGED <<environment, tables, attempts, begun>>

VerifyEnd ==
  /\ verifier # NoVerifier
  /\ LET matches == \A c \in verifier.seen : c.headers = <<FALSE, FALSE>>
     IN \E verdict \in {IF matches THEN "matched" ELSE "mismatched"} \cup (IF "rpc" \in ScanFaults THEN {"error"} ELSE {}) :
          runs' = [runs EXCEPT ![verifier.scan].verified = verdict]
  /\ verifier' = NoVerifier
  /\ UNCHANGED <<environment, chunks, stage, fills, attempts, begun>>

----------------------------------------------------------------------------
(* The environment *)

(* A reviewed seed is installed. *)
Reseed ==
  /\ reseeds < MaxReseeds /\ reseeds' = reseeds + 1
  /\ "seed" \in Overlap \/ IsCanonical(runs[seed])
  /\ \E s \in Manifests \ {seed} : seed' = s
  /\ UNCHANGED <<forked, forks, tables, attempts, begun, verifier>>

(* Bounds of target ranges: their headers identify the scan. *)
Pinned == UNION {UNION {{t.from, t.to} : t \in Targets(s)} : s \in Manifests}

(* The provider serves another header for a block, or the first one again. *)
Fork ==
  /\ forks < MaxForks /\ forks' = forks + 1
  /\ "fork" \in Overlap \/ Cardinality({a \in Attempts : attempts[a].pc # "idle"}) <= 1
  /\ \E b \in Blocks \ Pinned : forked' = (forked \ {b}) \cup ({b} \ forked)
  /\ UNCHANGED <<seed, reseeds, tables, attempts, begun, verifier>>

AttemptStep(a) ==
  \/ StartScan(a) \/ ReadChunks(a) \/ Revalidate(a) \/ RevalidateFails(a) \/ PlanWork(a)
  \/ LeavesArrive(a) \/ RecordLeaf(a) \/ ChunkDone(a)
  \/ CheckPublication(a) \/ Publish(a) \/ RecordFailure(a)

SettlementNext ==
  \/ \E a \in Attempts : Begin(a) \/ AttemptStep(a) \/ AttemptDies(a)
  \/ VerifyBegin \/ VerifyEnd
  \/ Reseed \/ Fork

SettlementSpec == SettlementInit /\ [][SettlementNext]_settlement

----------------------------------------------------------------------------
(* Properties *)

SettlementTypeOK ==
  /\ seed \in Manifests /\ reseeds \in 0..MaxReseeds /\ forked \subseteq Blocks /\ forks \in 0..MaxForks
  /\ runs \in [Manifests -> [status : {"none", "running", "failed", "published"}, raw : BOOLEAN,
                             verified : {"not_requested", "matched", "mismatched", "error"}]]
  /\ \A c \in chunks : c.scan \in Manifests /\ c.exchange \in Exchanges /\ c.from \in Blocks /\ c.to \in c.from..FinalizedHead
  /\ \A r \in stage : r.scan \in Manifests
  /\ \A a \in Attempts :
       /\ attempts[a].pc \in {"idle", "start", "read", "revalidate", "plan", "scan", "record", "publish", "fail"}
       /\ Cardinality(attempts[a].pending) <= Workers
  /\ begun \in 0..MaxAttempts

(* What a manifest's markets traded in their windows, read off the chain   *)
(* directly: no blocks, ranges, leaves or receipts.                        *)
TradesOf(s) ==
  UNION {UNION {
    LET ev == tx.events
        active == ev[j - 1]
        passive == {i \in 1..j - 2 : \A k \in i..j - 2 : ev[k].kind = "filled"}
        followed == \E m \in s : active.token \in {m.yes, m.no} /\ m.exchange = tx.exchange
                                /\ m.start <= BlockTime[tx.block] /\ BlockTime[tx.block] < m.end
    IN IF ~followed THEN {}
       ELSE UNION {{Leg(tx, i, 0, ev[i], Collateral(ev[i]), Shares(ev[i]))}
                   \cup (IF ev[i].token = active.token THEN {}
                         ELSE {Leg(tx, i, 1, active, Shares(ev[i]) - Collateral(ev[i]), Shares(ev[i]))}) : i \in passive}
    : j \in Positions(tx, "matched")} : tx \in Txs}

TradesIn == [s \in Manifests |-> {[scan |-> s, leg |-> leg] : leg \in TradesOf(s)}]

(* The canonical fills are those of one published scan, every trade of its *)
(* windows once and nothing else, however the ranges were split, resumed,  *)
(* or worked on by two attempts.                                           *)
CanonicalIsExact ==
  \A s \in Manifests : IsCanonical(runs[s]) => fills = TradesIn[s]

(* Canonical fills always have a published run, of which they are the only *)
(* ones: what the release asks for.                                        *)
OneCanonicalScan ==
  fills # {} => \E s \in Manifests : /\ IsCanonical(runs[s]) /\ \A f \in fills : f.scan = s
                                     /\ \A r \in Manifests \ {s} : ~runs[r].raw

(* A scan that can be resumed has staged exactly the fills of the chunks   *)
(* it will not scan again.                                                 *)
ResumableIsStaged ==
  \A s \in Manifests : runs[s].status \in {"running", "failed"} =>
    Staged(s) = UNION {LeafRows(s, [exchange |-> c.exchange, from |-> c.from, to |-> c.to]) : c \in Successful(s)}

(* The chunks of a published scan tile its targets, and no failed attempt  *)
(* is left among them.                                                     *)
PublishedIsTiled ==
  \A s \in Manifests : IsCanonical(runs[s]) => Tiled(s) /\ \A c \in chunks : c.scan = s => c.status = "success"

(* A canonical scan ceases to be one only when another takes its place:    *)
(* no late failure of an attempt demotes it.                               *)
NeverDemoted ==
  [][\A s \in Manifests : IsCanonical(runs[s]) /\ ~IsCanonical(runs[s])' =>
       runs'[s].status = "published" /\ \E r \in Manifests \ {s} : IsCanonical(runs[r])']_settlement

(* What the release reads is one published scan: its canonical fills are    *)
(* the only ones and its chunks are whole.                                  *)
CanonicalIsPublished == SettlementTypeOK /\ CanonicalIsExact /\ OneCanonicalScan /\ PublishedIsTiled
=============================================================================
