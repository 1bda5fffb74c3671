--------------------------- MODULE PublicationProofs ---------------------------
(***************************************************************************)
(* What is published stays true: proofs about the minute odds, about the   *)
(* settlements and about the releases made of them.                        *)
(*                                                                         *)
(* The publication of minute odds has the properties of its run for any     *)
(* number of tokens, runs and windows, and implements MinuteOddsPublication *)
(* step by step.                                                           *)
(*                                                                         *)
(* A canonical settlement scan is never demoted, its fills are the only    *)
(* ones a release can read, and a scan that is resumed has staged exactly  *)
(* what it will not scan again: for any chain, any manifests, and any      *)
(* number of attempts, workers and failures.                               *)
(*                                                                         *)
(* A release of a scan is one statement, and an export of it another copy, *)
(* for any scans, seeds, builders, prices and hands that interfere.        *)
(***************************************************************************)
EXTENDS MinuteOddsPublish, PolygonSettlement, PolygonRelease, FiniteSetTheorems, TLAPS

-----------------------------------------------------------------------------
(* The inductive invariant, part by part.                                  *)

PCs == {"idle", "planned", "resolved", "no_op", "recorded", "partial", "fetch_failed",
        "waiting", "locked", "built", "advanced", "committed", "published",
        "publish_error", "crashed"}

Early     == {"planned", "resolved", "recorded", "waiting", "locked"}
Recorded  == {"recorded", "waiting", "locked", "built", "advanced"}
Under     == {"locked", "built", "advanced", "committed"}
Merged    == {"built", "advanced"}
Plans     == UNION {[D -> Windows] : D \in SUBSET Tokens}
Snapshot(s) == [prev: {NoRun} \cup (Runs \ {s}), rows: Rows, hashes: Rows]

(* Variables and, as far as functions of the runs, their domains. *)
Shapes ==
  /\ leg \in Legs /\ torn \in {"no", "torn", "guessed"}
  /\ window \in [Tokens -> Windows]
  /\ DOMAIN snapshots \subseteq Runs /\ \A s \in DOMAIN snapshots : snapshots[s] \in Snapshot(s)
  /\ current \in DOMAIN snapshots \cup {NoRun}
  /\ rowsOf \in [Runs -> Rows]
  /\ flagged \subseteq Runs \X Tokens
  /\ lock \in Runs \cup {NoRun}
  /\ pc \in [Runs -> PCs]
  /\ plan \in [Runs -> Plans] /\ reuse \in [Runs -> SUBSET Tokens]
  /\ prior \in [Runs -> Rows] /\ loaded \in [Runs -> Rows]
  /\ \A r \in Runs : reuse[r] \subseteq DOMAIN plan[r]

(* The lock is held by the run that merges, moves CURRENT or cleans up.    *)
LockIsHeld == \A r \in Runs : pc[r] \in Under <=> lock = r

(* The runs of a WC2026 leg follow one another.                            *)
Alone == leg # "soccer" => \A r, q \in Active : r = q

(* A snapshot appears when its run builds it; CURRENT is its predecessor    *)
(* and then itself.                                                        *)
InPlace(s) == s = NoRun \/ (s \in DOMAIN snapshots /\ snapshots[s].prev \in DOMAIN snapshots \cup {NoRun})

SnapshotsInOrder ==
  /\ InPlace(current)
  /\ \A r \in Runs :
       /\ pc[r] \in Early \cup {"idle"} => r \notin DOMAIN snapshots
       /\ pc[r] = "built" => r \in DOMAIN snapshots /\ snapshots[r].prev = current
       /\ pc[r] \in {"advanced", "committed"} => current = r
       /\ pc[r] = "advanced" => InPlace(snapshots[r].prev)

(* Only a run that is over, or has just committed, has flagged rows.       *)
FlaggedIsOver ==
  /\ \A row \in flagged : pc[row[1]] \notin {"idle", "planned", "resolved"} \cup Recorded
  /\ \A row \in flagged : row[2] \in DOMAIN rowsOf[row[1]]
  /\ \A r \in Runs : /\ pc[r] = "idle" => DOMAIN rowsOf[r] = {}
                     /\ pc[r] \in {"idle", "planned"} => reuse[r] = {}

(* What a run that goes on to publish has in the audit: a fetch of its own  *)
(* for every token its shards hold, and the reused rows in the WC2026 legs. *)
AuditIsOwn ==
  \A r \in Runs :
    /\ leg = "match" /\ pc[r] \in {"planned", "resolved"} => DOMAIN plan[r] = Tokens
    /\ pc[r] \in Recorded =>
         /\ \A t \in Fresh(r) : rowsOf[r][t] \in [run: {r}, window: Windows]
         /\ leg = "soccer" => DOMAIN rowsOf[r] \cap reuse[r] = {}
         /\ leg # "soccer" => \A t \in reuse[r] : t \in DOMAIN rowsOf[r] /\ rowsOf[r][t] = prior[r][t]
         /\ leg = "match" => DOMAIN rowsOf[r] = Tokens

(* What a run reuses is published: the rows seen when reuse was resolved,   *)
(* in the WC2026 legs, and those loaded before the lock.                   *)
ReusedIsPublished ==
  \A r \in Runs :
    /\ leg # "soccer" /\ pc[r] \in Recorded \cup {"resolved"} =>
         \A t \in reuse[r] : /\ t \in DOMAIN prior[r]
                             /\ \E q \in Runs : <<q, t>> \in flagged /\ prior[r][t] = rowsOf[q][t]
    /\ DOMAIN prior[r] \subseteq reuse[r]
    /\ DOMAIN loaded[r] = IF leg = "soccer" /\ pc[r] \in {"waiting", "locked", "built", "advanced", "committed"}
                          THEN reuse[r] ELSE {}

(* A built snapshot is the merge of the shards into the rows of CURRENT.   *)
SnapshotIsMerge ==
  \A r \in Runs : pc[r] \in Merged =>
    /\ snapshots[r].rows = Over(Restrict(rowsOf[r], Fresh(r)), RowsIn(snapshots[r].prev))
    /\ DOMAIN snapshots[r].hashes \subseteq DOMAIN snapshots[r].rows
    /\ \A t \in Fresh(r) : t \in DOMAIN snapshots[r].hashes /\ snapshots[r].hashes[t] = rowsOf[r][t]
    /\ torn = "no" => snapshots[r].hashes = snapshots[r].rows

(* The rows a failure would go back to, or a reader gets, agree with the    *)
(* published audit rows and with the manifest beside them.                 *)
AgreesWith(s) ==
  /\ \A row \in flagged : row[2] \in DOMAIN RowsIn(s)
  /\ torn # "torn" => \A row \in flagged : RowsIn(s)[row[2]].window = rowsOf[row[1]][row[2]].window
  /\ torn = "no" => \A row \in flagged : RowsIn(s)[row[2]] = rowsOf[row[1]][row[2]]
  /\ torn = "no" => HashesIn(s) = RowsIn(s)

ServedAgrees == AgreesWith(ServedRun)

Inv ==
  /\ Shapes /\ LockIsHeld /\ Alone /\ SnapshotsInOrder /\ FlaggedIsOver /\ AuditIsOwn
  /\ ReusedIsPublished /\ SnapshotIsMerge /\ OneAuditRow /\ ServedAgrees

-----------------------------------------------------------------------------
(* Functions of the tokens, and the constants.                             *)

LEMMA Constants ==
  /\ Runs \subseteq Nat /\ NoRun \notin Runs /\ IsFiniteSet(Runs)
  /\ 1 \in Windows
  /\ Legs \subseteq {"match", "futures", "soccer"}
<1>1. MaxRuns \in Nat \ {0} /\ MaxWindow \in Nat \ {0}
  BY BoundsAssumption
<1>2. IsFiniteSet(1..MaxRuns)
  BY <1>1, FS_Interval
<1> QED BY <1>1, <1>2, LegAssumption DEF Runs, NoRun, Windows

LEMMA RowsAre ==
  /\ \A f \in Rows : DOMAIN f \subseteq Tokens /\ f \in [DOMAIN f -> Fetch]
  /\ \A D \in SUBSET Tokens : \A f \in [D -> Fetch] : f \in Rows
  /\ Empty \in Rows /\ DOMAIN Empty = {}
<1>1. \A f \in Rows : DOMAIN f \subseteq Tokens /\ f \in [DOMAIN f -> Fetch]
  BY DEF Rows
<1>2. \A D \in SUBSET Tokens : \A f \in [D -> Fetch] : f \in Rows
  BY DEF Rows
<1>3. Empty \in [{} -> Fetch] /\ DOMAIN Empty = {}
  BY DEF Empty
<1> QED BY <1>1, <1>2, <1>3

LEMMA PlansAre ==
  /\ \A f \in Plans : DOMAIN f \subseteq Tokens /\ f \in [DOMAIN f -> Windows]
  /\ \A D \in SUBSET Tokens : \A f \in [D -> Windows] : f \in Plans
  /\ Empty \in Plans
<1>1. \A f \in Plans : DOMAIN f \subseteq Tokens /\ f \in [DOMAIN f -> Windows]
  BY DEF Plans
<1>2. \A D \in SUBSET Tokens : \A f \in [D -> Windows] : f \in Plans
  BY DEF Plans
<1>3. Empty \in [{} -> Windows]
  BY DEF Empty
<1> QED BY <1>1, <1>2, <1>3

LEMMA OverIs ==
  ASSUME NEW f, NEW g
  PROVE  /\ DOMAIN Over(f, g) = DOMAIN f \cup DOMAIN g
         /\ \A x \in DOMAIN f : Over(f, g)[x] = f[x]
         /\ \A x \in DOMAIN g \ DOMAIN f : Over(f, g)[x] = g[x]
BY DEF Over

LEMMA OverRows ==
  ASSUME NEW f \in Rows, NEW g \in Rows
  PROVE  Over(f, g) \in Rows
<1>1. DOMAIN f \cup DOMAIN g \in SUBSET Tokens
  BY RowsAre
<1>2. \A x \in DOMAIN f : f[x] \in Fetch
  BY RowsAre
<1>3. \A x \in DOMAIN g : g[x] \in Fetch
  BY RowsAre
<1>4. Over(f, g) \in [DOMAIN f \cup DOMAIN g -> Fetch]
  BY <1>2, <1>3 DEF Over
<1> QED BY <1>1, <1>4, RowsAre

LEMMA RestrictIs ==
  ASSUME NEW f, NEW S
  PROVE  /\ DOMAIN Restrict(f, S) = S
         /\ \A x \in S : Restrict(f, S)[x] = f[x]
         /\ f \in Rows /\ S \subseteq DOMAIN f => Restrict(f, S) \in Rows
<1>1. DOMAIN Restrict(f, S) = S /\ \A x \in S : Restrict(f, S)[x] = f[x]
  BY DEF Restrict
<1>2. ASSUME f \in Rows, S \subseteq DOMAIN f PROVE Restrict(f, S) \in Rows
  <2>1. S \in SUBSET Tokens /\ \A x \in S : f[x] \in Fetch
    BY <1>2, RowsAre
  <2>2. Restrict(f, S) \in [S -> Fetch]
    BY <2>1 DEF Restrict
  <2> QED BY <2>1, <2>2, RowsAre
<1> QED BY <1>1, <1>2

-----------------------------------------------------------------------------
(* What a reader is served and what the audit has published.               *)

(* Published and ServedRun, of the variables they depend on. *)
TokensOf(flags) == {row[2] : row \in flags}

LatestRows(flags, rows) ==
  [t \in TokensOf(flags) |->
     rows[CHOOSE r \in Runs : <<r, t>> \in flags /\ \A q \in Runs : <<q, t>> \in flags => q <= r][t]]

ServedBy(p, s, c) ==
  IF \E r \in Runs : p[r] = "advanced"
  THEN s[CHOOSE r \in Runs : p[r] = "advanced"].prev ELSE c

(* Every token has one flagged row at most, and f has its fetch. *)
OneRowEach(flags, rows) ==
  /\ flags \subseteq Runs \X Tokens /\ rows \in [Runs -> Rows]
  /\ \A row \in flags : row[2] \in DOMAIN rows[row[1]]
  /\ \A row, other \in flags : row[2] = other[2] => row = other

IsAuditOf(f, flags, rows) ==
  /\ f \in Rows /\ DOMAIN f = TokensOf(flags)
  /\ \A r \in Runs, t \in Tokens : <<r, t>> \in flags => t \in DOMAIN f /\ f[t] = rows[r][t]
  /\ \A t \in DOMAIN f : t \in Tokens /\ \E r \in Runs : <<r, t>> \in flags /\ f[t] = rows[r][t]

LEMMA LatestIs ==
  ASSUME NEW flags, NEW rows, OneRowEach(flags, rows)
  PROVE  IsAuditOf(LatestRows(flags, rows), flags, rows)
<1> USE DEF OneRowEach
<1>1. DOMAIN LatestRows(flags, rows) = TokensOf(flags)
  BY DEF LatestRows
<1>2. ASSUME NEW r \in Runs, NEW t \in Tokens, <<r, t>> \in flags
      PROVE  t \in TokensOf(flags) /\ LatestRows(flags, rows)[t] = rows[r][t]
  <2>1. \A q \in Runs : <<q, t>> \in flags => q = r
    BY <1>2
  <2>2. r <= r
    BY Constants
  <2>3. r = CHOOSE s \in Runs : <<s, t>> \in flags /\ \A q \in Runs : <<q, t>> \in flags => q <= s
    BY <1>2, <2>1, <2>2
  <2>4. t \in TokensOf(flags)
    <3>1. <<r, t>>[2] = t
      OBVIOUS
    <3> QED BY <1>2, <3>1 DEF TokensOf
  <2> QED BY <2>3, <2>4 DEF LatestRows
<1>3. ASSUME NEW t \in TokensOf(flags)
      PROVE  /\ t \in Tokens /\ LatestRows(flags, rows)[t] \in Fetch
             /\ \E r \in Runs : <<r, t>> \in flags /\ LatestRows(flags, rows)[t] = rows[r][t]
  <2>1. PICK row \in flags : row[2] = t
    BY DEF TokensOf
  <2>2. row = <<row[1], t>> /\ row[1] \in Runs /\ t \in Tokens
    BY <2>1
  <2>3. rows[row[1]][t] \in Fetch
    BY <2>1, <2>2, RowsAre
  <2> QED BY <1>2, <2>1, <2>2, <2>3
<1>4. LatestRows(flags, rows) \in Rows
  <2>1. TokensOf(flags) \in SUBSET Tokens
    BY <1>3
  <2>2. LatestRows(flags, rows) = [t \in TokensOf(flags) |-> LatestRows(flags, rows)[t]]
    BY DEF LatestRows
  <2>3. LatestRows(flags, rows) \in [TokensOf(flags) -> Fetch]
    BY <1>3, <2>2
  <2> QED BY <2>1, <2>3, RowsAre
<1> QED BY <1>1, <1>2, <1>3, <1>4 DEF IsAuditOf

LEMMA ServedIs ==
  ASSUME NEW p, NEW s, NEW c
  PROVE  /\ (\A r \in Runs : p[r] # "advanced") => ServedBy(p, s, c) = c
         /\ \A r \in Runs : p[r] = "advanced" /\ (\A q \in Runs : p[q] = "advanced" => q = r) =>
              ServedBy(p, s, c) = s[r].prev
BY DEF ServedBy

LEMMA ServedRunIs ==
  ASSUME LockIsHeld
  PROVE  /\ (\A r \in Runs : pc[r] # "advanced") => ServedRun = current
         /\ \A r \in Runs : pc[r] = "advanced" => ServedRun = snapshots[r].prev
<1>1. ServedRun = ServedBy(pc, snapshots, current)
  BY DEF ServedRun, ServedBy, Settled
<1>2. \A r, q \in Runs : pc[r] = "advanced" /\ pc[q] = "advanced" => q = r
  BY DEF LockIsHeld, Under
<1> QED BY <1>1, <1>2, ServedIs

LEMMA NextServedRunIs ==
  ASSUME LockIsHeld'
  PROVE  /\ (\A r \in Runs : pc'[r] # "advanced") => ServedRun' = current'
         /\ \A r \in Runs : pc'[r] = "advanced" => ServedRun' = snapshots'[r].prev
<1>1. ServedRun' = ServedBy(pc', snapshots', current')
  BY DEF ServedRun, ServedBy, Settled
<1>2. \A r, q \in Runs : pc'[r] = "advanced" /\ pc'[q] = "advanced" => q = r
  BY DEF LockIsHeld, Under
<1> QED BY <1>1, <1>2, ServedIs

-----------------------------------------------------------------------------
(* Steps that leave snapshots and flags alone.                             *)

LEMMA InitInv == Init => Inv
<1> SUFFICES ASSUME Init PROVE Inv
  OBVIOUS
<1>0. /\ \A r \in Runs : /\ pc[r] = "idle" /\ rowsOf[r] = Empty /\ plan[r] = Empty /\ reuse[r] = {}
                         /\ prior[r] = Empty /\ loaded[r] = Empty
      /\ snapshots = Empty /\ DOMAIN Empty = {} /\ flagged = {} /\ current = NoRun /\ lock = NoRun
  BY RowsAre DEF Init
<1>1. Shapes
  BY <1>0, RowsAre, PlansAre, Constants DEF Init, Shapes, PCs
<1>2. LockIsHeld /\ Alone /\ SnapshotsInOrder
  BY <1>0, Constants DEF LockIsHeld, Under, Alone, Active, SnapshotsInOrder, InPlace
<1>3. FlaggedIsOver /\ AuditIsOwn /\ ReusedIsPublished /\ SnapshotIsMerge /\ OneAuditRow
  BY <1>0, RowsAre
     DEF FlaggedIsOver, AuditIsOwn, ReusedIsPublished, SnapshotIsMerge, OneAuditRow, Recorded, Merged
<1>4. ServedAgrees
  <2>1. ServedRun = NoRun
    BY <1>0, <1>2, ServedRunIs
  <2> QED BY <1>0, <2>1 DEF ServedAgrees, AgreesWith, RowsIn, HashesIn
<1> QED BY <1>1, <1>2, <1>3, <1>4 DEF Inv

(* A run that has not built yet moves on, or is over, whatever it writes to *)
(* its own part of the audit.                                              *)
LEMMA EarlyStep ==
  ASSUME Inv, NEW r \in Runs, pc[r] \in Early \cup {"idle"},
         NEW x \in PCs \ {"idle", "built", "advanced", "committed"}, pc' = [pc EXCEPT ![r] = x],
         UNCHANGED <<leg, snapshots, current, flagged, torn>>, LockIsHeld',
         \A q \in Runs \ {r} : rowsOf'[q] = rowsOf[q] /\ reuse'[q] = reuse[q],
         x = "planned" => reuse'[r] = {}
  PROVE  SnapshotsInOrder' /\ FlaggedIsOver' /\ SnapshotIsMerge' /\ OneAuditRow' /\ ServedAgrees'
<1>0. /\ pc'[r] = x /\ \A q \in Runs \ {r} : pc'[q] = pc[q]
      /\ pc[r] # "advanced" /\ pc'[r] # "advanced"
  BY DEF Inv, Shapes, Early
<1>1. SnapshotsInOrder'
  BY <1>0 DEF Inv, SnapshotsInOrder, InPlace, Early
<1>2. \A row \in flagged : row[1] \in Runs \ {r} /\ row[2] \in Tokens /\ rowsOf'[row[1]] = rowsOf[row[1]]
  <2> TAKE row \in flagged
  <2>1. row[1] \in Runs /\ row[2] \in Tokens
    BY DEF Inv, Shapes
  <2>2. row[1] # r
    BY <1>0 DEF Inv, FlaggedIsOver, Early, Recorded
  <2> QED BY <2>1, <2>2
<1>3. FlaggedIsOver'
  BY <1>0, <1>2 DEF Inv, FlaggedIsOver
<1>4. SnapshotIsMerge'
  <2>1. \A q \in Runs : pc'[q] \in Merged =>
          pc[q] \in Merged /\ rowsOf'[q] = rowsOf[q] /\ reuse'[q] = reuse[q]
    BY <1>0 DEF Merged
  <2>2. \A q \in Runs : RowsIn(snapshots[q].prev)' = RowsIn(snapshots[q].prev)
    BY DEF RowsIn
  <2>3. \A q \in Runs : pc'[q] \in Merged => Fresh(q)' = Fresh(q)
    BY <2>1 DEF Fresh
  <2> QED BY <2>1, <2>2, <2>3 DEF Inv, SnapshotIsMerge
<1>5. OneAuditRow'
  BY DEF Inv, OneAuditRow
<1>6. ServedAgrees'
  <2>1. ServedRun' = ServedRun
    <3>1. CASE \E q \in Runs : pc[q] = "advanced"
      <4>1. PICK q \in Runs : pc[q] = "advanced"
        BY <3>1
      <4>2. pc'[q] = "advanced"
        BY <1>0, <4>1
      <4> QED BY <4>1, <4>2, ServedRunIs, NextServedRunIs DEF Inv
    <3>2. CASE \A q \in Runs : pc[q] # "advanced"
      <4>1. \A q \in Runs : pc'[q] # "advanced"
        BY <1>0, <3>2
      <4> QED BY <3>2, <4>1, ServedRunIs, NextServedRunIs DEF Inv
    <3> QED BY <3>1, <3>2
  <2> QED BY <1>2, <2>1 DEF Inv, ServedAgrees, AgreesWith, RowsIn, HashesIn
<1> QED BY <1>1, <1>3, <1>4, <1>5, <1>6

(* A run is over, whatever becomes of CURRENT.                             *)
LEMMA AnyEnd ==
  ASSUME Inv, NEW r \in Runs, pc[r] \in Early \cup Under,
         NEW how \in {"no_op", "partial", "fetch_failed", "publish_error", "crashed", "published"},
         Ends(r, how), UNCHANGED <<leg, window, flagged>>, torn' \in {"no", "torn", "guessed"},
         rowsOf' = rowsOf \/ (pc[r] # "committed" /\ rowsOf' = [rowsOf EXCEPT ![r] = Empty]),
         lock' = IF lock = r THEN NoRun ELSE lock,
         DOMAIN snapshots' \subseteq DOMAIN snapshots,
         \A s \in DOMAIN snapshots' : snapshots'[s] = snapshots[s],
         current' \in DOMAIN snapshots' \cup {NoRun}
  PROVE  /\ Shapes' /\ LockIsHeld' /\ Alone' /\ FlaggedIsOver' /\ AuditIsOwn' /\ ReusedIsPublished'
         /\ OneAuditRow'
         /\ \A row \in flagged : rowsOf'[row[1]] = rowsOf[row[1]]
<1>0. /\ pc' = [pc EXCEPT ![r] = how] /\ pc'[r] = how /\ \A q \in Runs \ {r} : pc'[q] = pc[q]
      /\ how \in PCs \ ({"idle", "planned", "resolved"} \cup Recorded \cup Under)
  BY DEF Inv, Shapes, Ends, PCs, Recorded, Under
<1>1. Shapes'
  <2>1. Empty \in Rows /\ Empty \in Plans
    BY RowsAre, PlansAre
  <2>2. /\ plan' \in [Runs -> Plans] /\ reuse' \in [Runs -> SUBSET Tokens]
        /\ prior' \in [Runs -> Rows] /\ loaded' \in [Runs -> Rows] /\ rowsOf' \in [Runs -> Rows]
    BY <2>1 DEF Inv, Shapes, Ends
  <2>3. \A q \in Runs : reuse'[q] \subseteq DOMAIN plan'[q]
    BY DEF Inv, Shapes, Ends
  <2>4. pc' \in [Runs -> PCs] /\ lock' \in Runs \cup {NoRun}
    BY <1>0 DEF Inv, Shapes
  <2>5. DOMAIN snapshots' \subseteq Runs /\ \A s \in DOMAIN snapshots' : snapshots'[s] \in Snapshot(s)
    BY DEF Inv, Shapes
  <2> QED BY <1>0, <2>2, <2>3, <2>4, <2>5 DEF Inv, Shapes, Snapshot
<1>2. LockIsHeld'
  BY <1>0, Constants DEF Inv, Shapes, LockIsHeld
<1>3. Alone'
  <2>1. Active' \subseteq Active
    BY <1>0 DEF Active, Recorded, Under
  <2> QED BY <1>0, <2>1 DEF Inv, Alone
<1>4. /\ \A q \in Runs \ {r} : /\ rowsOf'[q] = rowsOf[q] /\ reuse'[q] = reuse[q] /\ plan'[q] = plan[q]
                               /\ prior'[q] = prior[q] /\ loaded'[q] = loaded[q]
      /\ DOMAIN prior'[r] = {} /\ DOMAIN loaded'[r] = {} /\ reuse'[r] = {}
  BY RowsAre DEF Inv, Shapes, Ends
<1>5. AuditIsOwn'
  BY <1>0, <1>4 DEF Inv, AuditIsOwn, Fresh
<1>6. \A row \in flagged : row[1] \in Runs /\ row[2] \in Tokens /\ rowsOf'[row[1]] = rowsOf[row[1]]
  <2> TAKE row \in flagged
  <2>1. row[1] \in Runs /\ row[2] \in Tokens
    BY DEF Inv, Shapes
  <2>2. row[1] = r => pc[r] = "committed"
    BY DEF Inv, FlaggedIsOver, Early, Recorded, Under
  <2> QED BY <1>4, <2>1, <2>2
<1>7. ReusedIsPublished'
  <2>1. \A q \in Runs, t \in Tokens : <<q, t>> \in flagged => rowsOf'[q] = rowsOf[q]
    BY <1>6
  <2>2. \A q \in Runs : reuse[q] \subseteq Tokens
    BY DEF Inv, Shapes
  <2>3. \A q \in Runs \ {r} :
          leg # "soccer" /\ pc[q] \in Recorded \cup {"resolved"} =>
            \A t \in reuse[q] : /\ t \in DOMAIN prior[q]
                                /\ \E o \in Runs : <<o, t>> \in flagged /\ prior[q][t] = rowsOf'[o][t]
    BY <2>1, <2>2 DEF Inv, ReusedIsPublished
  <2>4. pc'[r] \notin Recorded \cup {"resolved"} \cup Under \cup {"waiting"}
    BY <1>0 DEF Recorded
  <2>5. \A q \in Runs : leg' # "soccer" /\ pc'[q] \in Recorded \cup {"resolved"} =>
            \A t \in reuse'[q] : /\ t \in DOMAIN prior'[q]
                                 /\ \E o \in Runs : <<o, t>> \in flagged' /\ prior'[q][t] = rowsOf'[o][t]
    <3> TAKE q \in Runs
    <3> HAVE leg' # "soccer" /\ pc'[q] \in Recorded \cup {"resolved"}
    <3>1. q # r /\ leg # "soccer" /\ pc[q] \in Recorded \cup {"resolved"}
      BY <1>0, <2>4
    <3>2. reuse'[q] = reuse[q] /\ prior'[q] = prior[q] /\ flagged' = flagged
      BY <1>4, <3>1
    <3> QED BY <2>3, <3>1, <3>2
  <2>6. \A q \in Runs : DOMAIN prior'[q] \subseteq reuse'[q]
    BY <1>4 DEF Inv, ReusedIsPublished
  <2>7. \A q \in Runs : DOMAIN loaded'[q] =
           IF leg' = "soccer" /\ pc'[q] \in {"waiting", "locked", "built", "advanced", "committed"}
           THEN reuse'[q] ELSE {}
    <3>1. pc'[r] \notin {"waiting", "locked", "built", "advanced", "committed"}
      BY <1>0 DEF Recorded, Under
    <3> QED BY <1>0, <1>4, <3>1 DEF Inv, ReusedIsPublished
  <2> QED BY <2>5, <2>6, <2>7 DEF ReusedIsPublished
<1>8. FlaggedIsOver'
  <2>1. \A row \in flagged' : pc'[row[1]] \notin {"idle", "planned", "resolved"} \cup Recorded
    BY <1>0, <1>6 DEF Inv, FlaggedIsOver
  <2>2. \A q \in Runs : /\ pc'[q] = "idle" => DOMAIN rowsOf'[q] = {}
                        /\ pc'[q] \in {"idle", "planned"} => reuse'[q] = {}
    BY <1>0, <1>4 DEF Inv, FlaggedIsOver
  <2> QED BY <1>6, <2>1, <2>2 DEF Inv, FlaggedIsOver
<1>9. OneAuditRow'
  BY DEF Inv, OneAuditRow
<1> QED BY <1>1, <1>2, <1>3, <1>5, <1>6, <1>7, <1>8, <1>9

(* A run that has not built yet is over.                                   *)
LEMMA EarlyEnd ==
  ASSUME Inv, NEW r \in Runs, pc[r] \in Early,
         NEW how \in {"no_op", "partial", "fetch_failed", "publish_error", "crashed"}, Ends(r, how),
         UNCHANGED <<world, disk, flagged, torn>>,
         rowsOf' = rowsOf \/ rowsOf' = [rowsOf EXCEPT ![r] = Empty],
         lock' = IF lock = r THEN NoRun ELSE lock
  PROVE  Inv'
<1>0. /\ UNCHANGED <<leg, window, snapshots, current, flagged, torn>> /\ pc[r] # "committed"
      /\ torn' \in {"no", "torn", "guessed"} /\ current' \in DOMAIN snapshots' \cup {NoRun}
  BY DEF Inv, Shapes, Early, world, disk
<1>1. /\ Shapes' /\ LockIsHeld' /\ Alone' /\ FlaggedIsOver' /\ AuditIsOwn' /\ ReusedIsPublished'
      /\ OneAuditRow'
  BY <1>0, AnyEnd
<1>2. SnapshotsInOrder' /\ SnapshotIsMerge' /\ ServedAgrees'
  <2>1. pc' = [pc EXCEPT ![r] = how] /\ how \in PCs \ {"idle", "built", "advanced", "committed"}
    BY DEF Ends, PCs
  <2>2. \A q \in Runs \ {r} : rowsOf'[q] = rowsOf[q] /\ reuse'[q] = reuse[q]
    BY DEF Inv, Shapes, Ends
  <2>3. how # "planned"
    OBVIOUS
  <2> QED BY <1>0, <1>1, <2>1, <2>2, <2>3, EarlyStep
<1> QED BY <1>1, <1>2 DEF Inv

(* A run that is busy with itself goes on: its own part of the invariant is *)
(* all there is to show.                                                   *)
LEMMA EarlyGoesOn ==
  ASSUME Inv, NEW r \in Runs, pc[r] \in Early,
         NEW x \in Early, pc' = [pc EXCEPT ![r] = x],
         UNCHANGED <<leg, snapshots, current, flagged, torn>>,
         x # "planned", Shapes', LockIsHeld',
         \A q \in Runs \ {r} : /\ rowsOf'[q] = rowsOf[q] /\ reuse'[q] = reuse[q] /\ plan'[q] = plan[q]
                               /\ prior'[q] = prior[q] /\ loaded'[q] = loaded[q]
  PROVE  /\ SnapshotsInOrder' /\ FlaggedIsOver' /\ SnapshotIsMerge' /\ OneAuditRow' /\ ServedAgrees'
         /\ Alone'
         /\ \A t \in Tokens, q \in Runs : <<q, t>> \in flagged => rowsOf'[q] = rowsOf[q]
<1>0. pc'[r] = x /\ \A q \in Runs \ {r} : pc'[q] = pc[q]
  BY DEF Inv, Shapes
<1>1. Alone'
  <2>1. Active' \subseteq Active
    BY <1>0 DEF Active, Early
  <2> QED BY <2>1 DEF Inv, Alone
<1>2. \A t \in Tokens, q \in Runs : <<q, t>> \in flagged => rowsOf'[q] = rowsOf[q]
  <2> TAKE t \in Tokens, q \in Runs
  <2> HAVE <<q, t>> \in flagged
  <2>1. q # r
    BY DEF Inv, FlaggedIsOver, Early, Recorded
  <2> QED BY <2>1
<1>3. SnapshotsInOrder' /\ FlaggedIsOver' /\ SnapshotIsMerge' /\ OneAuditRow' /\ ServedAgrees'
  <2>1. x \in PCs \ {"idle", "built", "advanced", "committed"}
    BY DEF Early, PCs
  <2>2. \A q \in Runs \ {r} : rowsOf'[q] = rowsOf[q] /\ reuse'[q] = reuse[q]
    OBVIOUS
  <2> QED BY <1>0, <2>1, <2>2, EarlyStep
<1> QED BY <1>1, <1>2, <1>3

LEMMA OthersReuse ==
  ASSUME Inv, NEW r \in Runs, UNCHANGED <<leg, flagged>>,
         \A q \in Runs \ {r} : /\ rowsOf'[q] = rowsOf[q] /\ reuse'[q] = reuse[q] /\ plan'[q] = plan[q]
                               /\ prior'[q] = prior[q] /\ loaded'[q] = loaded[q] /\ pc'[q] = pc[q],
         \A t \in Tokens, q \in Runs : <<q, t>> \in flagged => rowsOf'[q] = rowsOf[q],
         leg # "soccer" /\ pc'[r] \in Recorded \cup {"resolved"} =>
            \A t \in reuse'[r] : /\ t \in DOMAIN prior'[r]
                                 /\ \E o \in Runs : <<o, t>> \in flagged /\ prior'[r][t] = rowsOf'[o][t],
         DOMAIN prior'[r] \subseteq reuse'[r],
         DOMAIN loaded'[r] = IF leg = "soccer" /\ pc'[r] \in {"waiting", "locked", "built", "advanced", "committed"}
                             THEN reuse'[r] ELSE {}
  PROVE  ReusedIsPublished'
<1>1. \A q \in Runs : reuse[q] \subseteq Tokens
  BY DEF Inv, Shapes
<1>2. \A q \in Runs : leg' # "soccer" /\ pc'[q] \in Recorded \cup {"resolved"} =>
            \A t \in reuse'[q] : /\ t \in DOMAIN prior'[q]
                                 /\ \E o \in Runs : <<o, t>> \in flagged' /\ prior'[q][t] = rowsOf'[o][t]
  BY <1>1 DEF Inv, ReusedIsPublished
<1>3. \A q \in Runs : DOMAIN prior'[q] \subseteq reuse'[q]
  BY DEF Inv, ReusedIsPublished
<1>4. \A q \in Runs : DOMAIN loaded'[q] =
         IF leg' = "soccer" /\ pc'[q] \in {"waiting", "locked", "built", "advanced", "committed"}
         THEN reuse'[q] ELSE {}
  BY DEF Inv, ReusedIsPublished
<1> QED BY <1>2, <1>3, <1>4 DEF ReusedIsPublished

LEMMA PublishedIs ==
  ASSUME Inv
  PROVE  /\ Published \in Rows
         /\ DOMAIN Published = TokensOf(flagged)
         /\ \A q \in Runs, t \in Tokens : <<q, t>> \in flagged =>
              t \in DOMAIN Published /\ Published[t] = rowsOf[q][t]
         /\ \A t \in DOMAIN Published :
              t \in Tokens /\ \E q \in Runs : <<q, t>> \in flagged /\ Published[t] = rowsOf[q][t]
<1>1. Published = LatestRows(flagged, rowsOf)
  BY DEF Published, LatestRows, TokensOf
<1>2. OneRowEach(flagged, rowsOf)
  BY DEF Inv, Shapes, FlaggedIsOver, OneAuditRow, OneRowEach
<1>3. IsAuditOf(LatestRows(flagged, rowsOf), flagged, rowsOf)
  BY <1>2, LatestIs
<1> QED BY <1>1, <1>3 DEF IsAuditOf

LEMMA NextPublishedIs ==
  ASSUME Inv'
  PROVE  /\ Published' \in Rows
         /\ DOMAIN Published' = TokensOf(flagged')
         /\ \A q \in Runs, t \in Tokens : <<q, t>> \in flagged' =>
              t \in DOMAIN Published' /\ Published'[t] = rowsOf'[q][t]
         /\ \A t \in DOMAIN Published' :
              t \in Tokens /\ \E q \in Runs : <<q, t>> \in flagged' /\ Published'[t] = rowsOf'[q][t]
<1>1. Published' = LatestRows(flagged', rowsOf')
  BY DEF Published, LatestRows, TokensOf
<1>2. OneRowEach(flagged', rowsOf')
  BY DEF Inv, Shapes, FlaggedIsOver, OneAuditRow, OneRowEach
<1>3. IsAuditOf(LatestRows(flagged', rowsOf'), flagged', rowsOf')
  BY <1>2, LatestIs
<1> QED BY <1>1, <1>3 DEF IsAuditOf

LEMMA ServedRowsAre ==
  ASSUME Shapes
  PROVE  \A s \in DOMAIN snapshots \cup {NoRun} : RowsIn(s) \in Rows /\ HashesIn(s) \in Rows
BY RowsAre DEF Shapes, RowsIn, HashesIn, Snapshot

LEMMA PlanStep ==
  ASSUME Inv, NEW r \in Runs, Plan(r)
  PROVE  Inv'
<1>1. PICK planned \in SUBSET Tokens :
        plan' = [plan EXCEPT ![r] = Restrict(window, planned)] /\ (leg = "match" => planned = Tokens)
  BY LegAssumption DEF Plan, MatchPlans, FuturesPlans, SoccerPlans, Inv, Shapes
<1>0. /\ pc[r] = "idle" /\ pc' = [pc EXCEPT ![r] = "planned"]
      /\ pc'[r] = "planned" /\ \A q \in Runs \ {r} : pc'[q] = pc[q]
      /\ UNCHANGED <<leg, window, snapshots, current, rowsOf, flagged, lock, reuse, prior, loaded, torn>>
      /\ reuse[r] = {}
  BY DEF Plan, Inv, Shapes, FlaggedIsOver, world, disk, audit
<1>2. Restrict(window, planned) \in Plans /\ DOMAIN Restrict(window, planned) = planned
  <2>1. Restrict(window, planned) \in [planned -> Windows]
    BY DEF Restrict, Inv, Shapes
  <2> QED BY <2>1, PlansAre
<1>3. Shapes'
  <2>1. plan' \in [Runs -> Plans] /\ pc' \in [Runs -> PCs]
    BY <1>0, <1>1, <1>2 DEF Inv, Shapes, PCs
  <2>2. \A q \in Runs : reuse'[q] \subseteq DOMAIN plan'[q]
    BY <1>0, <1>1, <1>2 DEF Inv, Shapes
  <2> QED BY <1>0, <2>1, <2>2 DEF Inv, Shapes, Snapshot
<1>4. LockIsHeld'
  BY <1>0 DEF Inv, LockIsHeld, Under
<1>5. Alone'
  <2>1. CASE leg # "soccer"
    <3>1. Cardinality(Active) < 1
      BY <2>1, OverlapAssumption DEF Plan, Inv, Shapes
    <3>2. IsFiniteSet(Active)
      <4>1. Active \subseteq Runs
        BY DEF Active
      <4> QED BY <4>1, Constants, FS_Subset
    <3>3. Active = {}
      BY <3>1, <3>2, FS_CardinalityType, FS_EmptySet
    <3>4. \A q \in Active' : q = r
      <4> TAKE q \in Active'
      <4>1. q # r => q \in Active
        BY <1>0 DEF Active
      <4> QED BY <3>3, <4>1
    <3> QED BY <3>4 DEF Alone
  <2>2. CASE leg = "soccer"
    BY <1>0, <2>2 DEF Alone
  <2> QED BY <2>1, <2>2
<1>6. AuditIsOwn'
  <2>1. \A q \in Runs \ {r} : plan'[q] = plan[q]
    BY <1>1 DEF Inv, Shapes
  <2>2. \A q \in Runs : Fresh(q)' = Fresh(q)
    BY <1>0 DEF Fresh
  <2>3. DOMAIN plan'[r] = planned
    BY <1>1, <1>2 DEF Inv, Shapes
  <2> QED BY <1>0, <1>1, <2>1, <2>2, <2>3 DEF Inv, AuditIsOwn, Recorded
<1>7. ReusedIsPublished'
  BY <1>0 DEF Inv, ReusedIsPublished, Recorded
<1>8. SnapshotsInOrder' /\ FlaggedIsOver' /\ SnapshotIsMerge' /\ OneAuditRow' /\ ServedAgrees'
  <2>1. "planned" \in PCs \ {"idle", "built", "advanced", "committed"}
    BY DEF PCs
  <2>2. \A q \in Runs \ {r} : rowsOf'[q] = rowsOf[q] /\ reuse'[q] = reuse[q]
    BY <1>0
  <2> QED BY <1>0, <1>4, <2>1, <2>2, EarlyStep
<1> QED BY <1>3, <1>4, <1>5, <1>6, <1>7, <1>8 DEF Inv

LEMMA ResolveReuseStep ==
  ASSUME Inv, NEW r \in Runs, ResolveReuse(r)
  PROVE  Inv'
<1> DEFINE reused == Reusable(plan[r])
<1>0. /\ pc[r] = "planned" /\ leg # "soccer" /\ pc' = [pc EXCEPT ![r] = "resolved"]
      /\ pc'[r] = "resolved" /\ \A q \in Runs \ {r} : pc'[q] = pc[q]
      /\ UNCHANGED <<leg, window, snapshots, current, rowsOf, flagged, lock, plan, loaded, torn>>
      /\ reuse' = [reuse EXCEPT ![r] = reused] /\ prior' = [prior EXCEPT ![r] = Restrict(Published, reused)]
  BY DEF ResolveReuse, Inv, Shapes, world, disk, audit
<1>1. reused \subseteq DOMAIN plan[r] /\ reused \subseteq DOMAIN Published /\ reused \subseteq Tokens
  BY PlansAre DEF Reusable, Inv, Shapes
<1>2. Restrict(Published, reused) \in Rows /\ DOMAIN Restrict(Published, reused) = reused
      /\ \A t \in reused : Restrict(Published, reused)[t] = Published[t]
  BY <1>1, PublishedIs, RestrictIs
<1>3. Shapes'
  <2> HIDE DEF reused
  <2>1. reuse' \in [Runs -> SUBSET Tokens] /\ prior' \in [Runs -> Rows] /\ pc' \in [Runs -> PCs]
    BY <1>0, <1>1, <1>2 DEF Inv, Shapes, PCs
  <2>2. \A q \in Runs : reuse'[q] \subseteq DOMAIN plan'[q]
    BY <1>0, <1>1 DEF Inv, Shapes
  <2> QED BY <1>0, <2>1, <2>2 DEF Inv, Shapes, Snapshot
<1>4. LockIsHeld'
  BY <1>0 DEF Inv, LockIsHeld, Under
<1>5. /\ \A q \in Runs \ {r} : /\ rowsOf'[q] = rowsOf[q] /\ reuse'[q] = reuse[q] /\ plan'[q] = plan[q]
                               /\ prior'[q] = prior[q] /\ loaded'[q] = loaded[q]
      /\ reuse'[r] = reused /\ prior'[r] = Restrict(Published, reused) /\ loaded'[r] = loaded[r]
  <2> HIDE DEF reused
  <2> QED BY <1>0 DEF Inv, Shapes
<1>6. /\ SnapshotsInOrder' /\ FlaggedIsOver' /\ SnapshotIsMerge' /\ OneAuditRow' /\ ServedAgrees' /\ Alone'
      /\ \A t \in Tokens, q \in Runs : <<q, t>> \in flagged => rowsOf'[q] = rowsOf[q]
  <2>1. "planned" \in Early /\ "resolved" \in Early
    BY DEF Early
  <2> QED BY <1>0, <1>3, <1>4, <1>5, <2>1, EarlyGoesOn
<1>7. AuditIsOwn'
  <2>1. \A q \in Runs \ {r} : Fresh(q)' = Fresh(q)
    BY <1>5 DEF Fresh
  <2> QED BY <1>0, <1>5, <2>1 DEF Inv, AuditIsOwn, Recorded
<1>8. ReusedIsPublished'
  <2>1. \A t \in reuse'[r] : /\ t \in DOMAIN prior'[r]
                             /\ \E o \in Runs : <<o, t>> \in flagged /\ prior'[r][t] = rowsOf'[o][t]
    <3> TAKE t \in reuse'[r]
    <3>1. PICK o \in Runs : <<o, t>> \in flagged /\ Published[t] = rowsOf[o][t]
      BY <1>1, <1>5, PublishedIs
    <3> QED BY <1>0, <1>2, <1>5, <3>1
  <2>2. DOMAIN prior'[r] \subseteq reuse'[r]
    BY <1>2, <1>5
  <2>3. DOMAIN loaded'[r] = {}
    BY <1>0, <1>5 DEF Inv, ReusedIsPublished
  <2> QED BY <1>0, <1>5, <1>6, <2>1, <2>2, <2>3, OthersReuse
<1> QED BY <1>3, <1>4, <1>6, <1>7, <1>8 DEF Inv

LEMMA ResolveSoccerStep ==
  ASSUME Inv, NEW r \in Runs, ResolveSoccer(r)
  PROVE  Inv'
<1>0. /\ pc[r] = "planned" /\ leg = "soccer" /\ pc[r] \in Early /\ pc[r] \notin Under
      /\ UNCHANGED <<world, disk, rowsOf, flagged, lock, torn>>
      /\ UNCHANGED <<leg, window, snapshots, current>>
  BY DEF ResolveSoccer, Early, Under, world, disk, audit
<1>1. PICK reused \in {Reusable(plan[r]), {}} :
        IF DOMAIN plan[r] = reused
        THEN Ends(r, "no_op")
        ELSE /\ reuse' = [reuse EXCEPT ![r] = reused]
             /\ pc' = [pc EXCEPT ![r] = "resolved"]
             /\ UNCHANGED <<plan, prior, loaded>>
  BY DEF ResolveSoccer
<1>2. reused \subseteq DOMAIN plan[r] /\ reused \subseteq Tokens
  BY PlansAre DEF Reusable, Inv, Shapes
<1>3. CASE DOMAIN plan[r] = reused
  <2>1. lock # r
    BY <1>0 DEF Inv, LockIsHeld
  <2>2. Ends(r, "no_op") /\ lock' = IF lock = r THEN NoRun ELSE lock
    BY <1>0, <1>1, <1>3, <2>1
  <2> QED BY <1>0, <2>2, EarlyEnd
<1>4. CASE DOMAIN plan[r] # reused
  <2>0. /\ pc' = [pc EXCEPT ![r] = "resolved"] /\ pc'[r] = "resolved"
        /\ \A q \in Runs \ {r} : pc'[q] = pc[q]
        /\ reuse' = [reuse EXCEPT ![r] = reused] /\ UNCHANGED <<plan, prior, loaded>>
    BY <1>1, <1>4 DEF Inv, Shapes
  <2>1. Shapes'
    <3>1. reuse' \in [Runs -> SUBSET Tokens] /\ pc' \in [Runs -> PCs]
      BY <1>2, <2>0 DEF Inv, Shapes, PCs
    <3>2. \A q \in Runs : reuse'[q] \subseteq DOMAIN plan'[q]
      BY <1>2, <2>0 DEF Inv, Shapes
    <3> QED BY <1>0, <2>0, <3>1, <3>2 DEF Inv, Shapes, Snapshot
  <2>2. LockIsHeld'
    BY <1>0, <2>0 DEF Inv, LockIsHeld, Under
  <2>3. /\ \A q \in Runs \ {r} : /\ rowsOf'[q] = rowsOf[q] /\ reuse'[q] = reuse[q] /\ plan'[q] = plan[q]
                                 /\ prior'[q] = prior[q] /\ loaded'[q] = loaded[q]
        /\ reuse'[r] = reused /\ prior'[r] = prior[r] /\ loaded'[r] = loaded[r]
    BY <1>0, <2>0 DEF Inv, Shapes
  <2>4. /\ SnapshotsInOrder' /\ FlaggedIsOver' /\ SnapshotIsMerge' /\ OneAuditRow' /\ ServedAgrees' /\ Alone'
        /\ \A t \in Tokens, q \in Runs : <<q, t>> \in flagged => rowsOf'[q] = rowsOf[q]
    <3>1. "resolved" \in Early
      BY DEF Early
    <3> QED BY <1>0, <2>0, <2>1, <2>2, <2>3, <3>1, EarlyGoesOn
  <2>5. AuditIsOwn'
    <3>1. \A q \in Runs \ {r} : Fresh(q)' = Fresh(q)
      BY <2>3 DEF Fresh
    <3> QED BY <1>0, <2>0, <2>3, <3>1 DEF Inv, AuditIsOwn, Recorded
  <2>6. ReusedIsPublished'
    <3>1. DOMAIN prior[r] = {}
      BY <1>0 DEF Inv, ReusedIsPublished, FlaggedIsOver
    <3>2. DOMAIN loaded'[r] = {}
      BY <1>0, <2>3 DEF Inv, ReusedIsPublished
    <3> QED BY <1>0, <2>0, <2>3, <2>4, <3>1, <3>2, OthersReuse
  <2> QED BY <2>1, <2>2, <2>4, <2>5, <2>6 DEF Inv
<1> QED BY <1>3, <1>4

(* What a run records: its own fetches and, in the WC2026 legs, the rows it *)
(* reuses.                                                                 *)
LEMMA AuditRowsAre ==
  ASSUME Inv, NEW r \in Runs, NEW fetched \in SUBSET (DOMAIN plan[r] \ reuse[r])
  PROVE  /\ AuditRows(r, fetched) \in Rows
         /\ \A t \in fetched : t \in DOMAIN AuditRows(r, fetched)
                               /\ AuditRows(r, fetched)[t] \in [run: {r}, window: Windows]
         /\ leg = "soccer" => DOMAIN AuditRows(r, fetched) = fetched
         /\ leg # "soccer" => /\ DOMAIN AuditRows(r, fetched) = fetched \cup DOMAIN prior[r]
                              /\ \A t \in reuse[r] \cap DOMAIN prior[r] : AuditRows(r, fetched)[t] = prior[r][t]
<1> DEFINE fresh == [t \in fetched |-> [run |-> r, window |-> plan[r][t]]]
<1>1. fetched \subseteq DOMAIN plan[r] /\ DOMAIN plan[r] \subseteq Tokens
      /\ (\A t \in DOMAIN plan[r] : plan[r][t] \in Windows) /\ fetched \cap reuse[r] = {}
  BY PlansAre DEF Inv, Shapes
<1>2. \A t \in fetched : fresh[t] \in [run: {r}, window: Windows] /\ fresh[t] \in Fetch
  BY <1>1 DEF Fetch
<1>3. fresh \in Rows /\ DOMAIN fresh = fetched
  <2>1. fresh \in [fetched -> Fetch] /\ fetched \in SUBSET Tokens
    BY <1>1, <1>2
  <2> QED BY <2>1, RowsAre
<1>4. prior[r] \in Rows
  BY DEF Inv, Shapes
<1>5. AuditRows(r, fetched) = IF leg = "soccer" THEN fresh ELSE Over(fresh, prior[r])
  BY DEF AuditRows
<1> HIDE DEF fresh
<1>6. CASE leg = "soccer"
  BY <1>2, <1>3, <1>5, <1>6
<1>7. CASE leg # "soccer"
  <2>1. AuditRows(r, fetched) = Over(fresh, prior[r])
    BY <1>5, <1>7
  <2>2. \A t \in reuse[r] \cap DOMAIN prior[r] : t \in DOMAIN prior[r] \ DOMAIN fresh
    BY <1>1, <1>3
  <2>3. /\ DOMAIN Over(fresh, prior[r]) = DOMAIN fresh \cup DOMAIN prior[r]
        /\ \A t \in DOMAIN fresh : Over(fresh, prior[r])[t] = fresh[t]
        /\ \A t \in DOMAIN prior[r] \ DOMAIN fresh : Over(fresh, prior[r])[t] = prior[r][t]
    BY OverIs
  <2>4. Over(fresh, prior[r]) \in Rows
    BY <1>3, <1>4, OverRows
  <2> QED BY <1>2, <1>3, <1>7, <2>1, <2>2, <2>3, <2>4
<1> QED BY <1>6, <1>7

LEMMA RecordFetchStep ==
  ASSUME Inv, NEW r \in Runs, RecordFetch(r)
  PROVE  Inv'
<1>0. /\ pc[r] = "resolved" /\ pc[r] \in Early /\ pc[r] \notin Under
      /\ UNCHANGED <<world, disk, flagged, lock, torn>>
      /\ UNCHANGED <<leg, window, snapshots, current>> /\ lock # r
  BY DEF RecordFetch, Early, Under, world, disk, Inv, LockIsHeld
<1>1. \/ \E how \in {"fetch_failed", "partial"} : Ends(r, how) /\ UNCHANGED rowsOf
      \/ \E fetched \in SUBSET (DOMAIN plan[r] \ reuse[r]) :
           /\ leg = "match" => fetched = DOMAIN plan[r] \ reuse[r]
           /\ rowsOf' = [rowsOf EXCEPT ![r] = AuditRows(r, fetched)]
           /\ pc' = [pc EXCEPT ![r] = "recorded"] /\ UNCHANGED local
  <2>1. PICK outcomes \in [DOMAIN plan[r] \ reuse[r] ->
                            {"success"} \cup (IF "fetch" \in Faults[leg] THEN {"empty", "error"} ELSE {})] :
           LET rows   == AuditRows(r, {t \in DOMAIN outcomes : outcomes[t] = "success"})
               goesOn == CASE leg = "match"   -> MatchGoesOn(outcomes, rows)
                           [] leg = "futures" -> FuturesGoesOn(outcomes, rows)
                           [] leg = "soccer"  -> SoccerGoesOn(outcomes, rows)
           IN  CASE ~goesOn -> Ends(r, "fetch_failed") /\ UNCHANGED rowsOf
                 [] goesOn /\ rows = Empty /\ reuse[r] = {} -> Ends(r, "partial") /\ UNCHANGED rowsOf
                 [] OTHER -> /\ rowsOf' = [rowsOf EXCEPT ![r] = rows]
                             /\ pc' = [pc EXCEPT ![r] = "recorded"]
                             /\ UNCHANGED local
    BY DEF RecordFetch
  <2> DEFINE fetched == {t \in DOMAIN outcomes : outcomes[t] = "success"}
             rows    == AuditRows(r, fetched)
             goesOn  == CASE leg = "match"   -> MatchGoesOn(outcomes, rows)
                          [] leg = "futures" -> FuturesGoesOn(outcomes, rows)
                          [] leg = "soccer"  -> SoccerGoesOn(outcomes, rows)
  <2>2. fetched \in SUBSET (DOMAIN plan[r] \ reuse[r])
    OBVIOUS
  <2>3. goesOn /\ leg = "match" => fetched = DOMAIN plan[r] \ reuse[r]
    <3>1. goesOn /\ leg = "match" => MatchGoesOn(outcomes, rows)
      BY DEF goesOn
    <3> QED BY <3>1 DEF MatchGoesOn
  <2>4. CASE ~goesOn
    BY <2>1, <2>4
  <2>5. CASE goesOn /\ rows = Empty /\ reuse[r] = {}
    BY <2>1, <2>5
  <2>6. CASE goesOn /\ ~(rows = Empty /\ reuse[r] = {})
    <3>1. /\ rowsOf' = [rowsOf EXCEPT ![r] = rows]
          /\ pc' = [pc EXCEPT ![r] = "recorded"] /\ UNCHANGED local
      BY <2>1, <2>6
    <3> QED BY <2>2, <2>3, <2>6, <3>1
  <2> QED BY <2>4, <2>5, <2>6
<1>2. CASE \E how \in {"fetch_failed", "partial"} : Ends(r, how) /\ UNCHANGED rowsOf
  <2>1. PICK how \in {"fetch_failed", "partial"} : Ends(r, how) /\ UNCHANGED rowsOf
    BY <1>2
  <2>2. lock' = IF lock = r THEN NoRun ELSE lock
    BY <1>0
  <2>3. how \in {"no_op", "partial", "fetch_failed", "publish_error", "crashed"}
    OBVIOUS
  <2> QED BY <1>0, <2>1, <2>2, <2>3, EarlyEnd
<1>3. ASSUME NEW fetched \in SUBSET (DOMAIN plan[r] \ reuse[r]),
             leg = "match" => fetched = DOMAIN plan[r] \ reuse[r],
             rowsOf' = [rowsOf EXCEPT ![r] = AuditRows(r, fetched)],
             pc' = [pc EXCEPT ![r] = "recorded"], UNCHANGED local
      PROVE  Inv'
  <2> DEFINE rows == AuditRows(r, fetched)
  <2>1. /\ rows \in Rows /\ \A t \in fetched : t \in DOMAIN rows /\ rows[t] \in [run: {r}, window: Windows]
        /\ leg = "soccer" => DOMAIN rows = fetched
        /\ leg # "soccer" => /\ DOMAIN rows = fetched \cup DOMAIN prior[r]
                             /\ \A t \in reuse[r] \cap DOMAIN prior[r] : rows[t] = prior[r][t]
    BY AuditRowsAre
  <2>2. rowsOf' = [rowsOf EXCEPT ![r] = rows]
    BY <1>3
  <2> HIDE DEF rows
  <2>3. /\ pc' = [pc EXCEPT ![r] = "recorded"] /\ pc'[r] = "recorded"
        /\ \A q \in Runs \ {r} : pc'[q] = pc[q]
        /\ UNCHANGED <<plan, reuse, prior, loaded>>
        /\ rowsOf'[r] = rows /\ \A q \in Runs \ {r} : rowsOf'[q] = rowsOf[q]
    BY <1>3, <2>2 DEF Inv, Shapes, local
  <2>4. Shapes'
    <3>1. rowsOf' \in [Runs -> Rows] /\ pc' \in [Runs -> PCs]
      BY <2>1, <2>2, <2>3 DEF Inv, Shapes, PCs
    <3> QED BY <1>0, <2>3, <3>1 DEF Inv, Shapes, Snapshot
  <2>5. LockIsHeld'
    BY <1>0, <2>3 DEF Inv, LockIsHeld, Under
  <2>6. /\ SnapshotsInOrder' /\ FlaggedIsOver' /\ SnapshotIsMerge' /\ OneAuditRow' /\ ServedAgrees' /\ Alone'
        /\ \A t \in Tokens, q \in Runs : <<q, t>> \in flagged => rowsOf'[q] = rowsOf[q]
    <3>1. "recorded" \in Early
      BY DEF Early
    <3> QED BY <1>0, <2>3, <2>4, <2>5, <3>1, EarlyGoesOn
  <2>7. AuditIsOwn'
    <3>1. \A q \in Runs \ {r} : Fresh(q)' = Fresh(q)
      BY <2>3 DEF Fresh
    <3>2. DOMAIN prior[r] \subseteq reuse[r] /\ reuse[r] \subseteq DOMAIN plan[r]
          /\ (leg # "soccer" => \A t \in reuse[r] : t \in DOMAIN prior[r])
      BY <1>0 DEF Inv, ReusedIsPublished, Shapes
    <3>3. \A t \in Fresh(r)' : rows[t] \in [run: {r}, window: Windows]
      <4>1. Fresh(r)' = DOMAIN rows \ reuse[r]
        BY <2>3 DEF Fresh
      <4> QED BY <2>1, <3>2, <4>1
    <3>4. leg = "soccer" => DOMAIN rows \cap reuse[r] = {}
      BY <2>1
    <3>5. leg # "soccer" => \A t \in reuse[r] : t \in DOMAIN rows /\ rows[t] = prior[r][t]
      BY <2>1, <3>2
    <3>6. leg = "match" => DOMAIN rows = Tokens
      <4> HAVE leg = "match"
      <4>1. DOMAIN plan[r] = Tokens
        BY <1>0 DEF Inv, AuditIsOwn
      <4>2. fetched = Tokens \ reuse[r] /\ DOMAIN rows = fetched \cup DOMAIN prior[r]
        BY <1>3, <2>1, <4>1
      <4> QED BY <2>1, <3>2, <4>2, RowsAre
    <3> QED BY <1>0, <2>3, <3>1, <3>3, <3>4, <3>5, <3>6 DEF Inv, AuditIsOwn
  <2>8. ReusedIsPublished'
    <3>1. leg # "soccer" => \A t \in reuse'[r] : /\ t \in DOMAIN prior'[r]
                               /\ \E o \in Runs : <<o, t>> \in flagged /\ prior'[r][t] = rowsOf'[o][t]
      <4> HAVE leg # "soccer"
      <4> TAKE t \in reuse'[r]
      <4>1. t \in Tokens /\ t \in reuse[r]
        BY <2>3 DEF Inv, Shapes
      <4>2. t \in DOMAIN prior[r] /\ \E o \in Runs : <<o, t>> \in flagged /\ prior[r][t] = rowsOf[o][t]
        BY <1>0, <4>1 DEF Inv, ReusedIsPublished
      <4> QED BY <2>3, <2>6, <4>1, <4>2
    <3>2. DOMAIN prior'[r] \subseteq reuse'[r] /\ DOMAIN loaded'[r] = {}
      BY <1>0, <2>3 DEF Inv, ReusedIsPublished
    <3>3. \A q \in Runs \ {r} : /\ rowsOf'[q] = rowsOf[q] /\ reuse'[q] = reuse[q] /\ plan'[q] = plan[q]
                               /\ prior'[q] = prior[q] /\ loaded'[q] = loaded[q] /\ pc'[q] = pc[q]
      BY <2>3
    <3>4. DOMAIN loaded'[r] = IF leg = "soccer" /\ pc'[r] \in {"waiting", "locked", "built", "advanced", "committed"}
                              THEN reuse'[r] ELSE {}
      BY <2>3, <3>2
    <3>5. UNCHANGED <<leg, flagged>>
      BY <1>0
    <3> QED BY <2>6, <3>1, <3>2, <3>3, <3>4, <3>5, OthersReuse
  <2> QED BY <2>4, <2>5, <2>6, <2>7, <2>8 DEF Inv
<1> QED BY <1>1, <1>2, <1>3

LEMMA LoadReusedStep ==
  ASSUME Inv, NEW r \in Runs, LoadReused(r)
  PROVE  Inv'
<1>0. /\ pc[r] = "recorded" /\ pc[r] \in Early /\ pc[r] \notin Under
      /\ UNCHANGED <<world, disk, flagged, lock, torn>>
      /\ UNCHANGED <<leg, window, snapshots, current>> /\ lock # r
  BY DEF LoadReused, Early, Under, world, disk, Inv, LockIsHeld
<1>1. \/ Fails(r, "publish_error")
      \/ /\ pc' = [pc EXCEPT ![r] = "waiting"] /\ UNCHANGED <<rowsOf, plan, reuse, prior>>
         /\ \/ loaded' = loaded /\ (leg = "soccer" => reuse[r] = {})
            \/ leg = "soccer" /\ DOMAIN ReusedAuditRows(r) = reuse[r]
               /\ loaded' = [loaded EXCEPT ![r] = ReusedAuditRows(r)]
  BY DEF LoadReused, local
<1>2. CASE Fails(r, "publish_error")
  <2>1. Ends(r, "publish_error") /\ (rowsOf' = rowsOf \/ rowsOf' = [rowsOf EXCEPT ![r] = Empty])
    BY <1>2 DEF Fails
  <2>2. lock' = IF lock = r THEN NoRun ELSE lock
    BY <1>0
  <2> QED BY <1>0, <2>1, <2>2, EarlyEnd
<1>3. ASSUME pc' = [pc EXCEPT ![r] = "waiting"], UNCHANGED <<rowsOf, plan, reuse, prior>>,
             NEW rows \in Rows, loaded' = [loaded EXCEPT ![r] = rows],
             DOMAIN rows = IF leg = "soccer" THEN reuse[r] ELSE {}
      PROVE  Inv'
  <2>1. /\ pc'[r] = "waiting" /\ \A q \in Runs \ {r} : pc'[q] = pc[q]
        /\ \A q \in Runs \ {r} : loaded'[q] = loaded[q]
        /\ loaded'[r] = rows
    BY <1>3 DEF Inv, Shapes
  <2>2. Shapes'
    <3>1. loaded' \in [Runs -> Rows] /\ pc' \in [Runs -> PCs]
      BY <1>3 DEF Inv, Shapes, PCs
    <3> QED BY <1>0, <1>3, <3>1 DEF Inv, Shapes, Snapshot
  <2>3. LockIsHeld'
    BY <1>0, <2>1 DEF Inv, LockIsHeld, Under
  <2>4. \A q \in Runs \ {r} : /\ rowsOf'[q] = rowsOf[q] /\ reuse'[q] = reuse[q] /\ plan'[q] = plan[q]
                              /\ prior'[q] = prior[q] /\ loaded'[q] = loaded[q] /\ pc'[q] = pc[q]
    BY <1>3, <2>1
  <2>5. /\ SnapshotsInOrder' /\ FlaggedIsOver' /\ SnapshotIsMerge' /\ OneAuditRow' /\ ServedAgrees' /\ Alone'
        /\ \A t \in Tokens, q \in Runs : <<q, t>> \in flagged => rowsOf'[q] = rowsOf[q]
    <3>1. "waiting" \in Early
      BY DEF Early
    <3> QED BY <1>0, <1>3, <2>2, <2>3, <2>4, <3>1, EarlyGoesOn
  <2>6. AuditIsOwn'
    <3>1. \A q \in Runs : Fresh(q)' = Fresh(q)
      BY <1>3 DEF Fresh
    <3> QED BY <1>0, <1>3, <2>1, <3>1 DEF Inv, AuditIsOwn, Recorded
  <2>7. ReusedIsPublished'
    <3>1. leg # "soccer" /\ pc'[r] \in Recorded \cup {"resolved"} =>
            \A t \in reuse'[r] : /\ t \in DOMAIN prior'[r]
                                 /\ \E o \in Runs : <<o, t>> \in flagged /\ prior'[r][t] = rowsOf'[o][t]
      BY <1>0, <1>3 DEF Inv, ReusedIsPublished, Recorded
    <3>2. DOMAIN prior'[r] \subseteq reuse'[r]
      BY <1>3 DEF Inv, ReusedIsPublished
    <3>3. DOMAIN loaded'[r] = IF leg = "soccer" /\ pc'[r] \in {"waiting", "locked", "built", "advanced", "committed"}
                              THEN reuse'[r] ELSE {}
      BY <1>3, <2>1
    <3>4. UNCHANGED <<leg, flagged>>
      BY <1>0
    <3> QED BY <2>4, <2>5, <3>1, <3>2, <3>3, <3>4, OthersReuse
  <2> QED BY <2>2, <2>3, <2>5, <2>6, <2>7 DEF Inv
<1>4. CASE /\ pc' = [pc EXCEPT ![r] = "waiting"] /\ UNCHANGED <<rowsOf, plan, reuse, prior>>
           /\ loaded' = loaded /\ (leg = "soccer" => reuse[r] = {})
  <2>1. loaded[r] \in Rows /\ loaded' = [loaded EXCEPT ![r] = loaded[r]]
    BY <1>4 DEF Inv, Shapes
  <2>2. DOMAIN loaded[r] = IF leg = "soccer" THEN reuse[r] ELSE {}
    BY <1>0, <1>4 DEF Inv, ReusedIsPublished
  <2> QED BY <1>3, <1>4, <2>1, <2>2
<1>5. CASE /\ pc' = [pc EXCEPT ![r] = "waiting"] /\ UNCHANGED <<rowsOf, plan, reuse, prior>>
           /\ leg = "soccer" /\ DOMAIN ReusedAuditRows(r) = reuse[r]
           /\ loaded' = [loaded EXCEPT ![r] = ReusedAuditRows(r)]
  <2>1. ReusedAuditRows(r) \in Rows
    <3>1. {t \in reuse[r] \cap DOMAIN Published : Published[t].window = window[t]} \subseteq DOMAIN Published
      OBVIOUS
    <3> QED BY <3>1, PublishedIs, RestrictIs DEF ReusedAuditRows
  <2> QED BY <1>3, <1>5, <2>1
<1> QED BY <1>1, <1>2, <1>4, <1>5

LEMMA TakeLockStep ==
  ASSUME Inv, NEW r \in Runs, TakeLock(r)
  PROVE  Inv'
<1>0. /\ pc[r] = "waiting" /\ pc[r] \in Early /\ lock = NoRun /\ lock' = r
      /\ pc' = [pc EXCEPT ![r] = "locked"]
      /\ pc'[r] = "locked" /\ \A q \in Runs \ {r} : pc'[q] = pc[q]
      /\ UNCHANGED <<leg, window, snapshots, current, rowsOf, flagged, plan, reuse, prior, loaded, torn>>
  BY DEF TakeLock, CanLock, Early, world, disk, audit, local, Inv, Shapes
<1>1. Shapes'
  <2>1. pc' \in [Runs -> PCs] /\ lock' \in Runs \cup {NoRun}
    BY <1>0 DEF Inv, Shapes, PCs
  <2> QED BY <1>0, <2>1 DEF Inv, Shapes, Snapshot
<1>2. LockIsHeld'
  BY <1>0, Constants DEF Inv, LockIsHeld, Under
<1>3. SnapshotsInOrder' /\ FlaggedIsOver' /\ SnapshotIsMerge' /\ OneAuditRow' /\ ServedAgrees' /\ Alone'
  <2>1. "locked" \in Early
    BY DEF Early
  <2>2. \A q \in Runs \ {r} : /\ rowsOf'[q] = rowsOf[q] /\ reuse'[q] = reuse[q] /\ plan'[q] = plan[q]
                              /\ prior'[q] = prior[q] /\ loaded'[q] = loaded[q]
    BY <1>0
  <2> QED BY <1>0, <1>1, <1>2, <2>1, <2>2, EarlyGoesOn
<1>4. AuditIsOwn'
  <2>1. \A q \in Runs : Fresh(q)' = Fresh(q)
    BY <1>0 DEF Fresh
  <2> QED BY <1>0, <2>1 DEF Inv, AuditIsOwn, Recorded
<1>5. ReusedIsPublished'
  BY <1>0 DEF Inv, ReusedIsPublished, Recorded
<1> QED BY <1>1, <1>2, <1>3, <1>4, <1>5 DEF Inv

LEMMA ReuseChangedStep ==
  ASSUME Inv, NEW r \in Runs, ReuseChanged(r)
  PROVE  Inv'
<1>1. pc[r] \in Early /\ lock = r /\ lock' = IF lock = r THEN NoRun ELSE lock
  BY DEF ReuseChanged, Early, Inv, LockIsHeld, Under
<1>2. Ends(r, "publish_error") /\ (rowsOf' = rowsOf \/ rowsOf' = [rowsOf EXCEPT ![r] = Empty])
  BY DEF ReuseChanged, Fails
<1>3. UNCHANGED <<world, disk, flagged, torn>>
  BY DEF ReuseChanged
<1> QED BY <1>1, <1>2, <1>3, EarlyEnd

(* A step that changes no more than a window, or nothing.                  *)
LEMMA QuietStep ==
  ASSUME Inv, window' \in [Tokens -> Windows],
         UNCHANGED <<leg, snapshots, current, rowsOf, flagged, lock, pc, plan, reuse, prior, loaded, torn>>
  PROVE  Inv'
<1>1. Shapes'
  BY DEF Inv, Shapes, Snapshot
<1>2. LockIsHeld' /\ Alone' /\ SnapshotsInOrder' /\ FlaggedIsOver' /\ OneAuditRow'
  BY DEF Inv, LockIsHeld, Alone, Active, SnapshotsInOrder, InPlace, FlaggedIsOver, OneAuditRow
<1>3. AuditIsOwn' /\ ReusedIsPublished'
  BY DEF Inv, AuditIsOwn, ReusedIsPublished, Fresh
<1>4. SnapshotIsMerge'
  BY DEF Inv, SnapshotIsMerge, Fresh, RowsIn
<1>5. ServedAgrees'
  BY DEF Inv, ServedAgrees, AgreesWith, RowsIn, HashesIn, ServedRun, Settled
<1> QED BY <1>1, <1>2, <1>3, <1>4, <1>5 DEF Inv

-----------------------------------------------------------------------------
(* The locked part of a publication.                                       *)

(* The rows and the hashes of the snapshot that Build writes. *)
BuiltRows(r)   == Over(Restrict(rowsOf[r], Fresh(r)), RowsIn(current))
RawHashes(r)   == Over(loaded[r], Over(rowsOf[r], HashesIn(current)))
BuiltHashes(r) == Restrict(RawHashes(r), DOMAIN RawHashes(r) \cap DOMAIN BuiltRows(r))

LEMMA SameRows ==
  ASSUME NEW f \in Rows, NEW g \in Rows, DOMAIN f = DOMAIN g, \A x \in DOMAIN f : f[x] = g[x]
  PROVE  f = g
<1>1. f \in [DOMAIN f -> Fetch] /\ g \in [DOMAIN f -> Fetch]
  BY RowsAre
<1> QED BY <1>1

LEMMA FreshRowsAre ==
  ASSUME Shapes, NEW r \in Runs
  PROVE  /\ Restrict(rowsOf[r], Fresh(r)) \in Rows /\ DOMAIN Restrict(rowsOf[r], Fresh(r)) = Fresh(r)
         /\ \A t \in Fresh(r) : Restrict(rowsOf[r], Fresh(r))[t] = rowsOf[r][t]
         /\ Fresh(r) \subseteq Tokens /\ Fresh(r) = DOMAIN rowsOf[r] \ reuse[r]
<1>1. rowsOf[r] \in Rows /\ Fresh(r) \subseteq DOMAIN rowsOf[r] /\ DOMAIN rowsOf[r] \subseteq Tokens
  BY RowsAre DEF Shapes, Fresh
<1> QED BY <1>1, RestrictIs DEF Fresh

LEMMA MergeIs ==
  ASSUME Inv, NEW r \in Runs
  PROVE  /\ BuiltRows(r) \in Rows
         /\ DOMAIN BuiltRows(r) = Fresh(r) \cup DOMAIN RowsIn(current)
         /\ \A t \in Fresh(r) : BuiltRows(r)[t] = rowsOf[r][t]
         /\ \A t \in DOMAIN RowsIn(current) \ Fresh(r) : BuiltRows(r)[t] = RowsIn(current)[t]
<1> DEFINE f == Restrict(rowsOf[r], Fresh(r))
<1>0. /\ RowsIn(current) \in Rows
      /\ f \in Rows /\ DOMAIN f = Fresh(r) /\ \A t \in Fresh(r) : f[t] = rowsOf[r][t]
  BY ServedRowsAre, FreshRowsAre DEF Inv, Shapes
<1>1. BuiltRows(r) = Over(f, RowsIn(current))
  BY DEF BuiltRows
<1> HIDE DEF f
<1>4. /\ BuiltRows(r) \in Rows
      /\ DOMAIN BuiltRows(r) = Fresh(r) \cup DOMAIN RowsIn(current)
      /\ \A t \in Fresh(r) : BuiltRows(r)[t] = f[t]
      /\ \A t \in DOMAIN RowsIn(current) \ Fresh(r) : BuiltRows(r)[t] = RowsIn(current)[t]
  <2>1. BuiltRows(r) \in Rows
    BY <1>0, <1>1, OverRows
  <2>2. /\ DOMAIN Over(f, RowsIn(current)) = DOMAIN f \cup DOMAIN RowsIn(current)
        /\ \A t \in DOMAIN f : Over(f, RowsIn(current))[t] = f[t]
        /\ \A t \in DOMAIN RowsIn(current) \ DOMAIN f : Over(f, RowsIn(current))[t] = RowsIn(current)[t]
    BY OverIs
  <2> QED BY <1>0, <1>1, <2>1, <2>2
<1> QED BY <1>0, <1>4

LEMMA HashMergeIs ==
  ASSUME Inv, NEW r \in Runs
  PROVE  /\ BuiltHashes(r) \in Rows /\ RawHashes(r) \in Rows
         /\ DOMAIN BuiltHashes(r) = DOMAIN RawHashes(r) \cap DOMAIN BuiltRows(r)
         /\ DOMAIN RawHashes(r) = DOMAIN loaded[r] \cup DOMAIN rowsOf[r] \cup DOMAIN HashesIn(current)
         /\ \A t \in DOMAIN BuiltHashes(r) : BuiltHashes(r)[t] = RawHashes(r)[t]
         /\ \A t \in DOMAIN loaded[r] : RawHashes(r)[t] = loaded[r][t]
         /\ \A t \in DOMAIN rowsOf[r] \ DOMAIN loaded[r] : RawHashes(r)[t] = rowsOf[r][t]
         /\ \A t \in DOMAIN HashesIn(current) \ (DOMAIN rowsOf[r] \cup DOMAIN loaded[r]) :
              RawHashes(r)[t] = HashesIn(current)[t]
<1> DEFINE g == Over(rowsOf[r], HashesIn(current))
<1>0. HashesIn(current) \in Rows /\ rowsOf[r] \in Rows /\ loaded[r] \in Rows
  BY ServedRowsAre DEF Inv, Shapes
<1>1. RawHashes(r) = Over(loaded[r], g)
  BY DEF RawHashes
<1>2. /\ g \in Rows /\ DOMAIN g = DOMAIN rowsOf[r] \cup DOMAIN HashesIn(current)
      /\ \A t \in DOMAIN rowsOf[r] : g[t] = rowsOf[r][t]
      /\ \A t \in DOMAIN HashesIn(current) \ DOMAIN rowsOf[r] : g[t] = HashesIn(current)[t]
  BY <1>0, OverIs, OverRows
<1> HIDE DEF g
<1>3. /\ RawHashes(r) \in Rows /\ DOMAIN RawHashes(r) = DOMAIN loaded[r] \cup DOMAIN g
      /\ \A t \in DOMAIN loaded[r] : RawHashes(r)[t] = loaded[r][t]
      /\ \A t \in DOMAIN g \ DOMAIN loaded[r] : RawHashes(r)[t] = g[t]
  <2>1. RawHashes(r) \in Rows
    BY <1>0, <1>1, <1>2, OverRows
  <2>2. /\ DOMAIN Over(loaded[r], g) = DOMAIN loaded[r] \cup DOMAIN g
        /\ \A t \in DOMAIN loaded[r] : Over(loaded[r], g)[t] = loaded[r][t]
        /\ \A t \in DOMAIN g \ DOMAIN loaded[r] : Over(loaded[r], g)[t] = g[t]
    BY OverIs
  <2> QED BY <1>1, <2>1, <2>2
<1>4. /\ BuiltHashes(r) \in Rows
      /\ DOMAIN BuiltHashes(r) = DOMAIN RawHashes(r) \cap DOMAIN BuiltRows(r)
      /\ \A t \in DOMAIN BuiltHashes(r) : BuiltHashes(r)[t] = RawHashes(r)[t]
  BY <1>3, RestrictIs DEF BuiltHashes
<1> QED BY <1>0, <1>2, <1>3, <1>4

(* What is reused is, hash and rows, what a reader gets already.           *)
LEMMA ReusedIsServed ==
  ASSUME Inv, NEW r \in Runs, pc[r] = "locked", ReuseUnchanged(r), torn = "no"
  PROVE  /\ \A t \in DOMAIN loaded[r] : /\ t \in reuse[r] /\ t \in DOMAIN RowsIn(current)
                                        /\ loaded[r][t] = RowsIn(current)[t]
         /\ \A t \in DOMAIN rowsOf[r] \cap reuse[r] : /\ t \in DOMAIN RowsIn(current)
                                                      /\ rowsOf[r][t] = RowsIn(current)[t]
<1>1. ServedRun = current
  <2>1. \A q \in Runs : pc[q] # "advanced"
    BY DEF Inv, LockIsHeld, Under
  <2> QED BY <2>1, ServedRunIs DEF Inv
<1>2. \A q \in Runs, t \in Tokens : <<q, t>> \in flagged =>
         t \in DOMAIN RowsIn(current) /\ RowsIn(current)[t] = rowsOf[q][t]
  BY <1>1 DEF Inv, ServedAgrees, AgreesWith
<1>3. \A t \in DOMAIN Published : t \in DOMAIN RowsIn(current) /\ Published[t] = RowsIn(current)[t]
  BY <1>2, PublishedIs, RowsAre
<1>4. ASSUME NEW t \in DOMAIN loaded[r]
      PROVE  t \in reuse[r] /\ t \in DOMAIN RowsIn(current) /\ loaded[r][t] = RowsIn(current)[t]
  <2>1. t \in reuse[r] /\ leg = "soccer"
    BY <1>4 DEF Inv, ReusedIsPublished
  <2>2. loaded[r] = ReusedAuditRows(r)
    BY <2>1 DEF ReuseUnchanged
  <2>3. t \in DOMAIN Published /\ loaded[r][t] = Published[t]
    BY <1>4, <2>2, RestrictIs DEF ReusedAuditRows
  <2> QED BY <1>3, <2>1, <2>3
<1>5. ASSUME NEW t \in DOMAIN rowsOf[r] \cap reuse[r]
      PROVE  t \in DOMAIN RowsIn(current) /\ rowsOf[r][t] = RowsIn(current)[t]
  <2>1. leg # "soccer" /\ rowsOf[r][t] = prior[r][t]
    BY <1>5 DEF Inv, AuditIsOwn, Recorded
  <2>2. PICK q \in Runs : <<q, t>> \in flagged /\ prior[r][t] = rowsOf[q][t]
    BY <1>5, <2>1 DEF Inv, ReusedIsPublished, Recorded
  <2>3. t \in Tokens
    BY <1>5 DEF Inv, Shapes
  <2> QED BY <1>2, <2>1, <2>2, <2>3
<1> QED BY <1>4, <1>5

LEMMA BuiltIsMerge ==
  ASSUME Inv, NEW r \in Runs, pc[r] = "locked", ReuseUnchanged(r)
  PROVE  /\ \A t \in Fresh(r) : t \in DOMAIN BuiltHashes(r) /\ BuiltHashes(r)[t] = rowsOf[r][t]
         /\ torn = "no" => BuiltHashes(r) = BuiltRows(r)
<1>1. ASSUME NEW t \in Fresh(r)
      PROVE  t \in DOMAIN BuiltHashes(r) /\ BuiltHashes(r)[t] = rowsOf[r][t]
  <2>1. t \in DOMAIN rowsOf[r] /\ t \notin reuse[r]
    BY DEF Fresh
  <2>2. t \notin DOMAIN loaded[r]
    BY <2>1 DEF Inv, ReusedIsPublished
  <2>3. t \in DOMAIN BuiltRows(r)
    BY MergeIs
  <2>4. t \in DOMAIN RawHashes(r) /\ RawHashes(r)[t] = rowsOf[r][t]
    BY <2>1, <2>2, HashMergeIs
  <2> QED BY <2>3, <2>4, HashMergeIs
<1>2. ASSUME torn = "no" PROVE BuiltHashes(r) = BuiltRows(r)
  <2>1. ServedRun = current
    <3>1. \A q \in Runs : pc[q] # "advanced"
      BY DEF Inv, LockIsHeld, Under
    <3> QED BY <3>1, ServedRunIs DEF Inv
  <2>2. HashesIn(current) = RowsIn(current)
    BY <1>2, <2>1 DEF Inv, ServedAgrees, AgreesWith
  <2>3. DOMAIN BuiltHashes(r) = DOMAIN BuiltRows(r)
    <3>1. Fresh(r) \subseteq DOMAIN rowsOf[r]
      BY DEF Fresh
    <3> QED BY <2>2, <3>1, MergeIs, HashMergeIs
  <2>4. ASSUME NEW t \in DOMAIN BuiltHashes(r) PROVE BuiltHashes(r)[t] = BuiltRows(r)[t]
    <3>0. BuiltHashes(r)[t] = RawHashes(r)[t] /\ t \in DOMAIN RawHashes(r)
      BY <2>4, HashMergeIs
    <3>1. CASE t \in Fresh(r)
      BY <1>1, <3>1, MergeIs
    <3>2. CASE t \in DOMAIN loaded[r]
      <4>1. t \in reuse[r] /\ t \in DOMAIN RowsIn(current) /\ loaded[r][t] = RowsIn(current)[t]
        BY <1>2, <3>2, ReusedIsServed
      <4>2. t \notin Fresh(r)
        BY <4>1 DEF Fresh
      <4>3. RawHashes(r)[t] = loaded[r][t]
        BY <3>2, HashMergeIs
      <4>4. BuiltRows(r)[t] = RowsIn(current)[t]
        BY <4>1, <4>2, MergeIs
      <4> QED BY <3>0, <4>1, <4>3, <4>4
    <3>3. CASE t \notin Fresh(r) /\ t \notin DOMAIN loaded[r] /\ t \in DOMAIN rowsOf[r]
      <4>1. t \in DOMAIN rowsOf[r] \cap reuse[r]
        BY <3>3 DEF Fresh
      <4>2. t \in DOMAIN RowsIn(current) /\ rowsOf[r][t] = RowsIn(current)[t]
        BY <1>2, <4>1, ReusedIsServed
      <4>3. RawHashes(r)[t] = rowsOf[r][t]
        BY <3>3, HashMergeIs
      <4>4. BuiltRows(r)[t] = RowsIn(current)[t]
        BY <3>3, <4>2, MergeIs
      <4> QED BY <3>0, <4>2, <4>3, <4>4
    <3>4. CASE t \notin Fresh(r) /\ t \notin DOMAIN loaded[r] /\ t \notin DOMAIN rowsOf[r]
      <4>1. t \in DOMAIN HashesIn(current) \ (DOMAIN rowsOf[r] \cup DOMAIN loaded[r])
        BY <3>0, <3>4, HashMergeIs
      <4>2. RawHashes(r)[t] = HashesIn(current)[t]
        BY <4>1, HashMergeIs
      <4>3. BuiltRows(r)[t] = RowsIn(current)[t]
        BY <2>2, <3>4, <4>1, MergeIs
      <4> QED BY <2>2, <3>0, <4>2, <4>3
    <3> QED BY <3>1, <3>2, <3>3, <3>4
  <2> QED BY <2>3, <2>4, MergeIs, HashMergeIs, SameRows
<1> QED BY <1>1, <1>2

LEMMA HolderIsAlone ==
  ASSUME Inv, NEW r \in Runs, pc[r] \in Under
  PROVE  r # NoRun /\ lock = r /\ \A q \in Runs \ {r} : pc[q] \notin Under
BY Constants DEF Inv, LockIsHeld

LEMMA BuildStep ==
  ASSUME Inv, NEW r \in Runs, Build(r)
  PROVE  Inv'
<1> DEFINE snap == [prev |-> current, rows |-> BuiltRows(r), hashes |-> BuiltHashes(r)]
<1>0. /\ pc[r] = "locked" /\ pc[r] \in Under /\ ReuseUnchanged(r) /\ pc' = [pc EXCEPT ![r] = "built"]
      /\ pc'[r] = "built" /\ \A q \in Runs \ {r} : pc'[q] = pc[q]
      /\ UNCHANGED <<leg, window, current, rowsOf, flagged, lock, plan, reuse, prior, loaded, torn>>
  BY DEF Build, world, audit, local, Inv, Shapes, Under
<1>1. snapshots' = Over([s \in {r} |-> snap], snapshots)
  BY DEF Build, MergedRows, BuiltRows, BuiltHashes, RawHashes
<1>2. snap \in Snapshot(r) /\ snap.prev = current /\ snap.rows = BuiltRows(r)
      /\ snap.hashes = BuiltHashes(r) /\ r \notin DOMAIN snapshots /\ current # r
  <2>1. r \notin DOMAIN snapshots
    BY <1>0 DEF Inv, SnapshotsInOrder, Early
  <2>2. current # r /\ current \in Runs \cup {NoRun}
    BY <2>1, Constants DEF Inv, Shapes
  <2> QED BY <2>1, <2>2, MergeIs, HashMergeIs DEF Snapshot
<1> HIDE DEF snap
<1>3. /\ DOMAIN snapshots' = DOMAIN snapshots \cup {r} /\ snapshots'[r] = snap
      /\ \A s \in DOMAIN snapshots : snapshots'[s] = snapshots[s]
  BY <1>1, <1>2 DEF Over
<1>4. Shapes'
  <2>1. pc' \in [Runs -> PCs]
    BY <1>0 DEF Inv, Shapes, PCs
  <2>2. DOMAIN snapshots' \subseteq Runs /\ \A s \in DOMAIN snapshots' : snapshots'[s] \in Snapshot(s)
    BY <1>2, <1>3 DEF Inv, Shapes
  <2> QED BY <1>0, <1>3, <2>1, <2>2 DEF Inv, Shapes, Snapshot
<1>5. LockIsHeld' /\ Alone'
  <2>1. Active' \subseteq Active
    BY <1>0 DEF Active
  <2> QED BY <1>0, <2>1 DEF Inv, LockIsHeld, Under, Alone
<1>6. \A q \in Runs \ {r} : pc'[q] \notin Under
  BY <1>0, HolderIsAlone
<1>7. current \in DOMAIN snapshots \cup {NoRun} /\ RowsIn(current)' = RowsIn(current)
      /\ HashesIn(current)' = HashesIn(current)
  BY <1>0, <1>3 DEF Inv, Shapes, RowsIn, HashesIn
<1>8. SnapshotsInOrder'
  <2>1. InPlace(current)'
    BY <1>0, <1>3, <1>7 DEF Inv, SnapshotsInOrder, InPlace
  <2>2. \A q \in Runs : pc'[q] \in Early \cup {"idle"} => q \notin DOMAIN snapshots'
    BY <1>0, <1>3 DEF Inv, SnapshotsInOrder, Early
  <2>3. \A q \in Runs : pc'[q] = "built" => q \in DOMAIN snapshots' /\ snapshots'[q].prev = current'
    BY <1>0, <1>2, <1>3, <1>6 DEF Under
  <2>4. \A q \in Runs : pc'[q] \notin {"advanced", "committed"}
    BY <1>0, <1>6 DEF Under
  <2> QED BY <2>1, <2>2, <2>3, <2>4 DEF SnapshotsInOrder
<1>9. FlaggedIsOver' /\ OneAuditRow'
  <2>1. \A row \in flagged : row[1] # r /\ row[1] \in Runs
    BY <1>0 DEF Inv, Shapes, FlaggedIsOver, Recorded
  <2> QED BY <1>0, <2>1 DEF Inv, FlaggedIsOver, OneAuditRow
<1>10. AuditIsOwn' /\ ReusedIsPublished'
  <2>1. \A q \in Runs : Fresh(q)' = Fresh(q)
    BY <1>0 DEF Fresh
  <2>2. AuditIsOwn'
    BY <1>0, <2>1 DEF Inv, AuditIsOwn, Recorded
  <2>3. \A q \in Runs :
          /\ pc'[q] \in Recorded \cup {"resolved"} <=> pc[q] \in Recorded \cup {"resolved"}
          /\ pc'[q] \in {"waiting", "locked", "built", "advanced", "committed"}
               <=> pc[q] \in {"waiting", "locked", "built", "advanced", "committed"}
    BY <1>0 DEF Recorded
  <2>4. ReusedIsPublished'
    BY <1>0, <2>3 DEF Inv, ReusedIsPublished
  <2> QED BY <2>2, <2>4
<1>11. SnapshotIsMerge'
  <2>1. /\ snapshots'[r].rows = BuiltRows(r) /\ snapshots'[r].hashes = BuiltHashes(r)
        /\ snapshots'[r].prev = current
    BY <1>2, <1>3
  <2>2. RowsIn(snapshots[r].prev)' = RowsIn(current)
    BY <1>0, <1>7, <2>1 DEF RowsIn
  <2>3. Fresh(r)' = Fresh(r)
    BY <1>0 DEF Fresh
  <2>4. snapshots'[r].rows = Over(Restrict(rowsOf'[r], Fresh(r)'), RowsIn(snapshots[r].prev)')
    BY <1>0, <2>1, <2>2, <2>3 DEF BuiltRows
  <2>5. DOMAIN snapshots'[r].hashes \subseteq DOMAIN snapshots'[r].rows
    BY <2>1, HashMergeIs
  <2>6. /\ \A t \in Fresh(r)' : t \in DOMAIN snapshots'[r].hashes /\ snapshots'[r].hashes[t] = rowsOf'[r][t]
        /\ torn' = "no" => snapshots'[r].hashes = snapshots'[r].rows
    BY <1>0, <2>1, <2>3, BuiltIsMerge
  <2>7. \A q \in Runs : pc'[q] \in Merged => q = r
    BY <1>6 DEF Merged, Under
  <2> QED BY <2>4, <2>5, <2>6, <2>7 DEF SnapshotIsMerge
<1>12. ServedAgrees'
  <2>1. ServedRun = current
    <3>1. \A q \in Runs : pc[q] # "advanced"
      BY <1>0, HolderIsAlone DEF Under
    <3> QED BY <3>1, ServedRunIs DEF Inv
  <2>2. ServedRun' = current
    <3>1. \A q \in Runs : pc'[q] # "advanced"
      BY <1>0, <1>6 DEF Under
    <3> QED BY <1>0, <1>5, <3>1, NextServedRunIs
  <2>3. RowsIn(ServedRun)' = RowsIn(ServedRun) /\ HashesIn(ServedRun)' = HashesIn(ServedRun)
    BY <1>0, <1>7, <2>1, <2>2 DEF RowsIn, HashesIn
  <2> QED BY <1>0, <2>3 DEF Inv, ServedAgrees, AgreesWith
<1> QED BY <1>4, <1>5, <1>8, <1>9, <1>10, <1>11, <1>12 DEF Inv

LEMMA AdvanceStep ==
  ASSUME Inv, NEW r \in Runs, Advance(r)
  PROVE  Inv'
<1>0. /\ pc[r] = "built" /\ pc[r] \in Under /\ pc' = [pc EXCEPT ![r] = "advanced"] /\ current' = r
      /\ pc'[r] = "advanced" /\ \A q \in Runs \ {r} : pc'[q] = pc[q]
      /\ UNCHANGED <<leg, window, snapshots, rowsOf, flagged, lock, plan, reuse, prior, loaded, torn>>
  BY DEF Advance, world, audit, local, Inv, Shapes, Under
<1>1. r \in DOMAIN snapshots /\ snapshots[r].prev = current /\ r # NoRun
      /\ \A q \in Runs \ {r} : pc'[q] \notin Under
  BY <1>0, HolderIsAlone DEF Inv, SnapshotsInOrder
<1>2. Shapes'
  <2>1. pc' \in [Runs -> PCs]
    BY <1>0 DEF Inv, Shapes, PCs
  <2> QED BY <1>0, <1>1, <2>1 DEF Inv, Shapes, Snapshot
<1>3. LockIsHeld' /\ Alone'
  <2>1. Active' \subseteq Active
    BY <1>0 DEF Active
  <2> QED BY <1>0, <2>1 DEF Inv, LockIsHeld, Under, Alone
<1>4. SnapshotsInOrder'
  <2>1. InPlace(current)'
    BY <1>0, <1>1 DEF Inv, Shapes, InPlace
  <2>2. \A q \in Runs : pc'[q] \in Early \cup {"idle"} => q \notin DOMAIN snapshots'
    BY <1>0 DEF Inv, SnapshotsInOrder, Early
  <2>3. \A q \in Runs : pc'[q] # "built" /\ (pc'[q] \in {"advanced", "committed"} => q = r)
    BY <1>0, <1>1 DEF Under
  <2>4. InPlace(snapshots[r].prev)'
    BY <1>0, <1>1 DEF Inv, SnapshotsInOrder, InPlace
  <2> QED BY <1>0, <2>1, <2>2, <2>3, <2>4 DEF SnapshotsInOrder
<1>5. FlaggedIsOver' /\ OneAuditRow'
  <2>1. \A row \in flagged : row[1] # r /\ row[1] \in Runs
    BY <1>0 DEF Inv, Shapes, FlaggedIsOver, Recorded
  <2> QED BY <1>0, <2>1 DEF Inv, FlaggedIsOver, OneAuditRow
<1>6. AuditIsOwn' /\ ReusedIsPublished'
  <2>1. \A q \in Runs : Fresh(q)' = Fresh(q)
    BY <1>0 DEF Fresh
  <2>2. AuditIsOwn'
    BY <1>0, <2>1 DEF Inv, AuditIsOwn, Recorded
  <2> QED BY <1>0, <2>2 DEF Inv, ReusedIsPublished, Recorded
<1>7. SnapshotIsMerge'
  <2>1. \A q \in Runs : RowsIn(snapshots[q].prev)' = RowsIn(snapshots[q].prev) /\ Fresh(q)' = Fresh(q)
    BY <1>0 DEF Fresh, RowsIn
  <2>2. \A q \in Runs : pc'[q] \in Merged => pc[q] \in Merged
    BY <1>0 DEF Merged
  <2> QED BY <1>0, <2>1, <2>2 DEF Inv, SnapshotIsMerge
<1>8. ServedAgrees'
  <2>1. ServedRun = current
    <3>1. \A q \in Runs : pc[q] # "advanced"
      BY <1>0, HolderIsAlone DEF Under
    <3> QED BY <3>1, ServedRunIs DEF Inv
  <2>2. ServedRun' = current
    BY <1>0, <1>1, <1>3, NextServedRunIs
  <2>3. RowsIn(ServedRun)' = RowsIn(ServedRun) /\ HashesIn(ServedRun)' = HashesIn(ServedRun)
    BY <1>0, <2>1, <2>2 DEF RowsIn, HashesIn
  <2> QED BY <1>0, <2>3 DEF Inv, ServedAgrees, AgreesWith
<1> QED BY <1>2, <1>3, <1>4, <1>5, <1>6, <1>7, <1>8 DEF Inv

LEMMA CommitStep ==
  ASSUME Inv, NEW r \in Runs, Commit(r)
  PROVE  Inv'
<1> DEFINE before == RowsIn(snapshots[r].prev)
           rows   == snapshots[r].rows
           full   == DOMAIN rows = Fresh(r)
<1>0. /\ pc[r] = "advanced" /\ pc[r] \in Under /\ pc' = [pc EXCEPT ![r] = "committed"]
      /\ pc'[r] = "committed" /\ \A q \in Runs \ {r} : pc'[q] = pc[q]
      /\ flagged' = Flagged(r) /\ torn' = IF full THEN "no" ELSE torn
      /\ UNCHANGED <<leg, window, snapshots, current, rowsOf, lock, plan, reuse, prior, loaded>>
  BY DEF Commit, world, disk, local, Inv, Shapes, Under
<1>1. current = r /\ r \in DOMAIN snapshots /\ r # NoRun
      /\ snapshots[r] \in Snapshot(r) /\ ServedRun = snapshots[r].prev
      /\ \A q \in Runs \ {r} : pc[q] \notin Under /\ pc'[q] \notin Under
  BY <1>0, HolderIsAlone, ServedRunIs DEF Inv, Shapes, SnapshotsInOrder
<1>2. /\ \A row \in flagged : row \in Runs \X Tokens /\ row[1] # r /\ row[2] \in DOMAIN rowsOf[row[1]]
      /\ DOMAIN rowsOf[r] \subseteq Tokens
  BY <1>0, RowsAre DEF Inv, Shapes, FlaggedIsOver, Recorded
<1>3. \A row \in flagged' : \/ row \in flagged /\ leg # "match" /\ row[2] \notin DOMAIN rowsOf[r]
                            \/ row = <<r, row[2]>> /\ row[1] = r /\ row[2] \in DOMAIN rowsOf[r]
  BY <1>0 DEF Flagged
<1>4. Shapes'
  <2>1. pc' \in [Runs -> PCs]
    BY <1>0 DEF Inv, Shapes, PCs
  <2>2. flagged' \subseteq Runs \X Tokens
    BY <1>2, <1>3
  <2>3. torn' \in {"no", "torn", "guessed"}
    BY <1>0 DEF Inv, Shapes
  <2> QED BY <1>0, <2>1, <2>2, <2>3 DEF Inv, Shapes, Snapshot
<1>5. LockIsHeld' /\ Alone'
  <2>1. Active' \subseteq Active
    BY <1>0 DEF Active
  <2> QED BY <1>0, <2>1 DEF Inv, LockIsHeld, Under, Alone
<1>6. SnapshotsInOrder'
  <2>1. \A q \in Runs : pc'[q] \notin {"built", "advanced"} /\ (pc'[q] = "committed" => q = r)
    BY <1>0, <1>1 DEF Under
  <2>2. \A q \in Runs : pc'[q] \in Early \cup {"idle"} => q \notin DOMAIN snapshots'
    BY <1>0 DEF Inv, SnapshotsInOrder, Early
  <2>3. InPlace(current)'
    BY <1>0 DEF Inv, SnapshotsInOrder, InPlace
  <2> QED BY <1>0, <1>1, <2>1, <2>2, <2>3 DEF SnapshotsInOrder
<1>7. FlaggedIsOver'
  <2>1. \A row \in flagged' : pc'[row[1]] \notin {"idle", "planned", "resolved"} \cup Recorded
    BY <1>0, <1>2, <1>3 DEF Inv, FlaggedIsOver, Recorded
  <2>2. \A row \in flagged' : row[2] \in DOMAIN rowsOf'[row[1]]
    BY <1>0, <1>2, <1>3
  <2> QED BY <1>0, <2>1, <2>2 DEF Inv, FlaggedIsOver
<1>8. AuditIsOwn'
  <2>1. \A q \in Runs : Fresh(q)' = Fresh(q)
    BY <1>0 DEF Fresh
  <2> QED BY <1>0, <2>1 DEF Inv, AuditIsOwn, Recorded
<1>9. ReusedIsPublished'
  <2>1. \A q \in Runs : leg # "soccer" => pc'[q] \notin Recorded \cup {"resolved"}
    <3> TAKE q \in Runs
    <3> HAVE leg # "soccer"
    <3>1. q \in Active /\ r \in Active => q = r
      BY DEF Inv, Alone
    <3>2. r \in Active
      BY <1>0 DEF Active
    <3> QED BY <1>0, <3>1, <3>2 DEF Active, Recorded
  <2>2. \A q \in Runs : pc'[q] \in {"waiting", "locked", "built", "advanced", "committed"}
                          <=> pc[q] \in {"waiting", "locked", "built", "advanced", "committed"}
    BY <1>0
  <2> QED BY <1>0, <2>1, <2>2 DEF Inv, ReusedIsPublished
<1>10. SnapshotIsMerge'
  BY <1>0, <1>1 DEF SnapshotIsMerge, Merged, Under
<1>11. OneAuditRow'
  <2>1. \A row, other \in flagged' : row[2] = other[2] => row = other
    BY <1>2, <1>3 DEF Inv, OneAuditRow
  <2> QED BY <2>1 DEF OneAuditRow
<1>12. /\ rows = Over(Restrict(rowsOf[r], Fresh(r)), before)
       /\ DOMAIN snapshots[r].hashes \subseteq DOMAIN rows
       /\ \A t \in Fresh(r) : t \in DOMAIN snapshots[r].hashes /\ snapshots[r].hashes[t] = rowsOf[r][t]
       /\ torn = "no" => snapshots[r].hashes = rows
  BY <1>0 DEF Inv, SnapshotIsMerge, Merged
<1> HIDE DEF before, rows
<1>13. /\ DOMAIN rows = Fresh(r) \cup DOMAIN before
       /\ \A t \in Fresh(r) : rows[t] = rowsOf[r][t]
       /\ \A t \in DOMAIN before \ Fresh(r) : rows[t] = before[t]
       /\ Fresh(r) = DOMAIN rowsOf[r] \ reuse[r]
  <2> DEFINE f == Restrict(rowsOf[r], Fresh(r))
  <2>1. /\ DOMAIN f = Fresh(r) /\ \A t \in Fresh(r) : f[t] = rowsOf[r][t]
        /\ Fresh(r) = DOMAIN rowsOf[r] \ reuse[r]
    BY FreshRowsAre DEF Inv
  <2>2. rows = Over(f, before)
    BY <1>12
  <2> HIDE DEF f
  <2>3. /\ DOMAIN Over(f, before) = DOMAIN f \cup DOMAIN before
        /\ \A t \in DOMAIN f : Over(f, before)[t] = f[t]
        /\ \A t \in DOMAIN before \ DOMAIN f : Over(f, before)[t] = before[t]
    BY OverIs
  <2> QED BY <2>1, <2>2, <2>3
<1>14. /\ \A row \in flagged : row[2] \in DOMAIN before
       /\ torn # "torn" => \A row \in flagged : before[row[2]].window = rowsOf[row[1]][row[2]].window
       /\ torn = "no" => \A row \in flagged : before[row[2]] = rowsOf[row[1]][row[2]]
  BY <1>1 DEF Inv, ServedAgrees, AgreesWith, before
(* A reused token of a WC2026 leg: some published row is the one recorded. *)
<1>15. \A t \in DOMAIN rowsOf[r] \cap reuse[r] :
         \E q \in Runs : <<q, t>> \in flagged /\ rowsOf[r][t] = rowsOf[q][t]
  <2> TAKE t \in DOMAIN rowsOf[r] \cap reuse[r]
  <2>1. leg # "soccer" /\ rowsOf[r][t] = prior[r][t]
    BY <1>0 DEF Inv, AuditIsOwn, Recorded
  <2> QED BY <1>0, <2>1 DEF Inv, ReusedIsPublished, Recorded
<1>16. \A row \in flagged' :
         /\ row[2] \in DOMAIN rows
         /\ full => rows[row[2]] = rowsOf[row[1]][row[2]]
         /\ torn # "torn" => rows[row[2]].window = rowsOf[row[1]][row[2]].window
         /\ torn = "no" => rows[row[2]] = rowsOf[row[1]][row[2]]
  <2> TAKE row \in flagged'
  <2>1. CASE row \in flagged /\ row[2] \notin DOMAIN rowsOf[r]
    BY <1>13, <1>14, <2>1
  <2>2. CASE row[1] = r /\ row[2] \in Fresh(r)
    BY <1>13, <2>2
  <2>3. CASE row[1] = r /\ row[2] \in DOMAIN rowsOf[r] \cap reuse[r]
    <3>1. PICK q \in Runs : <<q, row[2]>> \in flagged /\ rowsOf[r][row[2]] = rowsOf[q][row[2]]
      BY <1>15, <2>3
    <3>2. row[2] \in DOMAIN before \ Fresh(r)
      BY <1>13, <1>14, <2>3, <3>1
    <3>3. /\ torn # "torn" => before[row[2]].window = rowsOf[q][row[2]].window
          /\ torn = "no" => before[row[2]] = rowsOf[q][row[2]]
      BY <1>14, <3>1
    <3> QED BY <1>13, <2>3, <3>1, <3>2, <3>3
  <2> QED BY <1>3, <1>13, <2>1, <2>2, <2>3
<1>17. torn' = "no" => snapshots[r].hashes = rows
  <2>1. CASE full
    <3>1. DOMAIN snapshots[r].hashes = DOMAIN rows
      BY <1>12, <2>1
    <3>2. \A t \in DOMAIN rows : snapshots[r].hashes[t] = rows[t]
      BY <1>12, <1>13, <2>1
    <3>3. snapshots[r].hashes \in Rows /\ rows \in Rows
      BY <1>1 DEF Snapshot, rows
    <3> QED BY <3>1, <3>2, <3>3, SameRows
  <2>2. CASE ~full
    BY <1>0, <1>12, <2>2
  <2> QED BY <2>1, <2>2
<1>18. ServedAgrees'
  <2>1. ServedRun' = r
    <3>1. \A q \in Runs : pc'[q] # "advanced"
      BY <1>0, <1>1 DEF Under
    <3> QED BY <1>0, <1>1, <1>5, <3>1, NextServedRunIs
  <2>2. RowsIn(ServedRun)' = rows /\ HashesIn(ServedRun)' = snapshots[r].hashes
    BY <1>0, <1>1, <2>1 DEF RowsIn, HashesIn, rows
  <2>3. /\ torn' # "torn" => full \/ torn # "torn"
        /\ torn' = "no" => full \/ torn = "no"
    BY <1>0
  <2> QED BY <1>0, <1>16, <1>17, <2>2, <2>3 DEF ServedAgrees, AgreesWith
<1> QED BY <1>4, <1>5, <1>6, <1>7, <1>8, <1>9, <1>10, <1>11, <1>18 DEF Inv

(* A run that has the lock is over: CURRENT, its predecessor and its rows  *)
(* are all there is to show.                                               *)
LEMMA HolderEnds ==
  ASSUME Inv, NEW r \in Runs, pc[r] \in Under,
         NEW how \in {"publish_error", "crashed", "published"},
         Ends(r, how), UNCHANGED <<leg, window, flagged>>, torn' \in {"no", "torn", "guessed"},
         rowsOf' = rowsOf \/ (pc[r] # "committed" /\ rowsOf' = [rowsOf EXCEPT ![r] = Empty]),
         lock' = NoRun,
         DOMAIN snapshots' \subseteq DOMAIN snapshots,
         \A s \in DOMAIN snapshots' : snapshots'[s] = snapshots[s],
         current' \in DOMAIN snapshots' \cup {NoRun}, InPlace(current)',
         \A row \in flagged : row[2] \in DOMAIN RowsIn(current'),
         torn' # "torn" => \A row \in flagged : RowsIn(current')[row[2]].window = rowsOf[row[1]][row[2]].window,
         torn' = "no" => \A row \in flagged : RowsIn(current')[row[2]] = rowsOf[row[1]][row[2]],
         torn' = "no" => HashesIn(current') = RowsIn(current')
  PROVE  Inv'
<1>0. lock = r /\ \A q \in Runs \ {r} : pc[q] \notin Under
  BY HolderIsAlone
<1>1. /\ Shapes' /\ LockIsHeld' /\ Alone' /\ FlaggedIsOver' /\ AuditIsOwn' /\ ReusedIsPublished'
      /\ OneAuditRow'
      /\ \A row \in flagged : rowsOf'[row[1]] = rowsOf[row[1]]
  BY <1>0, AnyEnd
<1>2. \A q \in Runs : pc'[q] \notin Under /\ (pc'[q] \in Early \cup {"idle"} => pc'[q] = pc[q])
  BY <1>0 DEF Inv, Shapes, Ends, Under, Early
<1>3. SnapshotsInOrder' /\ SnapshotIsMerge'
  BY <1>2 DEF Inv, SnapshotsInOrder, SnapshotIsMerge, Merged, Under
<1>4. ServedAgrees'
  <2>1. ServedRun' = current'
    BY <1>1, <1>2, NextServedRunIs DEF Under
  <2>2. RowsIn(ServedRun)' = RowsIn(current') /\ HashesIn(ServedRun)' = HashesIn(current')
    <3>1. current' = NoRun \/ (current' \in DOMAIN snapshots' /\ snapshots'[current'] = snapshots[current'])
      OBVIOUS
    <3> QED BY <2>1, <3>1 DEF RowsIn, HashesIn
  <2> QED BY <1>1, <2>2 DEF ServedAgrees, AgreesWith
<1> QED BY <1>1, <1>3, <1>4 DEF Inv

(* Where the rows a reader gets are: in CURRENT or, before the commit, in  *)
(* its predecessor.                                                        *)
LEMMA HolderServes ==
  ASSUME Inv, NEW r \in Runs, pc[r] \in Under
  PROVE  /\ pc[r] # "advanced" => ServedRun = current
         /\ pc[r] = "advanced" => current = r /\ ServedRun = snapshots[r].prev /\ r \in DOMAIN snapshots
<1>1. \A q \in Runs \ {r} : pc[q] # "advanced"
  BY HolderIsAlone DEF Under
<1>2. pc[r] = "advanced" => current = r /\ r \in DOMAIN snapshots
  BY HolderIsAlone DEF Inv, SnapshotsInOrder, Shapes
<1>3. pc[r] = "advanced" => ServedRun = snapshots[r].prev
  BY ServedRunIs DEF Inv
<1>4. pc[r] # "advanced" => ServedRun = current
  <2> HAVE pc[r] # "advanced"
  <2>1. \A q \in Runs : pc[q] # "advanced"
    BY <1>1
  <2> QED BY <2>1, ServedRunIs DEF Inv
<1> QED BY <1>2, <1>3, <1>4

LEMMA RegisterFailsStep ==
  ASSUME Inv, NEW r \in Runs, RegisterFails(r)
  PROVE  Inv'
<1>0. /\ pc[r] = "advanced" /\ pc[r] \in Under /\ pc[r] # "committed"
      /\ current' = snapshots[r].prev /\ lock' = NoRun /\ Ends(r, "publish_error")
      /\ (rowsOf' = rowsOf \/ rowsOf' = [rowsOf EXCEPT ![r] = Empty])
      /\ UNCHANGED <<leg, window, snapshots, flagged, torn>>
  BY DEF RegisterFails, RollBackTo, Fails, Under, world
<1>1. ServedRun = current' /\ InPlace(snapshots[r].prev)
  BY <1>0, HolderServes DEF Inv, SnapshotsInOrder
<1>2. current' \in DOMAIN snapshots' \cup {NoRun} /\ InPlace(current)'
  BY <1>0, <1>1 DEF InPlace
<1>3. AgreesWith(current')
  BY <1>1 DEF Inv, ServedAgrees
<1>4. torn' \in {"no", "torn", "guessed"}
  BY <1>0 DEF Inv, Shapes
<1> QED BY <1>0, <1>2, <1>3, <1>4, HolderEnds DEF AgreesWith

LEMMA RetainStep ==
  ASSUME Inv, NEW r \in Runs, Retain(r)
  PROVE  Inv'
<1>0. /\ pc[r] = "committed" /\ pc[r] \in Under /\ lock' = NoRun /\ Ends(r, "published")
      /\ UNCHANGED <<leg, window, current, rowsOf, flagged, torn>>
  BY DEF Retain, Under, world, audit
<1>1. PICK kept \in SUBSET (DOMAIN snapshots \ Protected) :
        snapshots' = Restrict(snapshots, kept \cup (DOMAIN snapshots \cap Protected))
  BY DEF Retain
<1>2. /\ DOMAIN snapshots' = kept \cup (DOMAIN snapshots \cap Protected)
      /\ \A s \in DOMAIN snapshots' : snapshots'[s] = snapshots[s]
  BY <1>1 DEF Restrict
<1>3. current = r /\ r # NoRun /\ r \in DOMAIN snapshots /\ InPlace(r)
  BY <1>0, HolderIsAlone DEF Inv, Shapes, SnapshotsInOrder
<1>4. current' \in DOMAIN snapshots' \cup {NoRun} /\ InPlace(current)'
  <2>1. snapshots[r].prev \in DOMAIN snapshots' \cup {NoRun} /\ r \in DOMAIN snapshots'
    BY <1>2, <1>3 DEF InPlace, Protected
  <2> QED BY <1>0, <1>2, <1>3, <2>1 DEF InPlace
<1>5. AgreesWith(current')
  BY <1>0, HolderServes DEF Inv, ServedAgrees
<1>6. torn' \in {"no", "torn", "guessed"} /\ DOMAIN snapshots' \subseteq DOMAIN snapshots
  BY <1>0, <1>2 DEF Inv, Shapes
<1> QED BY <1>0, <1>2, <1>4, <1>5, <1>6, HolderEnds DEF AgreesWith

(* A merge keeps every token of the rows it is merged into. *)
LEMMA MergeKeepsTokens ==
  ASSUME Inv, NEW r \in Runs, pc[r] \in Merged
  PROVE  /\ DOMAIN snapshots[r].rows = Fresh(r) \cup DOMAIN RowsIn(snapshots[r].prev)
         /\ \A t \in Fresh(r) : snapshots[r].rows[t] = rowsOf[r][t]
         /\ \A t \in DOMAIN RowsIn(snapshots[r].prev) \ Fresh(r) :
              snapshots[r].rows[t] = RowsIn(snapshots[r].prev)[t]
<1> DEFINE f == Restrict(rowsOf[r], Fresh(r))
           before == RowsIn(snapshots[r].prev)
<1>1. DOMAIN f = Fresh(r) /\ \A t \in Fresh(r) : f[t] = rowsOf[r][t]
  BY FreshRowsAre DEF Inv
<1>2. snapshots[r].rows = Over(f, before)
  BY DEF Inv, SnapshotIsMerge
<1> HIDE DEF f, before
<1>3. /\ DOMAIN Over(f, before) = DOMAIN f \cup DOMAIN before
      /\ \A t \in DOMAIN f : Over(f, before)[t] = f[t]
      /\ \A t \in DOMAIN before \ DOMAIN f : Over(f, before)[t] = before[t]
  BY OverIs
<1> QED BY <1>1, <1>2, <1>3 DEF before

LEMMA CrashStep ==
  ASSUME Inv, NEW r \in Runs, Crash(r)
  PROVE  Inv'
<1>0. /\ pc[r] \in Early \cup Under /\ lock' = (IF lock = r THEN NoRun ELSE lock)
      /\ Ends(r, IF pc[r] = "committed" THEN "published" ELSE "crashed")
      /\ torn' = (IF pc[r] = "advanced" THEN "torn" ELSE torn)
      /\ UNCHANGED <<world, disk, rowsOf, flagged>>
      /\ UNCHANGED <<leg, window, snapshots, current>>
  BY DEF Crash, Active, Early, Under, LockAfterCrash, LeavesTorn, world, disk, audit
<1>1. CASE pc[r] \in Early
  <2>1. Ends(r, "crashed") /\ torn' = torn
    BY <1>0, <1>1 DEF Early
  <2> QED BY <1>0, <1>1, <2>1, EarlyEnd
<1>2. CASE pc[r] \in Under
  <2> DEFINE how == IF pc[r] = "committed" THEN "published" ELSE "crashed"
  <2>1. lock' = NoRun /\ how \in {"publish_error", "crashed", "published"} /\ Ends(r, how)
    BY <1>0, <1>2, HolderIsAlone
  <2> HIDE DEF how
  <2>2. /\ current' \in DOMAIN snapshots' \cup {NoRun} /\ InPlace(current)'
        /\ torn' \in {"no", "torn", "guessed"} /\ DOMAIN snapshots' \subseteq DOMAIN snapshots
        /\ \A s \in DOMAIN snapshots' : snapshots'[s] = snapshots[s]
    BY <1>0 DEF Inv, Shapes, SnapshotsInOrder, InPlace
  <2>3. CASE pc[r] # "advanced"
    <3>1. AgreesWith(current') /\ torn' = torn
      BY <1>0, <1>2, <2>3, HolderServes DEF Inv, ServedAgrees
    <3> QED BY <1>0, <1>2, <2>1, <2>2, <3>1, HolderEnds DEF AgreesWith
  <2>4. CASE pc[r] = "advanced"
    <3>1. current' = r /\ r # NoRun /\ ServedRun = snapshots[r].prev /\ torn' = "torn"
      BY <1>0, <1>2, <2>4, HolderServes, HolderIsAlone
    <3>2. \A row \in flagged : row[2] \in DOMAIN RowsIn(snapshots[r].prev)
      BY <3>1 DEF Inv, ServedAgrees, AgreesWith
    <3>3. \A row \in flagged : row[2] \in DOMAIN RowsIn(current')
      BY <2>4, <3>1, <3>2, MergeKeepsTokens DEF Merged, RowsIn
    <3> QED BY <1>0, <1>2, <2>1, <2>2, <3>1, <3>3, HolderEnds
  <2> QED BY <2>3, <2>4
<1> QED BY <1>0, <1>1, <1>2

(* Nobody is at work when the operator's script runs.                      *)
LEMMA ReconcileStep ==
  ASSUME Inv, NEW r \in Runs, Reconcile(r)
  PROVE  Inv'
<1>0. /\ leg # "soccer" /\ Active = {} /\ current # NoRun /\ Fits(r)
      /\ flagged' = {<<r, t>> : t \in DOMAIN rowsOf[r]}
      /\ torn' = IF FitsExactly(r) /\ HashesIn(current) = RowsIn(current) THEN "no" ELSE "guessed"
      /\ UNCHANGED <<leg, window, snapshots, current, rowsOf, lock, pc, plan, reuse, prior, loaded>>
  BY DEF Reconcile, world, disk, local
<1>1. \A q \in Runs : pc[q] \notin Early \cup Under /\ pc[q] \notin Recorded
  BY <1>0 DEF Active, Early, Under, Recorded
<1>2. DOMAIN rowsOf[r] \subseteq Tokens /\ (pc[r] = "idle" => DOMAIN rowsOf[r] = {})
  BY RowsAre DEF Inv, Shapes, FlaggedIsOver
<1>3. \A row \in flagged' : row = <<r, row[2]>> /\ row[1] = r /\ row[2] \in DOMAIN rowsOf[r]
  BY <1>0
<1>4. Shapes'
  <2>1. flagged' \subseteq Runs \X Tokens
    BY <1>0, <1>2
  <2>2. torn' \in {"no", "torn", "guessed"}
    BY <1>0
  <2> QED BY <1>0, <2>1, <2>2 DEF Inv, Shapes, Snapshot
<1>5. LockIsHeld' /\ Alone' /\ SnapshotsInOrder'
  BY <1>0 DEF Inv, LockIsHeld, Alone, Active, SnapshotsInOrder, InPlace
<1>6. FlaggedIsOver'
  <2>1. \A row \in flagged' : pc'[row[1]] \notin {"idle", "planned", "resolved"} \cup Recorded
    BY <1>0, <1>1, <1>2, <1>3 DEF Early
  <2>2. \A row \in flagged' : row[2] \in DOMAIN rowsOf'[row[1]]
    BY <1>0, <1>3
  <2> QED BY <1>0, <2>1, <2>2 DEF Inv, FlaggedIsOver
<1>7. AuditIsOwn' /\ ReusedIsPublished' /\ SnapshotIsMerge'
  <2>1. AuditIsOwn'
    BY <1>0, <1>1 DEF Inv, AuditIsOwn, Early
  <2>2. ReusedIsPublished'
    BY <1>0, <1>1 DEF Inv, ReusedIsPublished, Early
  <2>3. SnapshotIsMerge'
    BY <1>0, <1>1 DEF SnapshotIsMerge, Merged, Under
  <2> QED BY <2>1, <2>2, <2>3
<1>8. OneAuditRow'
  BY <1>3 DEF OneAuditRow
<1>9. ServedAgrees'
  <2>1. ServedRun' = current
    BY <1>0, <1>1, <1>5, NextServedRunIs DEF Under
  <2>2. RowsIn(ServedRun)' = RowsIn(current) /\ HashesIn(ServedRun)' = HashesIn(current)
    BY <1>0, <2>1 DEF RowsIn, HashesIn
  <2>3. \A row \in flagged' : /\ row[2] \in DOMAIN RowsIn(current)
                              /\ RowsIn(current)[row[2]].window = rowsOf[row[1]][row[2]].window
                              /\ FitsExactly(r) => RowsIn(current)[row[2]] = rowsOf[row[1]][row[2]]
    BY <1>0, <1>3 DEF Fits, FitsExactly
  <2> QED BY <1>0, <2>2, <2>3 DEF ServedAgrees, AgreesWith
<1> QED BY <1>4, <1>5, <1>6, <1>7, <1>8, <1>9 DEF Inv

-----------------------------------------------------------------------------
(* The invariant of the specification.                                     *)

LEMMA StepInv ==
  ASSUME Inv, NEW r \in Runs, Step(r)
  PROVE  Inv'
<1>1. CASE ResolveReuse(r) \/ ResolveSoccer(r)
  BY <1>1, ResolveReuseStep, ResolveSoccerStep
<1>2. CASE RecordFetch(r) \/ LoadReused(r)
  BY <1>2, RecordFetchStep, LoadReusedStep
<1>3. CASE TakeLock(r) \/ ReuseChanged(r)
  BY <1>3, TakeLockStep, ReuseChangedStep
<1>4. CASE Build(r) \/ Advance(r) \/ Commit(r)
  BY <1>4, BuildStep, AdvanceStep, CommitStep
<1>5. CASE RegisterFails(r) \/ Retain(r)
  BY <1>5, RegisterFailsStep, RetainStep
<1> QED BY <1>1, <1>2, <1>3, <1>4, <1>5 DEF Step

LEMMA NextInv == Inv /\ [Next]_vars => Inv'
<1> SUFFICES ASSUME Inv, [Next]_vars PROVE Inv'
  OBVIOUS
<1>1. ASSUME NEW r \in Runs, Plan(r) \/ Step(r) \/ Crash(r) \/ Reconcile(r)
      PROVE  Inv'
  BY <1>1, PlanStep, StepInv, CrashStep, ReconcileStep
<1>2. ASSUME NEW t \in Tokens, ChangeWindow(t)
      PROVE  Inv'
  <2>1. window' \in [Tokens -> Windows]
    BY <1>2 DEF ChangeWindow, Inv, Shapes
  <2> QED BY <1>2, <2>1, QuietStep DEF ChangeWindow, disk, audit, local
<1>3. CASE UNCHANGED vars
  <2>1. window' \in [Tokens -> Windows]
    BY <1>3 DEF vars, world, Inv, Shapes
  <2> QED BY <1>3, <2>1, QuietStep DEF vars, world, disk, audit, local
<1> QED BY <1>1, <1>2, <1>3 DEF Next

LEMMA InvHolds == Spec => []Inv
BY InitInv, NextInv, PTL DEF Spec

-----------------------------------------------------------------------------
(* What a reader and an operator can rely on.                              *)

(* CURRENT, its manifest and the published rows of the audit are one       *)
(* publication whenever no publisher is at work and no crash has torn them *)
(* apart, however many runs overlapped, failed or died on the way there.   *)
THEOREM PublicationsAgree == Spec => []PublicationAgrees
<1>1. Inv => PublicationAgrees
  <2> SUFFICES ASSUME Inv PROVE PublicationAgrees
    OBVIOUS
  <2>1. OnePublication
    <3> SUFFICES ASSUME lock = NoRun, torn # "torn", NEW row \in flagged
                 PROVE  /\ row[2] \in DOMAIN RowsIn(current)
                        /\ RowsIn(current)[row[2]].window = rowsOf[row[1]][row[2]].window
                        /\ torn = "no" => RowsIn(current)[row[2]] = rowsOf[row[1]][row[2]]
      BY DEF OnePublication
    <3>1. \A q \in Runs : pc[q] # "advanced"
      BY Constants DEF Inv, LockIsHeld, Under
    <3>2. ServedRun = current
      BY <3>1, ServedRunIs DEF Inv
    <3> QED BY <3>2 DEF Inv, ServedAgrees, AgreesWith
  <2>2. ManifestDescribesRows
    <3> SUFFICES ASSUME torn = "no", NEW s \in DOMAIN snapshots \cap {current, lock}
                 PROVE  snapshots[s].hashes = snapshots[s].rows
      BY DEF ManifestDescribesRows
    <3>1. s \in Runs /\ s # NoRun
      BY Constants DEF Inv, Shapes
    <3>2. CASE pc[s] \in Merged
      BY <3>1, <3>2 DEF Inv, SnapshotIsMerge
    <3>3. CASE pc[s] \notin Merged /\ s = current
      <4>1. \A q \in Runs : pc[q] # "advanced"
        BY <3>1, <3>3 DEF Inv, SnapshotsInOrder, Merged
      <4>2. ServedRun = s
        BY <3>3, <4>1, ServedRunIs DEF Inv
      <4> QED BY <3>1, <4>2 DEF Inv, ServedAgrees, AgreesWith, RowsIn, HashesIn
    <3>4. CASE pc[s] \notin Merged /\ s = lock /\ s # current
      <4>1. pc[s] \in {"locked", "committed"}
        BY <3>1, <3>4 DEF Inv, LockIsHeld, Under, Merged
      <4> QED BY <3>1, <3>4, <4>1 DEF Inv, SnapshotsInOrder, Early
    <3> QED BY <3>2, <3>3, <3>4
  <2> QED BY <2>1, <2>2 DEF Inv, PublicationAgrees
<1> QED BY <1>1, InvHolds, PTL

(* No snapshot that somebody needs is cleaned up or left dangling, wherever *)
(* publishers fail or die.                                                 *)
THEOREM SnapshotsAreNeverLost == Spec => []SnapshotsAreKept
<1>1. Inv => SnapshotsAreKept
  <2> SUFFICES ASSUME Inv PROVE SnapshotsAreKept
    OBVIOUS
  <2>1. TypeOK
    <3>1. \A row \in flagged : row[1] \in Runs /\ row[2] \in DOMAIN rowsOf[row[1]]
      BY DEF Inv, Shapes, FlaggedIsOver
    <3>2. \A r \in Runs : /\ plan[r] \in UNION {[D -> Windows] : D \in SUBSET Tokens}
                          /\ reuse[r] \subseteq DOMAIN plan[r]
                          /\ prior[r] \in Rows /\ loaded[r] \in Rows
      BY DEF Inv, Shapes, Plans
    <3> QED BY <3>1, <3>2 DEF Inv, Shapes, Snapshot, PCs, TypeOK
  <2>2. CurrentIsKept
    BY DEF Inv, SnapshotsInOrder, InPlace, CurrentIsKept
  <2>3. PublishedTokenIsServed
    <3> SUFFICES ASSUME NEW row \in flagged PROVE row[2] \in DOMAIN RowsIn(current)
      BY DEF PublishedTokenIsServed
    <3>1. row[2] \in DOMAIN RowsIn(ServedRun)
      BY DEF Inv, ServedAgrees, AgreesWith
    <3>2. CASE \E r \in Runs : pc[r] = "advanced"
      <4>1. PICK r \in Runs : pc[r] = "advanced"
        BY <3>2
      <4>2. /\ current = r /\ ServedRun = snapshots[r].prev /\ r # NoRun
            /\ DOMAIN RowsIn(snapshots[r].prev) \subseteq DOMAIN snapshots[r].rows
        BY <4>1, HolderServes, HolderIsAlone, MergeKeepsTokens DEF Under, Merged
      <4> QED BY <3>1, <4>2 DEF RowsIn
    <3>3. CASE \A r \in Runs : pc[r] # "advanced"
      BY <3>1, <3>3, ServedRunIs DEF Inv
    <3> QED BY <3>2, <3>3
  <2> QED BY <2>1, <2>2, <2>3 DEF SnapshotsAreKept
<1> QED BY <1>1, InvHolds, PTL

-----------------------------------------------------------------------------
(* What a step may do.                                                     *)

(* What a step that moves CURRENT has done. *)
LEMMA CurrentMoves ==
  ASSUME Inv, [Next]_vars, current' # current
  PROVE  \E r \in Runs :
           \/ pc[r] = "built" /\ current' = r
           \/ pc[r] = "advanced" /\ current' = snapshots[r].prev
<1>1. ~UNCHANGED vars
  BY DEF vars, disk
<1>2. \A t \in Tokens : ~ChangeWindow(t)
  BY DEF ChangeWindow, disk
<1>3. PICK r \in Runs : Plan(r) \/ Step(r) \/ Crash(r) \/ Reconcile(r)
  BY <1>1, <1>2 DEF Next
<1>4. ~Plan(r) /\ ~Crash(r) /\ ~Reconcile(r)
  BY DEF Plan, Crash, Reconcile, disk
<1>5. ~ResolveReuse(r) /\ ~ResolveSoccer(r) /\ ~RecordFetch(r) /\ ~LoadReused(r)
      /\ ~TakeLock(r) /\ ~ReuseChanged(r)
  BY DEF ResolveReuse, ResolveSoccer, RecordFetch, LoadReused, TakeLock, ReuseChanged, disk
<1>6. ~Build(r) /\ ~Commit(r) /\ ~Retain(r)
  BY DEF Build, Commit, Retain, disk
<1>7. Advance(r) \/ RegisterFails(r)
  BY <1>3, <1>4, <1>5, <1>6 DEF Step
<1> QED BY <1>7 DEF Advance, RegisterFails, RollBackTo

(* CURRENT moves on to a snapshot that has kept every row its run did not  *)
(* fetch, or back to the predecessor: a publication takes nothing away.    *)
THEOREM PublicationKeepsRows == Spec => PriorRowsKept
<1> DEFINE Kept ==
      \/ current = NoRun
      \/ current' = snapshots[current].prev
      \/ \A t \in DOMAIN RowsIn(current) \ Fresh(current') :
           /\ t \in DOMAIN RowsIn(current')
           /\ RowsIn(current')[t] = RowsIn(current)[t]
<1>1. Inv /\ [Next]_vars => [Kept]_current
  <2> SUFFICES ASSUME Inv, [Next]_vars, current' # current PROVE Kept
    OBVIOUS
  <2>1. PICK r \in Runs : \/ pc[r] = "built" /\ current' = r
                          \/ pc[r] = "advanced" /\ current' = snapshots[r].prev
    BY CurrentMoves
  <2>2. CASE pc[r] = "advanced" /\ current' = snapshots[r].prev
    <3>1. current = r
      BY <2>2 DEF Inv, SnapshotsInOrder
    <3> QED BY <2>2, <3>1
  <2>3. CASE pc[r] = "built" /\ current' = r
    <3>1. snapshots[r].prev = current /\ r # NoRun
      BY <2>3, Constants DEF Inv, SnapshotsInOrder
    <3>2. /\ DOMAIN snapshots[r].rows = Fresh(r) \cup DOMAIN RowsIn(current)
          /\ \A t \in DOMAIN RowsIn(current) \ Fresh(r) : snapshots[r].rows[t] = RowsIn(current)[t]
      BY <2>3, <3>1, MergeKeepsTokens DEF Merged
    <3>3. RowsIn(current') = snapshots[r].rows
      BY <2>3, <3>1 DEF RowsIn
    <3> QED BY <2>3, <3>2, <3>3
  <2> QED BY <2>1, <2>2, <2>3
<1>2. Spec => [][Kept]_current
  BY <1>1, InvHolds, PTL DEF Spec
<1> QED BY <1>2 DEF PriorRowsKept

(* A match run's merge holds its tokens and no others, so that its row     *)
(* count is never in the way.                                              *)
LEMMA MatchCounts ==
  ASSUME Inv, NEW r \in Runs, pc[r] = "advanced"
  PROVE  RowCountOK(r)
<1> SUFFICES ASSUME leg = "match", reuse[r] = {} PROVE DOMAIN snapshots[r].rows = Fresh(r)
  BY DEF RowCountOK
<1>1. Fresh(r) = Tokens
  BY DEF Inv, AuditIsOwn, Recorded, Fresh
<1>2. DOMAIN snapshots[r].rows = Fresh(r) \cup DOMAIN RowsIn(snapshots[r].prev)
  BY MergeKeepsTokens DEF Merged
<1>3. snapshots[r].rows \in Rows
  BY HolderServes DEF Inv, Shapes, Snapshot, Under
<1> QED BY <1>1, <1>2, <1>3, RowsAre

(* The match leg publishes what it has fetched.  The row count is compared *)
(* with the shards of the run alone; were the merge to hold another token, *)
(* every publication of the leg would fail from then on.                   *)
THEOREM MatchRunsPublish ==
  ASSUME "match" \in Legs => "register" \notin Faults["match"]
  PROVE  Spec => FetchedRunPublishes
<1> DEFINE Publishes ==
      leg = "match" => \A r \in Runs : pc'[r] = "publish_error" => pc[r] = "publish_error"
<1>1. Inv /\ [Next]_vars => [Publishes]_pc
  <2> SUFFICES ASSUME Inv, [Next]_vars, pc' # pc, leg = "match", NEW q \in Runs, pc'[q] = "publish_error"
               PROVE  pc[q] = "publish_error"
    OBVIOUS
  <2>1. \A t \in Tokens : ~ChangeWindow(t)
    BY DEF ChangeWindow
  <2>2. PICK r \in Runs : Plan(r) \/ Step(r) \/ Crash(r) \/ Reconcile(r)
    BY <2>1 DEF Next, vars
  <2>3. "register" \notin Faults[leg]
    BY DEF Inv, Shapes
  <2>4. pc \in [Runs -> PCs]
    BY DEF Inv, Shapes
  <2>5. ~Reconcile(r) /\ ~RegisterFails(r) /\ ~ReuseChanged(r)
    BY <2>3, MatchCounts DEF Reconcile, RegisterFails, ReuseChanged, ReuseUnchanged
  <2>6. \E x \in PCs \ {"publish_error"} : pc' = [pc EXCEPT ![r] = x]
    <3>1. CASE Plan(r) \/ ResolveReuse(r) \/ ResolveSoccer(r)
      BY <3>1 DEF Plan, ResolveReuse, ResolveSoccer, PCs
    <3>2. CASE RecordFetch(r)
      <4>1. \/ Ends(r, "fetch_failed") \/ Ends(r, "partial") \/ pc' = [pc EXCEPT ![r] = "recorded"]
        BY <3>2 DEF RecordFetch
      <4> QED BY <4>1 DEF Ends, PCs
    <3>3. CASE LoadReused(r)
      BY <3>3 DEF LoadReused, PCs
    <3>4. CASE TakeLock(r) \/ Build(r) \/ Advance(r) \/ Commit(r)
      BY <3>4 DEF TakeLock, Build, Advance, Commit, PCs
    <3>5. CASE Retain(r) \/ Crash(r)
      BY <3>5 DEF Retain, Crash, Ends, PCs
    <3> QED BY <2>2, <2>5, <3>1, <3>2, <3>3, <3>4, <3>5 DEF Step
  <2> QED BY <2>4, <2>6
<1>2. Spec => [][Publishes]_pc
  BY <1>1, InvHolds, PTL DEF Spec
<1> QED BY <1>2 DEF FetchedRunPublishes

-----------------------------------------------------------------------------
(* The refinement of MinuteOddsPublication, step by step.                  *)

PublishedRuns == {r \in Runs : pc[r] \in {"committed", "published"}}
DeadRuns      == {r \in Runs : pc[r] = "crashed"}

LEMMA PromiseVars ==
  /\ Promise!vars = <<RowsIn(ServedRun), Published, PublishedRuns, DeadRuns>>
  /\ \A f, g : Promise!Over(f, g) = Over(f, g)
  /\ \A f, S : Promise!Restrict(f, S) = Restrict(f, S)
BY DEF Promise!vars, Promise!Over, Over, Promise!Restrict, Restrict, PublishedRuns, DeadRuns

LEMMA AuditStays ==
  ASSUME Inv, Inv', flagged' = flagged, \A row \in flagged : rowsOf'[row[1]] = rowsOf[row[1]]
  PROVE  Published' = Published
<1>1. Published \in Rows /\ Published' \in Rows /\ DOMAIN Published = DOMAIN Published'
  BY PublishedIs, NextPublishedIs
<1>2. ASSUME NEW t \in DOMAIN Published PROVE Published[t] = Published'[t]
  <2>1. PICK q \in Runs : <<q, t>> \in flagged /\ Published[t] = rowsOf[q][t]
    BY <1>2, PublishedIs
  <2>2. t \in Tokens
    BY <1>2, PublishedIs
  <2>3. Published'[t] = rowsOf'[q][t]
    BY <2>1, <2>2, NextPublishedIs
  <2>4. rowsOf'[q] = rowsOf[q]
    BY <2>1
  <2> QED BY <2>1, <2>3, <2>4
<1> QED BY <1>1, <1>2, SameRows

LEMMA FlagsStay ==
  ASSUME Inv, NEW r \in Runs, pc[r] \in Early \cup {"idle", "built", "advanced"},
         rowsOf' = rowsOf \/ \E rows : rowsOf' = [rowsOf EXCEPT ![r] = rows]
  PROVE  \A row \in flagged : rowsOf'[row[1]] = rowsOf[row[1]]
<1> TAKE row \in flagged
<1>1. row[1] \in Runs /\ row[1] # r
  BY DEF Inv, Shapes, FlaggedIsOver, Early, Recorded
<1>2. \A q \in Runs \ {r} : rowsOf'[q] = rowsOf[q]
  BY DEF Inv, Shapes
<1> QED BY <1>1, <1>2

LEMMA ServedStays ==
  ASSUME Inv, Inv', NEW r \in Runs, NEW x, pc' = [pc EXCEPT ![r] = x], pc[r] # "advanced",
         x # "advanced", UNCHANGED <<snapshots, current>>
  PROVE  RowsIn(ServedRun)' = RowsIn(ServedRun)
<1>0. /\ pc'[r] = x /\ \A q \in Runs \ {r} : pc'[q] = pc[q]
      /\ LockIsHeld /\ LockIsHeld'
  BY DEF Inv, Shapes
<1>1. ServedRun' = ServedRun
  <2>1. CASE \E q \in Runs : pc[q] = "advanced"
    <3>1. PICK q \in Runs : pc[q] = "advanced"
      BY <2>1
    <3>2. pc'[q] = "advanced"
      BY <1>0, <3>1
    <3> QED BY <1>0, <3>1, <3>2, ServedRunIs, NextServedRunIs
  <2>2. CASE \A q \in Runs : pc[q] # "advanced"
    <3>1. \A q \in Runs : pc'[q] # "advanced"
      BY <1>0, <2>2
    <3> QED BY <1>0, <2>2, <3>1, ServedRunIs, NextServedRunIs
  <2> QED BY <2>1, <2>2
<1> QED BY <1>1 DEF RowsIn

LEMMA RunsStay ==
  ASSUME Inv, NEW r \in Runs, NEW x, pc' = [pc EXCEPT ![r] = x],
         x \in {"committed", "published"} <=> pc[r] \in {"committed", "published"},
         x = "crashed" <=> pc[r] = "crashed"
  PROVE  PublishedRuns' = PublishedRuns /\ DeadRuns' = DeadRuns
<1>1. pc'[r] = x /\ \A q \in Runs \ {r} : pc'[q] = pc[q]
  BY DEF Inv, Shapes
<1> QED BY <1>1 DEF PublishedRuns, DeadRuns

LEMMA EarlyStutters ==
  ASSUME Inv, Inv', NEW r \in Runs, pc[r] \in Early \cup {"idle"},
         NEW x \in PCs \ {"advanced", "committed", "published", "crashed"}, pc' = [pc EXCEPT ![r] = x],
         rowsOf' = rowsOf \/ \E rows : rowsOf' = [rowsOf EXCEPT ![r] = rows],
         UNCHANGED <<snapshots, current, flagged>>
  PROVE  UNCHANGED Promise!vars
<1>1. RowsIn(ServedRun)' = RowsIn(ServedRun)
  BY ServedStays DEF Early
<1>2. Published' = Published
  BY AuditStays, FlagsStay
<1>3. PublishedRuns' = PublishedRuns /\ DeadRuns' = DeadRuns
  BY RunsStay DEF Early
<1> QED BY <1>1, <1>2, <1>3, PromiseVars DEF Promise!vars, PublishedRuns, DeadRuns

LEMMA EarlyRefines ==
  ASSUME Inv, Inv', NEW r \in Runs,
         \/ Plan(r) \/ ResolveReuse(r) \/ ResolveSoccer(r) \/ RecordFetch(r) \/ LoadReused(r)
         \/ TakeLock(r) \/ ReuseChanged(r)
  PROVE  UNCHANGED Promise!vars
<1>1. /\ pc[r] \in Early \cup {"idle"} /\ UNCHANGED <<snapshots, current, flagged>>
      /\ rowsOf' = rowsOf \/ \E rows : rowsOf' = [rowsOf EXCEPT ![r] = rows]
  <2>1. CASE Plan(r) \/ ResolveReuse(r) \/ ResolveSoccer(r) \/ TakeLock(r)
    BY <2>1 DEF Plan, ResolveReuse, ResolveSoccer, TakeLock, CanLock, Early, disk, audit
  <2>2. CASE RecordFetch(r)
    <3>1. rowsOf' = rowsOf \/ \E rows : rowsOf' = [rowsOf EXCEPT ![r] = rows]
      BY <2>2 DEF RecordFetch
    <3> QED BY <2>2, <3>1 DEF RecordFetch, Early, disk
  <2>3. CASE LoadReused(r)
    <3>1. rowsOf' = rowsOf \/ rowsOf' = [rowsOf EXCEPT ![r] = Empty]
      BY <2>3 DEF LoadReused, Fails
    <3> QED BY <2>3, <3>1 DEF LoadReused, Early, disk
  <2>4. CASE ReuseChanged(r)
    <3>1. rowsOf' = rowsOf \/ rowsOf' = [rowsOf EXCEPT ![r] = Empty]
      BY <2>4 DEF ReuseChanged, Fails
    <3> QED BY <2>4, <3>1 DEF ReuseChanged, Early, disk
  <2> QED BY <2>1, <2>2, <2>3, <2>4
<1>2. \E x \in PCs \ {"advanced", "committed", "published", "crashed"} : pc' = [pc EXCEPT ![r] = x]
  <2>1. CASE Plan(r) \/ ResolveReuse(r) \/ TakeLock(r)
    BY <2>1 DEF Plan, ResolveReuse, TakeLock, PCs
  <2>2. CASE ResolveSoccer(r)
    BY <2>2 DEF ResolveSoccer, Ends, PCs
  <2>3. CASE RecordFetch(r)
    <3>1. \/ Ends(r, "fetch_failed") \/ Ends(r, "partial") \/ pc' = [pc EXCEPT ![r] = "recorded"]
      BY <2>3 DEF RecordFetch
    <3> QED BY <3>1 DEF Ends, PCs
  <2>4. CASE LoadReused(r)
    BY <2>4 DEF LoadReused, Fails, Ends, PCs
  <2>5. CASE ReuseChanged(r)
    BY <2>5 DEF ReuseChanged, Fails, Ends, PCs
  <2> QED BY <2>1, <2>2, <2>3, <2>4, <2>5
<1>3. PICK x \in PCs \ {"advanced", "committed", "published", "crashed"} : pc' = [pc EXCEPT ![r] = x]
  BY <1>2
<1> QED BY <1>1, <1>3, EarlyStutters

(* The snapshot of a publisher, the move of CURRENT to it and back, and the *)
(* clean-up are none of a reader's business.                               *)
LEMMA HolderRefines ==
  ASSUME Inv, Inv', NEW r \in Runs, Build(r) \/ Advance(r) \/ RegisterFails(r) \/ Retain(r)
  PROVE  UNCHANGED Promise!vars
<1>1. /\ pc[r] \in Under /\ flagged' = flagged
      /\ rowsOf' = rowsOf \/ (pc[r] = "advanced" /\ rowsOf' = [rowsOf EXCEPT ![r] = Empty])
  BY DEF Build, Advance, RegisterFails, Retain, Fails, Under, audit
<1>2. Published' = Published
  BY <1>1, AuditStays, FlagsStay
<1>3. /\ r # NoRun /\ LockIsHeld /\ LockIsHeld' /\ pc \in [Runs -> PCs]
      /\ \A q \in Runs \ {r} : pc[q] \notin Under
  BY <1>1, HolderIsAlone DEF Inv, Shapes
<1>4. /\ PublishedRuns' = PublishedRuns /\ DeadRuns' = DeadRuns
      /\ \A q \in Runs \ {r} : pc'[q] = pc[q]
  <2>1. \E x \in PCs : /\ pc' = [pc EXCEPT ![r] = x] /\ x # "crashed" /\ pc[r] # "crashed"
                       /\ x \in {"committed", "published"} <=> pc[r] \in {"committed", "published"}
    BY DEF Build, Advance, RegisterFails, Retain, Fails, Ends, PCs
  <2> QED BY <1>3, <2>1, RunsStay
<1>5. RowsIn(ServedRun)' = RowsIn(ServedRun)
  <2>1. CASE Build(r)
    <3>1. pc[r] = "locked" /\ pc'[r] = "built" /\ current' = current
      BY <1>3, <2>1 DEF Build
    <3>2. ServedRun = current /\ ServedRun' = current
      BY <1>3, <1>4, <3>1, ServedRunIs, NextServedRunIs DEF Under
    <3>3. \A s \in DOMAIN snapshots \ {r} : s \in DOMAIN snapshots' /\ snapshots'[s] = snapshots[s]
      BY <2>1 DEF Build, Over
    <3>4. current = NoRun \/ current \in DOMAIN snapshots \ {r}
      BY <3>1 DEF Inv, Shapes, SnapshotsInOrder, Early
    <3> QED BY <3>2, <3>3, <3>4 DEF RowsIn
  <2>2. CASE Advance(r)
    <3>1. pc[r] = "built" /\ pc'[r] = "advanced" /\ snapshots' = snapshots /\ snapshots[r].prev = current
      BY <1>3, <2>2 DEF Advance, Inv, SnapshotsInOrder
    <3>2. ServedRun = current
      BY <1>1, <3>1, HolderServes
    <3>3. ServedRun' = current
      BY <1>3, <3>1, NextServedRunIs
    <3> QED BY <3>1, <3>2, <3>3 DEF RowsIn
  <2>3. CASE RegisterFails(r)
    <3>1. pc[r] = "advanced" /\ pc'[r] = "publish_error" /\ snapshots' = snapshots
          /\ current' = snapshots[r].prev
      BY <1>3, <2>3 DEF RegisterFails, RollBackTo, Fails, Ends
    <3>2. ServedRun = snapshots[r].prev
      BY <1>1, <3>1, HolderServes
    <3>3. \A q \in Runs : pc'[q] # "advanced"
      BY <1>3, <1>4, <3>1 DEF Under
    <3> QED BY <1>3, <3>1, <3>2, <3>3, NextServedRunIs DEF RowsIn
  <2>4. CASE Retain(r)
    <3>1. pc[r] = "committed" /\ pc'[r] = "published" /\ current' = current /\ current = r
      BY <1>3, <2>4 DEF Retain, Ends, Inv, SnapshotsInOrder
    <3>2. ServedRun = current
      BY <1>1, <3>1, HolderServes
    <3>3. \A q \in Runs : pc'[q] # "advanced"
      BY <1>3, <1>4, <3>1 DEF Under
    <3>4. ServedRun' = current
      BY <1>3, <3>1, <3>3, NextServedRunIs
    <3>5. r \in DOMAIN snapshots /\ r \in Protected
      BY <1>3, <3>1 DEF Inv, Shapes, Protected
    <3>6. snapshots'[r] = snapshots[r]
      BY <2>4, <3>5 DEF Retain, Restrict
    <3> QED BY <3>1, <3>2, <3>4, <3>6 DEF RowsIn
  <2> QED BY <2>1, <2>2, <2>3, <2>4
<1> QED BY <1>2, <1>4, <1>5, PromiseVars DEF Promise!vars, PublishedRuns, DeadRuns

(* What a run's shards bring: fetches of its own. *)
FreshRows(r) == Restrict(rowsOf[r], Fresh(r))

LEMMA FreshIsOwn ==
  ASSUME Inv, NEW r \in Runs, pc[r] \in Recorded
  PROVE  FreshRows(r) \in Promise!FetchesOf(r)
<1>1. /\ DOMAIN FreshRows(r) = Fresh(r) /\ Fresh(r) \in SUBSET Tokens
      /\ \A t \in Fresh(r) : FreshRows(r)[t] = rowsOf[r][t]
  BY FreshRowsAre DEF Inv, FreshRows
<1>2. \A t \in Fresh(r) : rowsOf[r][t] \in [run: {r}, window: Windows]
  BY DEF Inv, AuditIsOwn
<1>3. FreshRows(r) = [t \in Fresh(r) |-> FreshRows(r)[t]]
  BY DEF FreshRows, Restrict
<1>4. FreshRows(r) \in [Fresh(r) -> [run: {r}, window: Windows]]
  BY <1>1, <1>2, <1>3
<1> QED BY <1>1, <1>4 DEF Promise!FetchesOf, Promise!PartialFunctions

(* The transaction is where a publication happens.                         *)
LEMMA CommitRefines ==
  ASSUME Inv, Inv', NEW r \in Runs, Commit(r)
  PROVE  Promise!Publish(r)
<1> DEFINE fresh  == FreshRows(r)
           before == RowsIn(ServedRun)
           kept   == DOMAIN Published' \ Fresh(r)
<1>0. /\ pc[r] = "advanced" /\ pc[r] \in Under /\ pc[r] \in Merged /\ pc[r] \in Recorded
      /\ pc' = [pc EXCEPT ![r] = "committed"]
      /\ flagged' = Flagged(r) /\ UNCHANGED <<leg, snapshots, current, rowsOf, reuse>>
      /\ LockIsHeld /\ LockIsHeld' /\ pc \in [Runs -> PCs]
  BY DEF Commit, disk, world, local, Under, Merged, Recorded, Inv, Shapes
<1>1. /\ pc'[r] = "committed" /\ \A q \in Runs \ {r} : pc'[q] = pc[q] /\ pc[q] \notin Under
      /\ r # NoRun /\ current = r /\ ServedRun = snapshots[r].prev /\ r \in DOMAIN snapshots
  BY <1>0, HolderIsAlone, HolderServes
<1>2. PublishedRuns' = PublishedRuns \cup {r} /\ DeadRuns' = DeadRuns
  BY <1>0, <1>1 DEF PublishedRuns, DeadRuns
<1>3. r \notin PublishedRuns \cup DeadRuns
  BY <1>0 DEF PublishedRuns, DeadRuns
<1>4. fresh \in Promise!FetchesOf(r) /\ fresh \in Rows /\ DOMAIN fresh = Fresh(r)
      /\ (\A t \in Fresh(r) : fresh[t] = rowsOf[r][t]) /\ Fresh(r) = DOMAIN rowsOf[r] \ reuse[r]
      /\ Fresh(r) \subseteq Tokens
  BY <1>0, FreshIsOwn, FreshRowsAre DEF Inv, FreshRows
<1>5. RowsIn(ServedRun)' = Over(fresh, before)
  <2>1. \A q \in Runs : pc'[q] # "advanced"
    BY <1>1 DEF Under
  <2>2. ServedRun' = r
    BY <1>0, <1>1, <2>1, NextServedRunIs
  <2>3. RowsIn(ServedRun)' = snapshots[r].rows
    BY <1>0, <1>1, <2>2 DEF RowsIn
  <2>4. snapshots[r].rows = Over(FreshRows(r), RowsIn(snapshots[r].prev))
    BY <1>0 DEF Inv, SnapshotIsMerge, FreshRows
  <2> QED BY <1>1, <2>3, <2>4
<1> HIDE DEF fresh, before
<1>6. \A t \in DOMAIN Published' :
         \/ t \in DOMAIN rowsOf[r] /\ Published'[t] = rowsOf[r][t]
         \/ t \notin DOMAIN rowsOf[r] /\ t \in DOMAIN Published /\ Published'[t] = Published[t]
  <2> TAKE t \in DOMAIN Published'
  <2>1. PICK q \in Runs : <<q, t>> \in flagged' /\ Published'[t] = rowsOf'[q][t] /\ t \in Tokens
    BY NextPublishedIs
  <2>2. CASE <<q, t>> \in flagged /\ t \notin DOMAIN rowsOf[r]
    <3>1. t \in DOMAIN Published /\ Published[t] = rowsOf[q][t]
      BY <2>1, <2>2, PublishedIs
    <3> QED BY <1>0, <2>1, <2>2, <3>1
  <2>3. CASE q = r /\ t \in DOMAIN rowsOf[r]
    BY <1>0, <2>1, <2>3
  <2>4. (<<q, t>> \in flagged /\ t \notin DOMAIN rowsOf[r]) \/ (q = r /\ t \in DOMAIN rowsOf[r])
    BY <1>0, <2>1 DEF Flagged
  <2> QED BY <2>2, <2>3, <2>4
<1>7. DOMAIN rowsOf[r] \subseteq DOMAIN Published'
  <2> SUFFICES ASSUME NEW t \in DOMAIN rowsOf[r] PROVE t \in DOMAIN Published'
    OBVIOUS
  <2>1. t \in Tokens /\ <<r, t>> \in flagged'
    BY <1>0, RowsAre DEF Flagged, Inv, Shapes
  <2> QED BY <2>1, NextPublishedIs
(* What is reused was published already. *)
<1>8. \A t \in DOMAIN rowsOf[r] \cap reuse[r] : t \in DOMAIN Published /\ Published[t] = rowsOf[r][t]
  <2> TAKE t \in DOMAIN rowsOf[r] \cap reuse[r]
  <2>1. leg # "soccer" /\ rowsOf[r][t] = prior[r][t] /\ t \in Tokens
    BY <1>0, RowsAre DEF Inv, AuditIsOwn, Recorded, Shapes
  <2>2. PICK q \in Runs : <<q, t>> \in flagged /\ prior[r][t] = rowsOf[q][t]
    BY <1>0, <2>1 DEF Inv, ReusedIsPublished, Recorded
  <2> QED BY <2>1, <2>2, PublishedIs
<1>9. /\ kept \subseteq DOMAIN Published
      /\ \A t \in kept : Published'[t] = Published[t]
  <2> SUFFICES ASSUME NEW t \in kept PROVE t \in DOMAIN Published /\ Published'[t] = Published[t]
    OBVIOUS
  <2>1. CASE t \in DOMAIN rowsOf[r]
    <3>1. t \in DOMAIN rowsOf[r] \cap reuse[r] /\ Published'[t] = rowsOf[r][t]
      BY <1>4, <1>6, <2>1
    <3> QED BY <1>8, <3>1
  <2>2. CASE t \notin DOMAIN rowsOf[r]
    BY <1>6, <2>2
  <2> QED BY <2>1, <2>2
<1>10. Published' = Over(fresh, Restrict(Published, kept))
  <2> DEFINE g == Restrict(Published, kept)
  <2>1. g \in Rows /\ DOMAIN g = kept /\ \A t \in kept : g[t] = Published[t]
    BY <1>9, PublishedIs, RestrictIs
  <2> HIDE DEF g
  <2>2. Over(fresh, g) \in Rows
    BY <1>4, <2>1, OverRows
  <2>3. /\ DOMAIN Over(fresh, g) = DOMAIN fresh \cup DOMAIN g
        /\ \A t \in DOMAIN fresh : Over(fresh, g)[t] = fresh[t]
        /\ \A t \in DOMAIN g \ DOMAIN fresh : Over(fresh, g)[t] = g[t]
    BY OverIs
  <2>4. DOMAIN Over(fresh, g) = DOMAIN Published'
    BY <1>4, <1>7, <2>1, <2>3
  <2>5. ASSUME NEW t \in DOMAIN Published' PROVE Published'[t] = Over(fresh, g)[t]
    <3>1. CASE t \in Fresh(r)
      <4>1. t \in DOMAIN rowsOf[r] /\ Published'[t] = rowsOf[r][t]
        BY <1>4, <1>6, <3>1
      <4> QED BY <1>4, <2>3, <3>1, <4>1
    <3>2. CASE t \notin Fresh(r)
      <4>1. t \in kept
        BY <3>2
      <4> QED BY <1>4, <1>9, <2>1, <2>3, <3>2, <4>1
    <3> QED BY <3>1, <3>2
  <2>6. Published' \in Rows
    BY NextPublishedIs
  <2>7. Published' = Over(fresh, g)
    BY <2>2, <2>4, <2>5, <2>6, SameRows
  <2> QED BY <2>7 DEF g
<1> HIDE DEF kept
<1>11. kept \in SUBSET DOMAIN Published
  BY <1>9
<1>12. /\ RowsIn(ServedRun)' = Promise!Over(fresh, RowsIn(ServedRun))
       /\ Published' = Promise!Over(fresh, Restrict(Published, kept))
  BY <1>5, <1>10, PromiseVars DEF before
<1>13. Promise!Replace(fresh, kept)
  BY <1>12, PromiseVars DEF Promise!Replace
<1>14. \E f \in Promise!FetchesOf(r), k \in SUBSET DOMAIN Published : Promise!Replace(f, k)
  BY <1>4, <1>11, <1>13
<1> QED BY <1>2, <1>3, <1>14 DEF Promise!Publish, PublishedRuns, DeadRuns

(* A publisher that dies leaves the rows as they were, or its own in them. *)
LEMMA CrashRefines ==
  ASSUME Inv, Inv', NEW r \in Runs, Crash(r)
  PROVE  Promise!Die(r) \/ UNCHANGED Promise!vars
<1> DEFINE how == IF pc[r] = "committed" THEN "published" ELSE "crashed"
<1>0. /\ r \in Active /\ pc' = [pc EXCEPT ![r] = how] /\ pc'[r] = how
      /\ \A q \in Runs \ {r} : pc'[q] = pc[q]
      /\ UNCHANGED <<snapshots, current, rowsOf, flagged>>
      /\ LockIsHeld /\ LockIsHeld'
  BY DEF Crash, Ends, disk, audit, Inv, Shapes
<1>1. Published' = Published
  BY <1>0, AuditStays
<1>2. CASE pc[r] = "committed"
  <2>1. PublishedRuns' = PublishedRuns /\ DeadRuns' = DeadRuns
    BY <1>0, <1>2, RunsStay
  <2>2. RowsIn(ServedRun)' = RowsIn(ServedRun)
    BY <1>0, <1>2, ServedStays
  <2> QED BY <1>1, <2>1, <2>2, PromiseVars DEF Promise!vars, PublishedRuns, DeadRuns
<1>3. CASE pc[r] # "committed"
  <2>1. PublishedRuns' = PublishedRuns /\ DeadRuns' = DeadRuns \cup {r} /\ r \notin PublishedRuns \cup DeadRuns
    BY <1>0, <1>3 DEF Active, PublishedRuns, DeadRuns
  <2>2. \E fresh \in Promise!FetchesOf(r) : RowsIn(ServedRun)' = Over(fresh, RowsIn(ServedRun))
    <3>1. CASE pc[r] = "advanced"
      <4>1. /\ r # NoRun /\ current = r /\ ServedRun = snapshots[r].prev
            /\ \A q \in Runs : pc'[q] # "advanced"
        BY <1>0, <3>1, HolderIsAlone, HolderServes DEF Under
      <4>2. RowsIn(ServedRun)' = snapshots[r].rows
        BY <1>0, <4>1, NextServedRunIs DEF RowsIn
      <4>3. snapshots[r].rows = Over(FreshRows(r), RowsIn(ServedRun))
        BY <3>1, <4>1 DEF Inv, SnapshotIsMerge, Merged, FreshRows
      <4>4. FreshRows(r) \in Promise!FetchesOf(r)
        BY <3>1, FreshIsOwn DEF Recorded
      <4> QED BY <4>2, <4>3, <4>4
    <3>2. CASE pc[r] # "advanced"
      <4>1. RowsIn(ServedRun)' = RowsIn(ServedRun)
        BY <1>0, <3>2, ServedStays
      <4>2. Empty \in Promise!FetchesOf(r)
        <5>1. Empty \in [{} -> [run: {r}, window: Windows]]
          BY DEF Empty
        <5> QED BY <5>1 DEF Promise!FetchesOf, Promise!PartialFunctions
      <4>3. RowsIn(ServedRun) \in Rows
        <5>1. ServedRun \in DOMAIN snapshots \cup {NoRun}
          <6>1. CASE \E q \in Runs : pc[q] = "advanced"
            <7>1. PICK q \in Runs : pc[q] = "advanced"
              BY <6>1
            <7>2. ServedRun = snapshots[q].prev /\ InPlace(snapshots[q].prev)
              BY <7>1, ServedRunIs DEF Inv, SnapshotsInOrder
            <7> QED BY <7>2 DEF InPlace
          <6>2. CASE \A q \in Runs : pc[q] # "advanced"
            BY <6>2, ServedRunIs DEF Inv, Shapes
          <6> QED BY <6>1, <6>2
        <5> QED BY <5>1, ServedRowsAre DEF Inv
      <4>4. Over(Empty, RowsIn(ServedRun)) = RowsIn(ServedRun)
        <5> DEFINE g == RowsIn(ServedRun)
        <5>1. g \in Rows
          BY <4>3
        <5> HIDE DEF g
        <5>2. Over(Empty, g) \in Rows
          BY <5>1, OverRows, RowsAre
        <5>3. DOMAIN Over(Empty, g) = DOMAIN g /\ \A t \in DOMAIN g : Over(Empty, g)[t] = g[t]
          <6>1. DOMAIN Empty = {}
            BY RowsAre
          <6>2. /\ DOMAIN Over(Empty, g) = DOMAIN Empty \cup DOMAIN g
                /\ \A t \in DOMAIN g \ DOMAIN Empty : Over(Empty, g)[t] = g[t]
            BY OverIs
          <6> QED BY <6>1, <6>2
        <5>4. Over(Empty, g) = g
          BY <5>1, <5>2, <5>3, SameRows
        <5> QED BY <5>4 DEF g
      <4> QED BY <4>1, <4>2, <4>4
    <3> QED BY <3>1, <3>2
  <2>3. \E fresh \in Promise!FetchesOf(r) : RowsIn(ServedRun)' = Promise!Over(fresh, RowsIn(ServedRun))
    BY <2>2, PromiseVars
  <2>4. Promise!Die(r)
    BY <1>1, <2>1, <2>3 DEF Promise!Die, PublishedRuns, DeadRuns
  <2> QED BY <2>4
<1> QED BY <1>2, <1>3

(* The operator's script changes the audit alone, to describe the rows.    *)
LEMMA ReconcileRefines ==
  ASSUME Inv, Inv', NEW r \in Runs, Reconcile(r)
  PROVE  Promise!Repair
<1>0. /\ Active = {} /\ Fits(r) /\ flagged' = {<<r, t>> : t \in DOMAIN rowsOf[r]}
      /\ UNCHANGED <<snapshots, current, rowsOf, pc>> /\ LockIsHeld /\ LockIsHeld'
  BY DEF Reconcile, disk, Inv
<1>1. \A q \in Runs : pc[q] # "advanced" /\ pc'[q] # "advanced"
  BY <1>0 DEF Active
<1>2. ServedRun = current /\ ServedRun' = current
  BY <1>0, <1>1, ServedRunIs, NextServedRunIs
<1>3. RowsIn(ServedRun)' = RowsIn(ServedRun)
  BY <1>0, <1>2 DEF RowsIn
<1>4. DOMAIN rowsOf[r] = DOMAIN RowsIn(ServedRun) /\ DOMAIN rowsOf[r] \subseteq Tokens
      /\ \A t \in DOMAIN rowsOf[r] : rowsOf[r][t].window = RowsIn(ServedRun)[t].window
  BY <1>0, <1>2, RowsAre DEF Fits, Inv, Shapes
<1>5. \A t \in DOMAIN Published' : t \in DOMAIN rowsOf[r] /\ Published'[t] = rowsOf[r][t]
  <2> TAKE t \in DOMAIN Published'
  <2>1. PICK q \in Runs : <<q, t>> \in flagged' /\ Published'[t] = rowsOf'[q][t]
    BY NextPublishedIs
  <2> QED BY <1>0, <2>1
<1>6. DOMAIN rowsOf[r] \subseteq DOMAIN Published'
  <2> SUFFICES ASSUME NEW t \in DOMAIN rowsOf[r] PROVE t \in DOMAIN Published'
    OBVIOUS
  <2>1. t \in Tokens /\ <<r, t>> \in flagged'
    BY <1>0, <1>4
  <2> QED BY <2>1, NextPublishedIs
<1>7. Published' \in [DOMAIN RowsIn(ServedRun) -> [run: Runs, window: Windows]]
  <2>1. Published' \in [DOMAIN Published' -> Fetch]
    BY NextPublishedIs, RowsAre
  <2> QED BY <1>4, <1>5, <1>6, <2>1 DEF Fetch
<1>8. \A t \in DOMAIN RowsIn(ServedRun) : Published'[t].window = RowsIn(ServedRun)[t].window
  BY <1>4, <1>5, <1>6
<1>9. PublishedRuns' = PublishedRuns /\ DeadRuns' = DeadRuns
  BY <1>0 DEF PublishedRuns, DeadRuns
<1> QED BY <1>3, <1>7, <1>8, <1>9 DEF Promise!Repair, PublishedRuns, DeadRuns

LEMMA InitRefines == Init => Promise!Init
<1> SUFFICES ASSUME Init PROVE Promise!Init
  OBVIOUS
<1>1. Inv /\ \A r \in Runs : pc[r] = "idle"
  BY InitInv DEF Init
<1>2. RowsIn(ServedRun) = Empty
  <2>1. ServedRun = NoRun
    BY <1>1, ServedRunIs DEF Inv, Init
  <2> QED BY <2>1 DEF RowsIn
<1>3. Published = Empty
  <2>1. Published \in Rows /\ DOMAIN Published = {}
    <3>1. TokensOf(flagged) = {}
      BY DEF Init, TokensOf
    <3> QED BY <1>1, <3>1, PublishedIs
  <2> QED BY <2>1, RowsAre, SameRows
<1>4. PublishedRuns = {} /\ DeadRuns = {}
  BY <1>1 DEF PublishedRuns, DeadRuns
<1> QED BY <1>2, <1>3, <1>4 DEF Promise!Init, Empty, PublishedRuns, DeadRuns

LEMMA StepRefines == Inv /\ Inv' /\ [Next]_vars => [Promise!Next]_(Promise!vars)
<1> SUFFICES ASSUME Inv, Inv', [Next]_vars PROVE Promise!Next \/ UNCHANGED Promise!vars
  OBVIOUS
<1>1. CASE UNCHANGED vars
  BY <1>1 DEF vars, world, disk, audit, Promise!vars, RowsIn, ServedRun, Settled, Published
<1>2. ASSUME NEW t \in Tokens, ChangeWindow(t)
      PROVE  UNCHANGED Promise!vars
  BY <1>2 DEF ChangeWindow, disk, audit, Promise!vars, RowsIn, ServedRun, Settled, Published
<1>3. ASSUME NEW r \in Runs, Plan(r) \/ Step(r) \/ Crash(r) \/ Reconcile(r)
      PROVE  Promise!Next \/ UNCHANGED Promise!vars
  <2>1. CASE \/ Plan(r) \/ ResolveReuse(r) \/ ResolveSoccer(r) \/ RecordFetch(r) \/ LoadReused(r)
             \/ TakeLock(r) \/ ReuseChanged(r)
    BY <2>1, EarlyRefines
  <2>2. CASE Build(r) \/ Advance(r) \/ RegisterFails(r) \/ Retain(r)
    BY <2>2, HolderRefines
  <2>3. CASE Commit(r)
    BY <2>3, CommitRefines DEF Promise!Next
  <2>4. CASE Crash(r)
    BY <2>4, CrashRefines DEF Promise!Next
  <2>5. CASE Reconcile(r)
    BY <2>5, ReconcileRefines DEF Promise!Next
  <2> QED BY <1>3, <2>1, <2>2, <2>3, <2>4, <2>5 DEF Step
<1> QED BY <1>1, <1>2, <1>3 DEF Next

(* Publishing minute odds implements its promise: the rows that are served *)
(* and the audit that describes them change in one step, by the run that   *)
(* fetched them, or not at all; only a death between the two commits and   *)
(* the operator's repair change one without the other.                     *)
THEOREM PublicationIsAtomic == Spec => AtomicPublication
<1>1. Spec => Promise!Spec
  BY InitRefines, StepRefines, InvHolds, PTL DEF Spec, Promise!Spec
<1> QED BY <1>1 DEF AtomicPublication

-----------------------------------------------------------------------------
(* Settlement scans *)

RunRows == [status : {"none", "running", "failed", "published"}, raw : BOOLEAN,
            verified : {"not_requested", "matched", "mismatched", "error"}]

IsAttempt(att) ==
  att = [pc |-> att.pc, scan |-> att.scan, seen |-> att.seen, work |-> att.work, ready |-> att.ready,
         pending |-> att.pending, target |-> att.target, chunk |-> att.chunk, range |-> att.range,
         leaves |-> att.leaves, error |-> att.error]

ScanShapes ==
  /\ seed \in Manifests /\ runs \in [Manifests -> RunRows]
  /\ attempts = [a \in Attempts |-> attempts[a]]
  /\ \A a \in Attempts :
       IsAttempt(attempts[a]) /\ (attempts[a].pc # "idle" => attempts[a].scan \in Manifests)
  /\ \A r \in stage \cup fills : r.scan \in Manifests
  /\ verifier = NoVerifier \/ verifier.scan \in Manifests

(* The attempts under way are for one scan, and a scan that is published   *)
(* under one of them is the canonical one.                                 *)
OneScan ==
  \A a, b \in Attempts : attempts[a].pc # "idle" /\ attempts[b].pc # "idle" => attempts[a].scan = attempts[b].scan

UnderWayIsOpen ==
  \A a \in Attempts :
    attempts[a].pc \notin {"idle", "start"} =>
      LET row == runs[attempts[a].scan]
      IN row.status # "none" /\ (row.status = "published" => row.raw)

(* The rows that a scan's successful chunks have found.                    *)
RowsOf(s, c) == LeafRows(s, [exchange |-> c.exchange, from |-> c.from, to |-> c.to])
Found(s) == UNION {RowsOf(s, c) : c \in Successful(s)}

StagedIsFound == \A s \in Manifests : runs[s].status # "published" => Staged(s) = Found(s)

InvR == OneScan /\ UnderWayIsOpen /\ StagedIsFound

StaysCanonical ==
  \A s \in Manifests : IsCanonical(runs[s]) /\ ~IsCanonical(runs[s])' =>
    runs'[s].status = "published" /\ \E r \in Manifests \ {s} : IsCanonical(runs[r])'

Open(row) == row.status # "none" /\ (row.status = "published" => row.raw)

----------------------------------------------------------------------------
(* Attempts *)

LEMMA InitIsShaped == SettlementInit => ScanShapes /\ InvR /\ OneCanonicalScan
<1> SUFFICES ASSUME SettlementInit PROVE ScanShapes /\ InvR /\ OneCanonicalScan
  OBVIOUS
<1>1. IsAttempt(Idle) /\ Idle.pc = "idle"
  BY DEF IsAttempt, Idle
<1>2. attempts = [a \in Attempts |-> attempts[a]] /\ \A a \in Attempts : attempts[a] = Idle
  BY DEF SettlementInit
<1>3. runs \in [Manifests -> RunRows] /\ \A s \in Manifests : runs[s].status = "none"
  BY DEF SettlementInit, NoRow, RunRows
<1>4. ScanShapes
  BY <1>1, <1>2, <1>3 DEF SettlementInit, ScanShapes
<1>5. InvR
  BY <1>1, <1>2 DEF SettlementInit, InvR, OneScan, UnderWayIsOpen, StagedIsFound, Staged, Found, Successful
<1>6. OneCanonicalScan
  BY DEF SettlementInit, OneCanonicalScan
<1> QED BY <1>4, <1>5, <1>6

(* One attempt moves, the others stay where they are.                      *)
Moves(a) ==
  /\ attempts' = [b \in Attempts |-> attempts'[b]]
  /\ \A b \in Attempts :
       IsAttempt(attempts'[b]) /\ (attempts'[b].pc # "idle" => attempts'[b].scan \in Manifests)
  /\ \A b \in Attempts \ {a} : attempts'[b] = attempts[b]

LEMMA MoveIs ==
  ASSUME ScanShapes, NEW a \in Attempts, NEW new, IsAttempt(new), new.pc # "idle" => new.scan \in Manifests, Move(a, new)
  PROVE  Moves(a) /\ attempts'[a] = new
<1>1. attempts' = [attempts EXCEPT ![a] = new] /\ attempts = [b \in Attempts |-> attempts[b]]
  BY DEF Move, ScanShapes
<1>2. attempts' = [b \in Attempts |-> attempts'[b]] /\ attempts'[a] = new
      /\ \A b \in Attempts \ {a} : attempts'[b] = attempts[b]
  BY <1>1
<1> QED BY <1>2 DEF Moves, ScanShapes

(* It ends, or goes on with the same scan.                                 *)
GoesOn(a) ==
  /\ Moves(a) /\ attempts[a].pc # "idle" /\ attempts[a].scan \in Manifests
  /\ \/ attempts'[a].pc = "idle"
     \/ attempts'[a].scan = attempts[a].scan /\ attempts'[a].pc \notin {"idle", "start"}

LEMMA ReturnIs ==
  ASSUME ScanShapes, NEW a \in Attempts, attempts[a].pc # "idle", Return(a)
  PROVE  GoesOn(a)
<1>1. IsAttempt(Idle) /\ Idle.pc = "idle"
  BY DEF IsAttempt, Idle
<1> QED BY <1>1, MoveIs DEF Return, GoesOn, ScanShapes

LEMMA GoIs ==
  ASSUME ScanShapes, NEW a \in Attempts, attempts[a].pc # "idle", NEW new, IsAttempt(new), Move(a, new),
         new.scan = attempts[a].scan, new.pc \notin {"idle", "start"}
  PROVE  GoesOn(a)
<1>1. new.scan \in Manifests /\ attempts[a].scan \in Manifests
  BY DEF ScanShapes
<1>2. Moves(a) /\ attempts'[a] = new
  BY <1>1, MoveIs
<1> QED BY <1>1, <1>2 DEF GoesOn

LEMMA GotoIs ==
  ASSUME ScanShapes, NEW a \in Attempts, attempts[a].pc # "idle", NEW place, place \notin {"idle", "start"}, Goto(a, place)
  PROVE  GoesOn(a) /\ attempts'[a].pc = place
<1> DEFINE new == [attempts[a] EXCEPT !.pc = place]
<1>1. IsAttempt(attempts[a])
  BY DEF ScanShapes
<1>2. IsAttempt(new) /\ new.scan = attempts[a].scan /\ new.pc = place
  <2> DEFINE att == attempts[a]
  <2>1. IsAttempt(att) /\ new = [att EXCEPT !.pc = place]
    BY <1>1
  <2> HIDE DEF att
  <2>2. IsAttempt(new) /\ new.scan = att.scan /\ new.pc = place
    BY <2>1 DEF IsAttempt
  <2> QED BY <2>2 DEF att
<1>3. Move(a, new)
  BY DEF Goto
<1> HIDE DEF new
<1>4. new.scan \in Manifests
  BY <1>2 DEF ScanShapes
<1>5. attempts'[a] = new
  BY <1>2, <1>3, <1>4, MoveIs
<1> QED BY <1>2, <1>3, <1>5, GoIs

LEMMA SubmittedIs ==
  ASSUME NEW att, IsAttempt(att)
  PROVE  IsAttempt(Submitted(att)) /\ Submitted(att).scan = att.scan /\ Submitted(att).pc = att.pc
<1> DEFINE pool == Pool(att)
<1>1. Submitted(att) = [att EXCEPT !.work = pool.work, !.ready = pool.ready, !.pending = pool.pending]
  BY DEF Submitted
<1> HIDE DEF pool
<1> QED BY <1>1 DEF IsAttempt

(* Every step of an attempt goes on with its scan or ends it.              *)
LEMMA AdvanceGoesOn ==
  ASSUME ScanShapes, NEW a \in Attempts, AttemptStep(a) \/ AttemptDies(a)
  PROVE  GoesOn(a)
<1> DEFINE att == attempts[a]
<1>0. IsAttempt(att)
  BY DEF ScanShapes
<1>1. CASE StartScan(a)
  BY <1>1, ReturnIs, GotoIs DEF StartScan
<1>2. CASE ReadChunks(a)
  <2> DEFINE new == [att EXCEPT !.pc = "revalidate", !.seen = Successful(att.scan)]
  <2>1. IsAttempt(new) /\ new.scan = att.scan /\ new.pc = "revalidate"
    <3>1. new = [att EXCEPT !.pc = "revalidate", !.seen = Successful(att.scan)]
      OBVIOUS
    <3> HIDE DEF new
    <3> QED BY <1>0, <3>1 DEF IsAttempt
  <2>2. Move(a, new) /\ att.pc # "idle"
    BY <1>2 DEF ReadChunks
  <2> HIDE DEF new
  <2> QED BY <2>1, <2>2, GoIs
<1>3. CASE Revalidate(a) \/ RevalidateFails(a) \/ CheckPublication(a)
  BY <1>3, ReturnIs, GotoIs DEF Revalidate, RevalidateFails, CheckPublication
<1>4. CASE PlanWork(a)
  <2>1. CASE Return(a)
    BY <1>4, <2>1, ReturnIs DEF PlanWork
  <2>2. CASE ~Return(a)
    <3>1. PICK work, ready : Move(a, Submitted([att EXCEPT !.pc = "scan", !.seen = {}, !.work = work, !.ready = ready]))
      BY <1>4, <2>2 DEF PlanWork
    <3> DEFINE new == [att EXCEPT !.pc = "scan", !.seen = {}, !.work = work, !.ready = ready]
    <3>2. IsAttempt(new) /\ new.scan = att.scan /\ new.pc = "scan"
      <4>1. new = [att EXCEPT !.pc = "scan", !.seen = {}, !.work = work, !.ready = ready]
        OBVIOUS
      <4> HIDE DEF new
      <4> QED BY <1>0, <4>1 DEF IsAttempt
    <3>3. Move(a, Submitted(new)) /\ att.pc # "idle"
      BY <1>4, <3>1 DEF PlanWork
    <3> HIDE DEF new
    <3> QED BY <3>2, <3>3, SubmittedIs, GoIs
  <2> QED BY <2>1, <2>2
<1>5. CASE LeavesArrive(a)
  <2>1. PICK p, leaves, failed :
          Move(a, [att EXCEPT !.pc = "record", !.pending = @ \ {p}, !.target = p.target,
                     !.chunk = p.range, !.range = p.range, !.leaves = leaves, !.error = failed])
    BY <1>5 DEF LeavesArrive
  <2> DEFINE new == [att EXCEPT !.pc = "record", !.pending = @ \ {p}, !.target = p.target,
                       !.chunk = p.range, !.range = p.range, !.leaves = leaves, !.error = failed]
  <2>2. IsAttempt(new) /\ new.scan = att.scan /\ new.pc = "record"
    <3>1. new = [att EXCEPT !.pc = "record", !.pending = @ \ {p}, !.target = p.target,
              !.chunk = p.range, !.range = p.range, !.leaves = leaves, !.error = failed]
      OBVIOUS
    <3> HIDE DEF new
    <3> QED BY <1>0, <3>1 DEF IsAttempt
  <2>3. Move(a, new) /\ att.pc # "idle"
    BY <1>5, <2>1 DEF LeavesArrive
  <2> HIDE DEF new
  <2> QED BY <2>2, <2>3, GoIs
<1>6. CASE RecordLeaf(a)
  <2>1. PICK range, place :
          /\ Move(a, [att EXCEPT !.range = range, !.leaves = Tail(@), !.pc = place]) /\ att.pc = "record"
          /\ place \in {att.pc, "fail"}
    <3> DEFINE range == att.leaves[1]
               next  == [att EXCEPT !.range = range, !.leaves = Tail(@)]
               last  == [next EXCEPT !.pc = "fail"]
    <3>1. att.pc = "record" /\ (Move(a, next) \/ Move(a, last))
      BY <1>6 DEF RecordLeaf
    <3>2. next = [att EXCEPT !.range = range, !.leaves = Tail(@)] /\ last = [next EXCEPT !.pc = "fail"]
      OBVIOUS
    <3> HIDE DEF next, last, range
    <3>3. /\ next = [att EXCEPT !.range = range, !.leaves = Tail(@), !.pc = att.pc]
          /\ last = [att EXCEPT !.range = range, !.leaves = Tail(@), !.pc = "fail"]
      BY <1>0, <3>2 DEF IsAttempt
    <3>4. \/ Move(a, [att EXCEPT !.range = range, !.leaves = Tail(@), !.pc = att.pc])
          \/ Move(a, [att EXCEPT !.range = range, !.leaves = Tail(@), !.pc = "fail"])
      BY <3>1, <3>3
    <3>5. att.pc = "record"
      BY <3>1
    <3> HIDE DEF att
    <3> QED BY <3>4, <3>5
  <2> DEFINE new == [att EXCEPT !.range = range, !.leaves = Tail(@), !.pc = place]
  <2>2. IsAttempt(new) /\ new.scan = att.scan /\ new.pc = place
    <3>1. new = [att EXCEPT !.range = range, !.leaves = Tail(@), !.pc = place]
      OBVIOUS
    <3> HIDE DEF new
    <3> QED BY <1>0, <3>1 DEF IsAttempt
  <2> HIDE DEF new
  <2>3. Move(a, new) /\ att.pc = "record" /\ place \in {att.pc, "fail"}
    BY <2>1 DEF new
  <2> QED BY <2>2, <2>3, GoIs
<1>7. CASE ChunkDone(a)
  <2>1. CASE Move(a, [att EXCEPT !.pc = "fail", !.range = att.chunk])
    <3> DEFINE new == [att EXCEPT !.pc = "fail", !.range = att.chunk]
    <3>1. IsAttempt(new) /\ new.scan = att.scan /\ new.pc = "fail"
      <4>1. new = [att EXCEPT !.pc = "fail", !.range = att.chunk]
        OBVIOUS
      <4> HIDE DEF new
      <4> QED BY <1>0, <4>1 DEF IsAttempt
    <3>2. Move(a, new) /\ att.pc # "idle"
      BY <1>7, <2>1 DEF ChunkDone
    <3> HIDE DEF new
    <3> QED BY <3>1, <3>2, GoIs
  <2>2. CASE \E size : Move(a, Submitted([att EXCEPT !.pc = "scan", !.range = att.chunk, !.work[att.target].size = size,
                                                     !.ready = Append(@, att.target)]))
    <3>1. PICK size : Move(a, Submitted([att EXCEPT !.pc = "scan", !.range = att.chunk, !.work[att.target].size = size,
                                                    !.ready = Append(@, att.target)]))
      BY <2>2
    <3> DEFINE new == [att EXCEPT !.pc = "scan", !.range = att.chunk, !.work[att.target].size = size,
                                  !.ready = Append(@, att.target)]
    <3>2. IsAttempt(new) /\ new.scan = att.scan /\ new.pc = "scan"
      <4>1. new = [att EXCEPT !.pc = "scan", !.range = att.chunk, !.work[att.target].size = size,
                !.ready = Append(@, att.target)]
        OBVIOUS
      <4> HIDE DEF new
      <4> QED BY <1>0, <4>1 DEF IsAttempt
    <3>3. Move(a, Submitted(new)) /\ att.pc # "idle"
      BY <1>7, <3>1 DEF ChunkDone
    <3> HIDE DEF new
    <3> QED BY <3>2, <3>3, SubmittedIs, GoIs
  <2> QED BY <1>7, <2>1, <2>2 DEF ChunkDone
<1>8. CASE Publish(a)
  BY <1>8, ReturnIs, GotoIs DEF Publish
<1>9. CASE RecordFailure(a) \/ AttemptDies(a)
  BY <1>9, ReturnIs DEF RecordFailure, AttemptDies
<1> QED BY <1>1, <1>2, <1>3, <1>4, <1>5, <1>6, <1>7, <1>8, <1>9 DEF AttemptStep

----------------------------------------------------------------------------
(* Tables *)

(* What a step of a for its scan may do to the tables.                     *)
TablesAreKept ==
  /\ runs' \in [Manifests -> RunRows]
  /\ \A r \in stage' \cup fills' : r.scan \in Manifests
  /\ StaysCanonical /\ OneCanonicalScan'

LEMMA UnchangedTables ==
  ASSUME ScanShapes, OneCanonicalScan, UNCHANGED tables
  PROVE  TablesAreKept /\ (StagedIsFound => StagedIsFound')
<1>1. UNCHANGED <<runs, chunks, stage, fills>>
  BY DEF tables
<1>2. TablesAreKept
  BY <1>1 DEF ScanShapes, TablesAreKept, StaysCanonical, OneCanonicalScan, IsCanonical
<1> QED BY <1>1, <1>2 DEF StagedIsFound, Staged, Found, Successful

(* Only the run of one scan changes, and it was and is not canonical.      *)
LEMMA OneRunChanges ==
  ASSUME ScanShapes, OneCanonicalScan, NEW s \in Manifests, NEW row \in RunRows, runs' = [runs EXCEPT ![s] = row],
         ~IsCanonical(runs[s]), ~row.raw, UNCHANGED fills
  PROVE  /\ runs' \in [Manifests -> RunRows] /\ StaysCanonical /\ OneCanonicalScan'
         /\ runs'[s] = row /\ \A r \in Manifests \ {s} : runs'[r] = runs[r]
<1>1. /\ runs' \in [Manifests -> RunRows] /\ runs'[s] = row
      /\ \A r \in Manifests \ {s} : runs'[r] = runs[r]
  BY DEF ScanShapes
<1>2. StaysCanonical
  BY <1>1 DEF StaysCanonical, IsCanonical
<1>3. OneCanonicalScan'
  <2> SUFFICES ASSUME fills # {} PROVE OneCanonicalScan'
    BY DEF OneCanonicalScan
  <2>1. PICK r \in Manifests : /\ IsCanonical(runs[r]) /\ \A f \in fills : f.scan = r
                               /\ \A q \in Manifests \ {r} : ~runs[q].raw
    BY DEF OneCanonicalScan
  <2>2. r # s
    BY <2>1
  <2>3. IsCanonical(runs'[r]) /\ \A q \in Manifests \ {r} : ~runs'[q].raw
    BY <1>1, <2>1, <2>2 DEF IsCanonical
  <2> QED BY <2>1, <2>3 DEF OneCanonicalScan, IsCanonical
<1> QED BY <1>1, <1>2, <1>3

LEMMA StartIs ==
  ASSUME ScanShapes, OneCanonicalScan, NEW a \in Attempts, StartScan(a), attempts'[a].pc # "idle"
  PROVE  TablesAreKept /\ Open(runs'[attempts[a].scan]) /\ (StagedIsFound => StagedIsFound')
<1> DEFINE s == attempts[a].scan
           row == [status |-> "running", raw |-> FALSE,
                   verified |-> IF runs[s].status = "published" THEN "not_requested" ELSE runs[s].verified]
<1>1. s \in Manifests /\ runs[s] \in RunRows /\ runs \in [Manifests -> RunRows]
  BY DEF StartScan, ScanShapes
<1>2. ~Return(a)
  BY DEF Return, Move, Idle, ScanShapes
<1>3. /\ ~IsCanonical(runs[s]) /\ UNCHANGED fills /\ runs' = [runs EXCEPT ![s] = row]
      /\ chunks' = IF runs[s].status = "published" THEN {c \in chunks : c.scan # s} ELSE chunks
      /\ stage' = IF runs[s].status = "published" THEN {r \in stage : r.scan # s} ELSE stage
  BY <1>2 DEF StartScan
<1>4. row \in RunRows /\ ~row.raw /\ row.status = "running"
  BY <1>1 DEF RunRows
<1> HIDE DEF s, row
<1>5. /\ runs' \in [Manifests -> RunRows] /\ StaysCanonical /\ OneCanonicalScan'
      /\ runs'[s] = row /\ \A r \in Manifests \ {s} : runs'[r] = runs[r]
  BY <1>1, <1>3, <1>4, OneRunChanges
<1>6. TablesAreKept
  BY <1>3, <1>5 DEF TablesAreKept, ScanShapes
<1>7. ASSUME StagedIsFound PROVE StagedIsFound'
  <2> SUFFICES ASSUME NEW q \in Manifests, runs'[q].status # "published" PROVE Staged(q)' = Found(q)'
    BY DEF StagedIsFound
  <2>1. CASE q = s /\ runs[s].status = "published"
    <3>1. Staged(q)' = {} /\ Successful(q)' = {}
      BY <1>3, <2>1 DEF Staged, Successful
    <3> QED BY <3>1 DEF Found
  <2>2. CASE ~(q = s /\ runs[s].status = "published")
    <3>1. Staged(q)' = Staged(q) /\ Successful(q)' = Successful(q)
      BY <1>3, <2>2 DEF Staged, Successful
    <3>2. runs[q].status # "published"
      BY <1>5, <2>2
    <3> QED BY <1>7, <3>1, <3>2 DEF StagedIsFound, Found
  <2> QED BY <2>1, <2>2
<1> QED BY <1>4, <1>5, <1>6, <1>7 DEF Open, s

LEMMA RowsAreOfTheChunk ==
  ASSUME NEW s, NEW c
  PROVE  \A r \in RowsOf(s, c) : r.scan = s /\ r.exchange = c.exchange /\ r.from = c.from /\ r.to = c.to
BY DEF RowsOf, LeafRows

LEMMA RevalidateIs ==
  ASSUME ScanShapes, OneCanonicalScan, NEW a \in Attempts, Revalidate(a)
  PROVE  TablesAreKept /\ UNCHANGED runs /\ (StagedIsFound => StagedIsFound')
<1> DEFINE s == attempts[a].scan
           stale == Stale(attempts[a].seen)
<1>1. UNCHANGED <<runs, fills>>
  BY DEF Revalidate
<1>2. CASE UNCHANGED <<chunks, stage>>
  BY <1>1, <1>2, UnchangedTables DEF tables
<1>3. CASE /\ chunks' = {c \in chunks : ~(c \in Successful(s) /\ \E x \in stale : Covers(x, c))}
           /\ stage' = (stage \ Staged(s)) \cup StillStaged(s, stale)
  <2> HIDE DEF stale
  <2>1. \A q \in Manifests :
          /\ Staged(q)' = IF q = s THEN {r \in Staged(q) : ~\E x \in stale : Covers(x, r)} ELSE Staged(q)
          /\ Successful(q)' = IF q = s THEN {c \in Successful(q) : ~\E x \in stale : Covers(x, c)} ELSE Successful(q)
    BY <1>3 DEF Staged, Successful, StillStaged
  <2>2. TablesAreKept
    <3>1. stage' \subseteq stage
      BY <1>3 DEF Staged, StillStaged
    <3> QED BY <1>1, <3>1 DEF ScanShapes, TablesAreKept, StaysCanonical, OneCanonicalScan, IsCanonical
  <2>3. ASSUME StagedIsFound PROVE StagedIsFound'
    <3> SUFFICES ASSUME NEW q \in Manifests, runs[q].status # "published" PROVE Staged(q)' = Found(q)'
      BY <1>1 DEF StagedIsFound
    <3>1. Staged(q) = Found(q)
      BY <2>3 DEF StagedIsFound
    <3>2. CASE q # s
      BY <2>1, <3>1, <3>2 DEF Found
    <3>3. CASE q = s
      <4>1. \A x, c : \A r \in RowsOf(q, c) : Covers(x, r) <=> Covers(x, c)
        BY RowsAreOfTheChunk DEF Covers
      <4>2. \A r : r \in Staged(q)' <=> r \in Staged(q) /\ ~\E x \in stale : Covers(x, r)
        BY <2>1, <3>3
      <4>3. \A c : c \in Successful(q)' <=> c \in Successful(q) /\ ~\E x \in stale : Covers(x, c)
        BY <2>1, <3>3
      <4>4. \A r : r \in Found(q) <=> \E c \in Successful(q) : r \in RowsOf(q, c)
        BY DEF Found
      <4>5. \A r : r \in Found(q)' <=> \E c \in Successful(q)' : r \in RowsOf(q, c)
        BY DEF Found, RowsOf, LeafRows
      <4>6. \A r : r \in Staged(q)' <=> r \in Found(q)'
        BY <3>1, <4>1, <4>2, <4>3, <4>4, <4>5
      <4> QED BY <4>6
    <3> QED BY <3>2, <3>3
  <2> QED BY <1>1, <2>2, <2>3
<1> QED BY <1>2, <1>3 DEF Revalidate

LEMMA RecordIs ==
  ASSUME ScanShapes, OneCanonicalScan, NEW a \in Attempts, RecordLeaf(a)
  PROVE  TablesAreKept /\ UNCHANGED runs /\ (StagedIsFound => StagedIsFound')
<1> DEFINE s == attempts[a].scan
           leaf == [exchange |-> attempts[a].target.exchange, from |-> attempts[a].leaves[1][1],
                    to |-> attempts[a].leaves[1][2]]
           chunk == [scan |-> s, exchange |-> leaf.exchange, from |-> leaf.from, to |-> leaf.to, status |-> "success",
                     fills |-> Cardinality(LeafRows(s, leaf)), headers |-> Headers(leaf.from, leaf.to)]
           kept(x) == ~(x.scan = s /\ Covers(x, leaf))
<1>1. CASE UNCHANGED tables
  BY <1>1, UnchangedTables DEF tables
<1>2. CASE /\ chunks' = {c \in chunks : kept(c)} \cup {chunk}
           /\ stage' = {r \in stage : kept(r)} \cup LeafRows(s, leaf)
           /\ UNCHANGED <<runs, fills>>
  <2>1. s \in Manifests
    BY DEF RecordLeaf, ScanShapes
  <2>2. chunk.scan = s /\ chunk.status = "success" /\ chunk.exchange = leaf.exchange /\ chunk.from = leaf.from
        /\ chunk.to = leaf.to /\ leaf = [exchange |-> leaf.exchange, from |-> leaf.from, to |-> leaf.to]
    OBVIOUS
  <2> HIDE DEF chunk, leaf, s
  <2>3. \A r \in LeafRows(s, leaf) : r.scan = s /\ r.exchange = leaf.exchange /\ r.from = leaf.from /\ r.to = leaf.to
    BY DEF LeafRows
  <2>4. TablesAreKept
    <3>1. \A r \in stage' : r.scan \in Manifests
      BY <1>2, <2>1, <2>3 DEF ScanShapes
    <3> QED BY <1>2, <3>1 DEF ScanShapes, TablesAreKept, StaysCanonical, OneCanonicalScan, IsCanonical
  <2>5. ASSUME StagedIsFound PROVE StagedIsFound'
    <3> SUFFICES ASSUME NEW q \in Manifests, runs[q].status # "published" PROVE Staged(q)' = Found(q)'
      BY <1>2 DEF StagedIsFound
    <3>1. Staged(q) = Found(q)
      BY <2>5 DEF StagedIsFound
    <3>2. CASE q # s
      <4>1. Staged(q)' = Staged(q) /\ Successful(q)' = Successful(q)
        BY <1>2, <2>2, <2>3, <3>2 DEF Staged, Successful
      <4> QED BY <3>1, <4>1 DEF Found
    <3>3. CASE q = s
      <4>1. Staged(q)' = {r \in Staged(q) : ~Covers(r, leaf)} \cup LeafRows(q, leaf)
        BY <1>2, <2>3, <3>3 DEF Staged
      <4>2. Successful(q)' = {c \in Successful(q) : ~Covers(c, leaf)} \cup {chunk}
        BY <1>2, <2>2, <3>3 DEF Successful
      <4>3. \A c : \A r \in RowsOf(q, c) : Covers(r, leaf) <=> Covers(c, leaf)
        BY RowsAreOfTheChunk DEF Covers
      <4>4. RowsOf(q, chunk) = LeafRows(q, leaf)
        BY <2>2 DEF RowsOf
      <4>5. \A r : r \in Found(q) <=> \E c \in Successful(q) : r \in RowsOf(q, c)
        BY DEF Found
      <4>6. \A r : r \in Found(q)' <=> \E c \in Successful(q)' : r \in RowsOf(q, c)
        BY DEF Found, RowsOf, LeafRows
      <4>7. \A r : r \in Staged(q)' <=> r \in Found(q)'
        BY <3>1, <4>1, <4>2, <4>3, <4>4, <4>5, <4>6
      <4> QED BY <4>7
    <3> QED BY <3>2, <3>3
  <2> QED BY <1>2, <2>4, <2>5
<1> QED BY <1>1, <1>2 DEF RecordLeaf

LEMMA PublishIs ==
  ASSUME ScanShapes, OneCanonicalScan, NEW a \in Attempts, Publish(a)
  PROVE  /\ TablesAreKept /\ (StagedIsFound => StagedIsFound')
         /\ Open(runs[attempts[a].scan]) => Open(runs'[attempts[a].scan])
         /\ \A r \in Manifests \ {attempts[a].scan} : runs'[r].status = runs[r].status
<1> DEFINE s == attempts[a].scan
<1>1. CASE UNCHANGED tables
  BY <1>1, UnchangedTables DEF tables
<1>2. CASE /\ chunks' = WithoutFailures(s) /\ runs' = Superseding(s)
           /\ fills' = {[scan |-> s, leg |-> r.leg] : r \in Staged(s)} /\ stage' = stage \ Staged(s)
  <2>1. s \in Manifests
    BY DEF Publish, ScanShapes
  <2> HIDE DEF s
  <2>2. /\ runs' \in [Manifests -> RunRows] /\ runs'[s].status = "published" /\ runs'[s].raw = TRUE
        /\ \A r \in Manifests \ {s} : runs'[r].status = runs[r].status /\ runs'[r].raw = FALSE
    <3>1. runs \in [Manifests -> RunRows]
      BY DEF ScanShapes
    <3>2. /\ \A r \in Manifests : [runs[r] EXCEPT !.status = "published", !.raw = TRUE] \in RunRows
          /\ \A r \in Manifests : [runs[r] EXCEPT !.raw = FALSE] \in RunRows
      BY <3>1 DEF RunRows
    <3>3. runs' = [r \in Manifests |-> IF r = s THEN [runs[r] EXCEPT !.status = "published", !.raw = TRUE]
                                       ELSE [runs[r] EXCEPT !.raw = FALSE]]
      BY <1>2 DEF Superseding
    <3> QED BY <2>1, <3>1, <3>2, <3>3 DEF RunRows
  <2>3. StaysCanonical
    BY <2>1, <2>2 DEF StaysCanonical, IsCanonical
  <2>4. OneCanonicalScan'
    BY <1>2, <2>1, <2>2 DEF OneCanonicalScan, IsCanonical
  <2>5. TablesAreKept
    BY <1>2, <2>1, <2>2, <2>3, <2>4 DEF TablesAreKept, ScanShapes
  <2>6. ASSUME StagedIsFound PROVE StagedIsFound'
    <3> SUFFICES ASSUME NEW q \in Manifests, runs'[q].status # "published" PROVE Staged(q)' = Found(q)'
      BY DEF StagedIsFound
    <3>1. q # s /\ runs[q].status # "published"
      BY <2>2
    <3>2. Staged(q)' = Staged(q) /\ Successful(q)' = Successful(q)
      BY <1>2, <3>1 DEF Staged, Successful, WithoutFailures
    <3> QED BY <2>6, <3>1, <3>2 DEF StagedIsFound, Found
  <2>7. Open(runs'[s])
    BY <2>2 DEF Open
  <2> QED BY <2>2, <2>5, <2>6, <2>7 DEF s
<1> QED BY <1>1, <1>2 DEF Publish

LEMMA FailureIs ==
  ASSUME ScanShapes, OneCanonicalScan, NEW a \in Attempts, RecordFailure(a)
  PROVE  /\ TablesAreKept
         /\ Open(runs[attempts[a].scan]) => Open(runs'[attempts[a].scan]) /\ (StagedIsFound => StagedIsFound')
         /\ \A r \in Manifests \ {attempts[a].scan} : runs'[r] = runs[r]
<1> DEFINE s == attempts[a].scan
           at == [exchange |-> attempts[a].target.exchange, from |-> attempts[a].range[1], to |-> attempts[a].range[2]]
           failed == [scan |-> s, exchange |-> at.exchange, from |-> at.from, to |-> at.to,
                      status |-> "failed", fills |-> 0, headers |-> <<>>]
           row == [runs[s] EXCEPT !.status = "failed", !.raw = FALSE]
<1>1. CASE UNCHANGED tables
  BY <1>1, UnchangedTables DEF tables
<1>2. CASE /\ ~IsCanonical(runs[s]) /\ UNCHANGED <<stage, fills>>
           /\ \/ UNCHANGED chunks
              \/ /\ ~\E c \in Successful(s) : Covers(c, at)
                 /\ chunks' = {c \in chunks : ~(c.scan = s /\ Covers(c, at))} \cup {failed}
           /\ runs' = [runs EXCEPT ![s].status = "failed", ![s].raw = FALSE]
  <2>1. s \in Manifests /\ runs[s] \in RunRows
    BY DEF RecordFailure, ScanShapes
  <2>2. failed.status = "failed"
    OBVIOUS
  <2>3. row \in RunRows /\ ~row.raw /\ row.status = "failed"
    BY <2>1 DEF RunRows
  <2>4. runs' = [runs EXCEPT ![s] = row]
    BY <1>2
  <2> HIDE DEF s, at, failed, row
  <2>5. /\ runs' \in [Manifests -> RunRows] /\ StaysCanonical /\ OneCanonicalScan'
        /\ runs'[s] = row /\ \A r \in Manifests \ {s} : runs'[r] = runs[r]
    BY <1>2, <2>1, <2>3, <2>4, OneRunChanges
  <2>6. TablesAreKept
    BY <1>2, <2>5 DEF TablesAreKept, ScanShapes
  <2>7. ASSUME Open(runs[s]), StagedIsFound PROVE StagedIsFound'
    <3>1. runs[s].status # "published"
      BY <1>2, <2>7 DEF Open, IsCanonical
    <3>2. \A q \in Manifests : Staged(q)' = Staged(q) /\ Successful(q)' = Successful(q)
      BY <1>2, <2>2 DEF Staged, Successful
    <3>3. \A q \in Manifests : runs'[q].status # "published" => runs[q].status # "published"
      BY <2>5, <3>1
    <3> QED BY <2>7, <3>2, <3>3 DEF StagedIsFound, Found
  <2>8. Open(runs'[s])
    BY <2>3, <2>5 DEF Open
  <2> QED BY <2>5, <2>6, <2>7, <2>8 DEF s
<1> QED BY <1>1, <1>2 DEF RecordFailure, CannotFail

LEMMA VerifyIs ==
  ASSUME ScanShapes, OneCanonicalScan, VerifyBegin \/ VerifyEnd
  PROVE  /\ TablesAreKept /\ UNCHANGED attempts /\ (verifier' = NoVerifier \/ verifier'.scan \in Manifests)
         /\ StagedIsFound => StagedIsFound'
         /\ \A r \in Manifests : runs'[r].status = runs[r].status /\ runs'[r].raw = runs[r].raw
<1>1. CASE VerifyBegin
  <2>1. UNCHANGED <<tables, attempts>> /\ UNCHANGED runs
    BY <1>1 DEF VerifyBegin, tables
  <2>2. PICK f \in fills : verifier' = [scan |-> f.scan, seen |-> Successful(f.scan)]
    BY <1>1 DEF VerifyBegin
  <2> QED BY <2>1, <2>2, UnchangedTables DEF ScanShapes
<1>2. CASE VerifyEnd
  <2>1. PICK found \in {"matched", "mismatched", "error"} : runs' = [runs EXCEPT ![verifier.scan].verified = found]
    BY <1>2 DEF VerifyEnd
  <2> DEFINE s == verifier.scan
             row == [runs[s] EXCEPT !.verified = found]
  <2>2. s \in Manifests /\ runs \in [Manifests -> RunRows]
    BY <1>2 DEF VerifyEnd, ScanShapes
  <2>3. row \in RunRows /\ row.status = runs[s].status /\ row.raw = runs[s].raw /\ runs' = [runs EXCEPT ![s] = row]
    BY <2>1, <2>2 DEF RunRows
  <2> HIDE DEF row, s
  <2>4. /\ runs' \in [Manifests -> RunRows]
        /\ \A r \in Manifests : runs'[r].status = runs[r].status /\ runs'[r].raw = runs[r].raw
    BY <2>2, <2>3
  <2>5. UNCHANGED <<chunks, stage, fills, attempts>> /\ verifier' = NoVerifier
    BY <1>2 DEF VerifyEnd
  <2>6. StaysCanonical
    BY <2>4 DEF StaysCanonical, IsCanonical
  <2>7. OneCanonicalScan'
    BY <2>4, <2>5 DEF OneCanonicalScan, IsCanonical
  <2>8. TablesAreKept
    BY <2>4, <2>5, <2>6, <2>7 DEF TablesAreKept, ScanShapes
  <2>9. StagedIsFound => StagedIsFound'
    BY <2>4, <2>5 DEF StagedIsFound, Staged, Found, Successful
  <2> QED BY <2>4, <2>5, <2>8, <2>9
<1> QED BY <1>1, <1>2

(* The steps of an attempt that leave the tables alone.                    *)
Quiet(a) ==
  ReadChunks(a) \/ RevalidateFails(a) \/ PlanWork(a) \/ LeavesArrive(a) \/ ChunkDone(a) \/ CheckPublication(a) \/ AttemptDies(a)

LEMMA QuietIs ==
  ASSUME ScanShapes, NEW a \in Attempts, Quiet(a)
  PROVE  UNCHANGED tables
BY DEF Quiet, ReadChunks, RevalidateFails, PlanWork, LeavesArrive, ChunkDone, CheckPublication, AttemptDies

LEMMA AdvanceKeepsTables ==
  ASSUME ScanShapes, OneCanonicalScan, NEW a \in Attempts, AttemptStep(a) \/ AttemptDies(a)
  PROVE  TablesAreKept
<1>1. CASE StartScan(a)
  <2>1. CASE attempts'[a].pc # "idle"
    BY <1>1, <2>1, StartIs
  <2>2. CASE attempts'[a].pc = "idle"
    <3>1. UNCHANGED tables
      BY <1>1, <2>2, GotoIs DEF StartScan
    <3> QED BY <3>1, UnchangedTables
  <2> QED BY <2>1, <2>2
<1>2. CASE Revalidate(a) \/ RecordLeaf(a)
  BY <1>2, RevalidateIs, RecordIs
<1>3. CASE Publish(a) \/ RecordFailure(a)
  BY <1>3, PublishIs, FailureIs
<1>4. CASE Quiet(a)
  BY <1>4, QuietIs, UnchangedTables
<1> QED BY <1>1, <1>2, <1>3, <1>4 DEF AttemptStep, Quiet

LEMMA BeginIs ==
  ASSUME ScanShapes, NEW a \in Attempts, Begin(a)
  PROVE  Moves(a) /\ attempts'[a].pc = "start" /\ attempts'[a].scan = seed
<1> DEFINE new == [Idle EXCEPT !.pc = "start", !.scan = seed]
<1>1. IsAttempt(new) /\ new.pc = "start" /\ new.scan = seed
  <2>1. IsAttempt(Idle) /\ new = [Idle EXCEPT !.pc = "start", !.scan = seed]
    BY DEF IsAttempt, Idle
  <2> HIDE DEF new
  <2> QED BY <2>1 DEF IsAttempt
<1>2. Move(a, new) /\ seed \in Manifests
  BY DEF Begin, ScanShapes
<1> HIDE DEF new
<1> QED BY <1>1, <1>2, MoveIs

(* Whatever happens, the shapes stay, a canonical scan stays unless it is  *)
(* replaced, and it stays the only one.                                    *)
LEMMA NextKeepsOneScan ==
  ASSUME ScanShapes, OneCanonicalScan, [SettlementNext]_settlement
  PROVE  ScanShapes' /\ TablesAreKept
<1>1. ASSUME NEW a \in Attempts, Begin(a) PROVE ScanShapes' /\ TablesAreKept
  <2>1. Moves(a) /\ TablesAreKept
    BY <1>1, BeginIs, UnchangedTables DEF Begin
  <2> QED BY <1>1, <2>1 DEF Begin, ScanShapes, Moves, TablesAreKept, environment
<1>2. ASSUME NEW a \in Attempts, AttemptStep(a) \/ AttemptDies(a) PROVE ScanShapes' /\ TablesAreKept
  <2>1. Moves(a) /\ TablesAreKept
    BY <1>2, AdvanceGoesOn, AdvanceKeepsTables DEF GoesOn
  <2>2. UNCHANGED <<seed, verifier>>
    BY <1>2 DEF AttemptStep, StartScan, ReadChunks, Revalidate, RevalidateFails, PlanWork, LeavesArrive, RecordLeaf,
      ChunkDone, CheckPublication, Publish, RecordFailure, AttemptDies, environment
  <2> QED BY <2>1, <2>2 DEF ScanShapes, Moves, TablesAreKept
<1>3. CASE VerifyBegin \/ VerifyEnd
  <2>1. UNCHANGED seed
    BY <1>3 DEF VerifyBegin, VerifyEnd, environment
  <2> QED BY <1>3, <2>1, VerifyIs DEF ScanShapes, TablesAreKept
<1>4. CASE Reseed \/ Fork \/ UNCHANGED settlement
  <2>1. UNCHANGED <<tables, attempts, verifier>> /\ seed' \in Manifests
    BY <1>4 DEF Reseed, Fork, settlement, environment, ScanShapes
  <2> QED BY <2>1, UnchangedTables DEF ScanShapes, TablesAreKept, tables
<1> QED BY <1>1, <1>2, <1>3, <1>4 DEF SettlementNext

----------------------------------------------------------------------------
(* Resuming *)

LEMMA AdvanceKeepsStage ==
  ASSUME ScanShapes, OneCanonicalScan, InvR, NEW a \in Attempts, AttemptStep(a) \/ AttemptDies(a)
  PROVE  InvR'
<1> DEFINE s == attempts[a].scan
<1>1. GoesOn(a)
  BY AdvanceGoesOn
<1>2. attempts[a].pc # "idle" /\ s \in Manifests /\ \A b \in Attempts : attempts'[b].pc # "idle" => attempts'[b].scan = s
  BY <1>1 DEF GoesOn, Moves, InvR, OneScan
<1>3. OneScan'
  BY <1>2 DEF OneScan
<1>4. attempts[a].pc # "start" => Open(runs[s])
  BY <1>2 DEF InvR, UnderWayIsOpen, Open
<1>5. \A b \in Attempts \ {a} : attempts[b].pc \notin {"idle", "start"} => Open(runs[s])
  BY <1>2 DEF InvR, OneScan, UnderWayIsOpen, Open
<1>6. ASSUME UNCHANGED runs, attempts[a].pc # "start" \/ attempts'[a].pc = "idle" PROVE UnderWayIsOpen'
  BY <1>1, <1>2, <1>4, <1>5, <1>6 DEF UnderWayIsOpen, Open, GoesOn, Moves
<1>7. ASSUME Open(runs'[s]) PROVE UnderWayIsOpen'
  BY <1>2, <1>7 DEF UnderWayIsOpen, Open
<1>8. CASE StartScan(a)
  <2>1. CASE attempts'[a].pc # "idle"
    BY <1>3, <1>7, <1>8, <2>1, StartIs DEF InvR
  <2>2. CASE attempts'[a].pc = "idle"
    <3>1. UNCHANGED tables
      BY <1>8, <2>2, GotoIs DEF StartScan
    <3> QED BY <1>3, <1>6, <2>2, <3>1, UnchangedTables DEF InvR, tables
  <2> QED BY <2>1, <2>2
<1>9. CASE Revalidate(a) \/ RecordLeaf(a)
  <2>1. attempts[a].pc # "start"
    BY <1>9 DEF Revalidate, RecordLeaf
  <2> QED BY <1>3, <1>6, <1>9, <2>1, RevalidateIs, RecordIs DEF InvR
<1>10. CASE Publish(a) \/ RecordFailure(a)
  <2>1. attempts[a].pc # "start"
    BY <1>10 DEF Publish, RecordFailure
  <2> QED BY <1>3, <1>4, <1>7, <1>10, <2>1, PublishIs, FailureIs DEF InvR
<1>11. CASE Quiet(a)
  <2>1. attempts[a].pc # "start" \/ attempts'[a].pc = "idle"
    <3>1. CASE AttemptDies(a)
      BY <3>1 DEF AttemptDies, Return, Move, Idle, ScanShapes
    <3> QED BY <1>11, <3>1 DEF Quiet, ReadChunks, RevalidateFails, PlanWork, LeavesArrive, ChunkDone, CheckPublication
  <2>2. UNCHANGED tables
    BY <1>11, QuietIs
  <2> QED BY <1>3, <1>6, <2>1, <2>2, UnchangedTables DEF InvR, tables
<1> QED BY <1>8, <1>9, <1>10, <1>11 DEF AttemptStep, Quiet

LEMMA NextKeepsStage ==
  ASSUME "seed" \notin Overlap, ScanShapes, OneCanonicalScan, InvR, [SettlementNext]_settlement
  PROVE  InvR'
<1>1. ASSUME NEW a \in Attempts, Begin(a) PROVE InvR'
  <2>1. Moves(a) /\ attempts'[a].pc = "start" /\ attempts'[a].scan = seed
    BY <1>1, BeginIs
  <2>2. \A b \in Attempts : attempts[b].pc # "idle" => attempts[b].scan = seed
    BY <1>1 DEF Begin
  <2>3. UNCHANGED tables /\ UNCHANGED runs
    BY <1>1 DEF Begin, tables
  <2>4. OneScan'
    BY <2>1, <2>2 DEF OneScan, Moves
  <2>5. UnderWayIsOpen'
    BY <2>1, <2>3 DEF InvR, UnderWayIsOpen, Moves
  <2> QED BY <2>3, <2>4, <2>5, UnchangedTables DEF InvR
<1>2. ASSUME NEW a \in Attempts, AttemptStep(a) \/ AttemptDies(a) PROVE InvR'
  BY <1>2, AdvanceKeepsStage
<1>3. CASE VerifyBegin \/ VerifyEnd
  BY <1>3, VerifyIs DEF InvR, OneScan, UnderWayIsOpen, ScanShapes
<1>4. CASE Reseed \/ Fork \/ UNCHANGED settlement
  <2>1. UNCHANGED <<tables, attempts, runs>>
    BY <1>4 DEF Reseed, Fork, settlement, environment, tables
  <2> QED BY <2>1, UnchangedTables DEF InvR, OneScan, UnderWayIsOpen
<1> QED BY <1>1, <1>2, <1>3, <1>4 DEF SettlementNext

----------------------------------------------------------------------------
(* Theorems *)

(* A scan that the release reads stops being canonical only when another   *)
(* published scan takes its place: no late failure, no second attempt and  *)
(* no verification demotes it, whatever the seeds and the provider do.     *)
THEOREM CanonicalIsNeverDemoted == SettlementSpec => NeverDemoted
<1>1. ScanShapes /\ OneCanonicalScan /\ [SettlementNext]_settlement => ScanShapes' /\ OneCanonicalScan'
  BY NextKeepsOneScan DEF TablesAreKept
<1>2. ScanShapes /\ OneCanonicalScan /\ [SettlementNext]_settlement =>
        [\A s \in Manifests : IsCanonical(runs[s]) /\ ~IsCanonical(runs[s])' =>
           runs'[s].status = "published" /\ \E r \in Manifests \ {s} : IsCanonical(runs[r])']_settlement
  BY NextKeepsOneScan DEF TablesAreKept, StaysCanonical
<1> QED BY InitIsShaped, <1>1, <1>2, PTL DEF SettlementSpec, NeverDemoted

(* Canonical fills are those of one scan, which is published, and no other *)
(* scan is marked as theirs: a release cannot mix two scans.               *)
THEOREM OneScanIsCanonical == SettlementSpec => []OneCanonicalScan
<1>1. ScanShapes /\ OneCanonicalScan /\ [SettlementNext]_settlement => ScanShapes' /\ OneCanonicalScan'
  BY NextKeepsOneScan DEF TablesAreKept
<1> QED BY InitIsShaped, <1>1, PTL DEF SettlementSpec

(* While the seed waits for its scan, a scan that can be resumed has       *)
(* staged the fills of every chunk that it will not scan again, and no     *)
(* others: over crashes, failures, discarded chunks, forks, and attempts   *)
(* that work on it side by side.                                           *)
THEOREM ResumedScansAreStaged == "seed" \notin Overlap => (SettlementSpec => []ResumableIsStaged)
<1> SUFFICES ASSUME "seed" \notin Overlap PROVE SettlementSpec => []ResumableIsStaged
  OBVIOUS
<1> DEFINE IInv == ScanShapes /\ OneCanonicalScan /\ InvR
<1>1. SettlementInit => IInv
  BY InitIsShaped
<1>2. IInv /\ [SettlementNext]_settlement => IInv'
  BY NextKeepsOneScan, NextKeepsStage DEF TablesAreKept
<1>3. IInv => ResumableIsStaged
  BY DEF InvR, StagedIsFound, Found, RowsOf, ResumableIsStaged
<1> QED BY <1>1, <1>2, <1>3, PTL DEF SettlementSpec

-----------------------------------------------------------------------------
(* Releases *)

AllFills == UNION {FillLists[s] : s \in Scans}
Identities == {IdentityOf[s] : s \in Seeds}
Csvs     == [version : Versions, identity : Identities, fills : AllFills]
Provenances == [version : Versions, attested : Seeds, csv : Csvs, scan : Scans, seed : Seeds, status : Statuses]
Bundles  == [csv : Csvs, provenance : Provenances,
             quality : [status : Statuses, ready : BOOLEAN, issues : SUBSET {"verification"}],
             sidecar : Seeds, checksums : [csv : Csvs, provenance : Provenances]]
Places   == 1 .. Len(built)

Runners == {[pc |-> "idle", work |-> Nothing]}
           \cup [pc : {"open", "provenance", "built"}, version : Versions, secondary : BOOLEAN,
                 work : Bundles \cup {Nothing}]
Copiers == {[pc |-> "idle", work |-> Nothing]}
           \cup [pc : {"copy"}, version : Versions, serial : Places,
                 copied : Seq(Csvs \cup Provenances \cup [csv : Csvs, provenance : Provenances]), work : {Nothing}]
           \cup [pc : {"written"}, version : Versions, work : [serial : Places, csv : Csvs, status : Statuses]]

(* The releases in place, and what is on the way there. *)
ReleaseShapes ==
  /\ draft \in Drafts /\ faults \in Nat
  /\ built \in Seq(Bundles)
  /\ audits \in [Versions -> {NoAudit} \cup [serial : Places, files : Bundles]]
  /\ exports \in [Versions -> {NoExport} \cup [serial : Places, csv : Csvs, status : Statuses]]
  /\ builder \in [Builders -> Runners] /\ exporter \in Copiers

(* Scans up to the canonical one have their fills, and the status of a scan *)
(* is what its last verification found.                                    *)
ScansStand ==
  /\ canonical \in 0 .. Cardinality(Scans)
  /\ DOMAIN run = Scans /\ DOMAIN verdict = Scans
  /\ \A s \in Scans : s =< canonical =>
       run[s] \in [seed : Seeds, fills : FillLists[s], status : Statuses] /\ verdict[s] = run[s].status
  /\ \A s \in Scans : s > canonical => run[s] = NoScan /\ verdict[s] = "not_requested"

(* The mart has passed its gate, and it is of the scan of a ready quality   *)
(* row, unless a build died between them.                                  *)
IsReady == quality # NoTable /\ quality.ready

TablesStand ==
  /\ dbt \in {"idle", "candidate", "quality", "mart"} /\ tornMart \in BOOLEAN
  /\ sidecar = NoTable \/ sidecar \in [scan : Scans, content : Seeds, declared : Seeds]
  /\ quality = NoTable \/ quality \in [scan : 1 .. canonical, ready : BOOLEAN, issues : SUBSET {"verification"}]
  /\ dbt # "idle" => canonical \in Scans /\ sidecar # NoTable
  /\ dbt \in {"quality", "mart"} =>
       candidate = [scan |-> canonical, identity |-> IdentityOf[sidecar.content], fills |-> run[canonical].fills]
  /\ dbt = "mart" => quality # NoTable /\ quality.scan = canonical /\ (quality.ready => FillsPass(candidate.fills))
  /\ mart = NoTable \/ (mart \in [scan : Scans, identity : Identities, fills : AllFills] /\ FillsPass(mart.fills))
  /\ mart # NoTable /\ IsReady /\ ~ tornMart /\ dbt # "mart" => mart.fills = run[quality.scan].fills

(* What is bundled is of one seed, lists itself, and passed the gate. *)
IsBundle(a) ==
  /\ {a.sidecar, a.provenance.attested} = {a.provenance.seed} /\ a.csv.identity = IdentityOf[a.provenance.seed]
  /\ a.checksums = [csv |-> a.csv, provenance |-> a.provenance]
  /\ FillsPass(a.csv.fills)

(* Who verifies has the warehouse to itself, who builds shares it with      *)
(* readers, and what is built is true as long as it is built.               *)
BuildersKeepApart ==
  \A b \in Builders : builder[b].pc # "idle" =>
    /\ dbt = "idle" /\ canonical \in Scans
    /\ builder[b].pc = "open" => builder[b].secondary
    /\ builder[b].secondary => \A c \in Builders \ {b} : builder[c].pc = "idle"

BundlesStand ==
  \A b \in Builders : builder[b].pc = "built" =>
    LET a == builder[b].work IN
    /\ a \in Bundles /\ IsBundle(a) /\ a.csv.version = builder[b].version
    /\ a.provenance.scan =< canonical
    /\ ~ tornMart => a.csv.fills = run[a.provenance.scan].fills
    /\ a.quality.status = "matched" => verdict[a.provenance.scan] = "matched"
    /\ (a.quality.status = "matched") = ("verification" \notin a.quality.issues)

(* A release in place may be edited, but not in the list of its files.      *)
ReleasesStand ==
  /\ \A i \in Places : IsBundle(built[i])
  /\ \A v \in Versions : audits[v] # NoAudit =>
       LET a == built[audits[v].serial] IN audits[v].files.checksums = a.checksums /\ a.csv.version = v
  /\ ExportIsOneAudit

(* What is copied first says what else there was.                           *)
CopyStands ==
  /\ exporter.pc = "copy" =>
       LET a == built[exporter.serial] IN
       a.csv.version = exporter.version /\ (Len(exporter.copied) > 0 => exporter.copied[1] = a.checksums)
  /\ exporter.pc = "written" =>
       LET a == built[exporter.work.serial] IN
       /\ a.csv = exporter.work.csv /\ a.csv.version = exporter.version
       /\ a.provenance.status = exporter.work.status

ReleaseInv ==
  /\ ReleaseShapes /\ ScansStand /\ TablesStand /\ BuildersKeepApart /\ BundlesStand
  /\ ReleasesStand /\ CopyStands

LEMMA ScansSame == ASSUME ScansStand, UNCHANGED <<canonical, run, verdict>> PROVE ScansStand'
  BY DEF ScansStand

LEMMA TablesSame ==
  ASSUME TablesStand, UNCHANGED <<canonical, run, sidecar, candidate, quality, mart, dbt, tornMart>>
  PROVE  TablesStand'
  BY DEF TablesStand, IsReady

LEMMA ApartSame == ASSUME BuildersKeepApart, UNCHANGED <<canonical, dbt, builder>> PROVE BuildersKeepApart'
  BY DEF BuildersKeepApart

LEMMA BundlesSame ==
  ASSUME BundlesStand, UNCHANGED <<canonical, run, verdict, tornMart, builder>> PROVE BundlesStand'
  BY DEF BundlesStand

LEMMA ReleasesSame == ASSUME ReleasesStand, UNCHANGED <<built, audits, exports>> PROVE ReleasesStand'
  BY DEF ReleasesStand, ExportIsOneAudit, Places

LEMMA CopySame == ASSUME CopyStands, UNCHANGED <<built, exporter>> PROVE CopyStands'
  BY DEF CopyStands

LEMMA InitReleases == ReleaseInit => ReleaseInv
<1> SUFFICES ASSUME ReleaseInit PROVE ReleaseInv
  OBVIOUS
<1> USE DEF ReleaseInit
<1>1. ReleaseShapes
  <2>1. built \in Seq(Bundles) /\ Len(built) = 0
    OBVIOUS
  <2> QED BY <2>1 DEF ReleaseShapes, Runners, Copiers
<1>2. ScansStand
  <2>1. Cardinality(Scans) \in Nat
    BY ReleaseAssumption, FS_CardinalityType
  <2> QED BY <2>1, ReleaseAssumption DEF ScansStand
<1>3. TablesStand
  BY DEF TablesStand
<1>4. BuildersKeepApart /\ BundlesStand /\ CopyStands
  BY DEF BuildersKeepApart, BundlesStand, CopyStands
<1>5. ReleasesStand
  BY DEF ReleasesStand, ExportIsOneAudit, Places
<1> QED BY <1>1, <1>2, <1>3, <1>4, <1>5 DEF ReleaseInv

LEMMA CommitSeedKeeps == ASSUME ReleaseInv, NEW d \in Drafts, CommitSeed(d) PROVE ReleaseInv'
<1> USE DEF ReleaseInv, CommitSeed, warehouse, releases, history
<1>1. ReleaseShapes'
  BY DEF ReleaseShapes, Copiers, Places
<1> QED BY <1>1, ScansSame, TablesSame, ApartSame, BundlesSame, ReleasesSame, CopySame

(* The scan that is published comes after the canonical one. *)
LEMMA PublishScanKeeps ==
  ASSUME ReleaseInv, NEW s \in Scans, NEW list \in FillLists[s], PublishScan(s, list) PROVE ReleaseInv'
<1> USE DEF ReleaseInv, PublishScan, releases, history
<1>1. /\ s = canonical + 1 /\ canonical' = s /\ canonical \in Nat /\ UNCHANGED verdict
      /\ run' = [run EXCEPT ![s] = [seed |-> draft.content, fills |-> list, status |-> "not_requested"]]
      /\ draft.content \in Seeds
  BY ReleaseAssumption, FS_CardinalityType DEF ScansStand, ReleaseShapes
<1>2. DOMAIN run' = Scans /\ \A q \in Scans : q # s => run'[q] = run[q]
  BY <1>1 DEF ScansStand
<1>3. run'[s] = [seed |-> draft.content, fills |-> list, status |-> "not_requested"]
  BY <1>1 DEF ScansStand
<1>4. Scans \subseteq Nat /\ Scans = 1 .. Cardinality(Scans) /\ Cardinality(Scans) \in Nat
  BY ReleaseAssumption, FS_CardinalityType
<1>5. ScansStand'
  <2>1. verdict[s] = "not_requested" /\ "not_requested" \in Statuses
    BY <1>1, <1>4 DEF ScansStand, Statuses
  <2> QED BY <1>1, <1>2, <1>3, <1>4, <2>1 DEF ScansStand
<1>6. dbt = "idle" /\ UNCHANGED dbt /\ UNCHANGED <<sidecar, candidate, quality, mart, tornMart, builder>>
  BY DEF WarehouseIsFree
<1>7. \A b \in Builders : builder[b].pc = "idle"
  BY DEF WarehouseIsFree, Readers
<1>8. TablesStand'
  <2>1. quality # NoTable => quality \in [scan : 1 .. canonical, ready : BOOLEAN, issues : SUBSET {"verification"}]
    BY DEF TablesStand
  <2>2. quality # NoTable => quality \in [scan : 1 .. canonical', ready : BOOLEAN, issues : SUBSET {"verification"}]
    BY <1>1, <2>1
  <2>3. mart # NoTable /\ IsReady /\ ~ tornMart => mart.fills = run'[quality.scan].fills
    <3>1. SUFFICES ASSUME mart # NoTable, IsReady, ~ tornMart PROVE mart.fills = run'[quality.scan].fills
      OBVIOUS
    <3>2. quality.scan \in 1 .. canonical
      BY <2>1, <3>1 DEF IsReady
    <3>3. quality.scan \in Scans /\ quality.scan # s
      BY <3>2, <1>1, <1>4
    <3> QED BY <1>2, <1>6, <3>1, <3>3 DEF TablesStand
  <2> QED BY <1>6, <2>2, <2>3 DEF TablesStand, IsReady
<1>9. ReleaseShapes'
  BY DEF ReleaseShapes, Copiers, Places
<1>10. BuildersKeepApart' /\ BundlesStand'
  BY <1>6, <1>7 DEF BuildersKeepApart, BundlesStand
<1> QED BY <1>5, <1>8, <1>9, <1>10, ReleasesSame, CopySame

(* A dbt build: each table is built from those before it.                  *)
LEMMA DbtSame ==
  ASSUME ReleaseInv, UNCHANGED <<draft, run, canonical, builder, exporter, audits, exports, built, verdict>>,
         faults' \in Nat, TablesStand',
         dbt' # "idle" \/ tornMart' # tornMart => \A b \in Builders : builder[b].pc = "idle"
  PROVE  ReleaseInv'
<1> USE DEF ReleaseInv
<1>1. ReleaseShapes'
  BY DEF ReleaseShapes, Copiers, Places
<1>2. BuildersKeepApart' /\ BundlesStand'
  BY DEF BuildersKeepApart, BundlesStand
<1> QED BY <1>1, <1>2, ScansSame, ReleasesSame, CopySame

LEMMA DbtAlone == ASSUME BuildersKeepApart, dbt # "idle" PROVE \A b \in Builders : builder[b].pc = "idle"
  BY DEF BuildersKeepApart

LEMMA CanonicalIs ==
  ASSUME ScansStand, canonical > 0
  PROVE  /\ canonical \in Scans /\ canonical \in Nat
         /\ run[canonical] \in [seed : Seeds, fills : FillLists[canonical], status : Statuses]
         /\ run[canonical].fills \in AllFills
<1>1. canonical \in Scans /\ canonical \in Nat
  BY ReleaseAssumption, FS_CardinalityType DEF ScansStand
<1>2. run[canonical] \in [seed : Seeds, fills : FillLists[canonical], status : Statuses]
  BY <1>1 DEF ScansStand
<1> QED BY <1>1, <1>2 DEF AllFills

LEMMA DbtSeedKeeps == ASSUME ReleaseInv, DbtSeed PROVE ReleaseInv'
<1> USE DEF DbtSeed, releases, history
<1>1. canonical \in Scans /\ canonical \in Nat
  BY CanonicalIs DEF ReleaseInv
<1>2. draft.content \in Seeds /\ draft.declared \in Seeds
  BY ReleaseAssumption DEF ReleaseInv, ReleaseShapes
<1>3. sidecar' \in [scan : Scans, content : Seeds, declared : Seeds] /\ sidecar' # NoTable
  BY <1>1, <1>2 DEF NoTable
<1>4. TablesStand'
  BY <1>1, <1>3 DEF ReleaseInv, TablesStand, IsReady, WarehouseIsFree
<1>5. \A b \in Builders : builder[b].pc = "idle"
  BY DEF WarehouseIsFree, Readers
<1> QED BY <1>4, <1>5, DbtSame DEF ReleaseInv, ReleaseShapes

LEMMA DbtCandidateKeeps == ASSUME ReleaseInv, DbtCandidate PROVE ReleaseInv'
<1> USE DEF DbtCandidate, releases, history
<1>1. TablesStand'
  BY DEF ReleaseInv, TablesStand, IsReady
<1> QED BY <1>1, DbtAlone, DbtSame DEF ReleaseInv, ReleaseShapes

LEMMA DbtQualityKeeps == ASSUME ReleaseInv, DbtQuality PROVE ReleaseInv'
<1> USE DEF DbtQuality, releases, history
<1>1. canonical \in Scans /\ canonical \in Nat /\ canonical > 0
  BY ReleaseAssumption, FS_CardinalityType DEF ReleaseInv, TablesStand, ScansStand
<1>2. quality' \in [scan : 1 .. canonical, ready : BOOLEAN, issues : SUBSET {"verification"}]
  BY <1>1 DEF GateIsReady
<1>3. quality' # NoTable /\ quality'.scan = canonical /\ (quality'.ready => FillsPass(candidate.fills))
  BY <1>1, <1>2 DEF NoTable, GateIsReady
<1>4. TablesStand'
  BY <1>2, <1>3 DEF ReleaseInv, TablesStand, IsReady
<1> QED BY <1>4, DbtAlone, DbtSame DEF ReleaseInv, ReleaseShapes

LEMMA DbtMartKeeps == ASSUME ReleaseInv, DbtMart PROVE ReleaseInv'
<1> USE DEF DbtMart, releases
<1>1. /\ canonical \in Scans /\ canonical > 0 /\ quality.scan = canonical /\ quality # NoTable
      /\ sidecar \in [scan : Scans, content : Seeds, declared : Seeds]
      /\ candidate = [scan |-> canonical, identity |-> IdentityOf[sidecar.content], fills |-> run[canonical].fills]
  BY ReleaseAssumption, FS_CardinalityType DEF ReleaseInv, TablesStand, ScansStand
<1>2. candidate \in [scan : Scans, identity : Identities, fills : AllFills]
  BY <1>1, CanonicalIs DEF ReleaseInv, Identities
<1>3. TablesStand'
  <2>1. CASE quality.ready
    <3>1. FillsPass(candidate.fills) /\ candidate.fills = run[quality.scan].fills /\ mart' = candidate
      BY <1>1, <2>1 DEF ReleaseInv, TablesStand
    <3>2. mart' \in [scan : Scans, identity : Identities, fills : AllFills] /\ FillsPass(mart'.fills)
          /\ mart'.fills = run[quality.scan].fills
      BY <1>2, <3>1
    <3> QED BY <3>2 DEF ReleaseInv, TablesStand, IsReady
  <2>2. CASE ~ quality.ready
    BY <2>2 DEF ReleaseInv, TablesStand, IsReady
  <2> QED BY <2>1, <2>2
<1> QED BY <1>3, DbtAlone, DbtSame DEF ReleaseInv, ReleaseShapes

LEMMA KillDbtKeeps == ASSUME ReleaseInv, KillDbt PROVE ReleaseInv'
<1> USE DEF KillDbt, releases
<1>1. TablesStand'
  BY DEF ReleaseInv, TablesStand, IsReady
<1> QED BY <1>1, DbtAlone, DbtSame DEF ReleaseInv, ReleaseShapes

(* Builders.  Only their own row changes. *)
LEMMA OpenKeeps ==
  ASSUME ReleaseInv, NEW b \in Builders, NEW v \in Versions, NEW secondary \in BOOLEAN, OpenRelease(b, v, secondary)
  PROVE  ReleaseInv'
<1> USE DEF OpenRelease, releases, history, warehouse
<1>1. /\ builder'[b] = [pc |-> IF secondary THEN "open" ELSE "provenance",
                        version |-> v, secondary |-> secondary, work |-> Nothing]
      /\ \A c \in Builders : c # b => builder'[c] = builder[c]
      /\ DOMAIN builder' = Builders
  BY DEF ReleaseInv, ReleaseShapes
<1>2. ReleaseShapes'
  <2>1. builder'[b] \in Runners
    BY <1>1 DEF Runners
  <2>2. builder' \in [Builders -> Runners]
    BY <1>1, <2>1 DEF ReleaseInv, ReleaseShapes
  <2> QED BY <2>2 DEF ReleaseInv, ReleaseShapes, Copiers, Places
<1>3. canonical \in Scans
  BY CanonicalIs DEF ReleaseInv
<1>4. BuildersKeepApart'
  <2>1. dbt = "idle" /\ \A c \in Builders : secondary => builder[c].pc = "idle"
    BY DEF WarehouseIsFree, CanRead, Readers
  <2>2. \A c \in Builders : builder[c].pc # "idle" => ~ builder[c].secondary \/ secondary
    BY DEF CanRead, Writers, Readers, WarehouseIsFree
  <2>3. ASSUME NEW c \in Builders, builder'[c].pc # "idle"
        PROVE  /\ dbt' = "idle" /\ canonical' \in Scans
               /\ builder'[c].pc = "open" => builder'[c].secondary
               /\ builder'[c].secondary => \A q \in Builders \ {c} : builder'[q].pc = "idle"
    <3>1. CASE c = b
      BY <1>1, <1>3, <2>1, <3>1
    <3>2. CASE c # b
      BY <1>1, <1>3, <2>1, <2>2, <2>3, <3>2 DEF ReleaseInv, BuildersKeepApart
    <3> QED BY <3>1, <3>2
  <2> QED BY <2>3 DEF BuildersKeepApart
<1>5. BundlesStand'
  BY <1>1 DEF ReleaseInv, BundlesStand
<1> QED BY <1>2, <1>4, <1>5, ScansSame, TablesSame, ReleasesSame, CopySame DEF ReleaseInv

(* A verification has the warehouse to itself: nothing is built meanwhile. *)
LEMMA VerifyKeeps ==
  ASSUME ReleaseInv, NEW b \in Builders, NEW outcome \in Statuses, Verify(b, outcome) PROVE ReleaseInv'
<1> USE DEF Verify, releases
<1>1. /\ builder[b].pc = "open" /\ canonical \in Scans /\ canonical > 0 /\ dbt = "idle"
      /\ \A c \in Builders : c # b => builder[c].pc = "idle"
  BY ReleaseAssumption, FS_CardinalityType DEF ReleaseInv, BuildersKeepApart, ScansStand
<1>2. /\ builder'[b].pc = "provenance" /\ builder'[b] \in Runners
      /\ \A c \in Builders : c # b => builder'[c] = builder[c]
      /\ DOMAIN builder' = Builders
  BY <1>1 DEF ReleaseInv, ReleaseShapes, Runners
<1>3. ReleaseShapes'
  <2>1. builder' \in [Builders -> Runners]
    BY <1>2 DEF ReleaseInv, ReleaseShapes
  <2> QED BY <2>1 DEF ReleaseInv, ReleaseShapes, Copiers, Places
<1>4. /\ DOMAIN run' = Scans /\ DOMAIN verdict' = Scans /\ verdict'[canonical] = outcome
      /\ \A s \in Scans : s # canonical => run'[s] = run[s] /\ verdict'[s] = verdict[s]
      /\ run'[canonical] \in [seed : Seeds, fills : FillLists[canonical], status : Statuses]
      /\ run'[canonical].status = outcome /\ run'[canonical].fills = run[canonical].fills
  <2>1. run[canonical] \in [seed : Seeds, fills : FillLists[canonical], status : Statuses]
    BY <1>1, CanonicalIs DEF ReleaseInv
  <2> QED BY <1>1, <2>1 DEF ReleaseInv, ScansStand
<1>5. ScansStand'
  BY <1>1, <1>4 DEF ReleaseInv, ScansStand
<1>6. \A s \in Scans : run'[s].fills = run[s].fills
  BY <1>4
<1>7. TablesStand'
  <2>1. 1 .. canonical \subseteq Scans
    BY <1>1, ReleaseAssumption, FS_CardinalityType
  <2> QED BY <1>1, <1>6, <2>1 DEF ReleaseInv, TablesStand, IsReady
<1>8. BuildersKeepApart' /\ BundlesStand'
  BY <1>1, <1>2 DEF ReleaseInv, BuildersKeepApart, BundlesStand
<1> QED BY <1>3, <1>5, <1>7, <1>8, ReleasesSame, CopySame DEF ReleaseInv

(* What Releasable promises of the tables a bundle is made of. *)
LEMMA ReleasableIs ==
  ASSUME ReleaseInv, NEW v \in Versions, Releasable(v), canonical > 0, dbt = "idle"
  PROVE  /\ mart \in [scan : Scans, identity : Identities, fills : AllFills] /\ FillsPass(mart.fills)
         /\ sidecar \in [scan : Scans, content : Seeds, declared : Seeds]
         /\ quality \in [scan : 1 .. canonical, ready : BOOLEAN, issues : SUBSET {"verification"}]
         /\ ~ tornMart => mart.fills = run[canonical].fills
         /\ {sidecar.content, draft.attested} = {run[canonical].seed} /\ mart.identity = IdentityOf[run[canonical].seed]
<1>1. /\ mart # NoTable /\ quality # NoTable /\ quality.ready /\ quality.scan = canonical /\ sidecar # NoTable
      /\ mart.identity = IdentityOf[sidecar.content]
  BY DEF Releasable, TablesAgree, SeedAgrees
<1>2. {sidecar.content, draft.attested} = {run[canonical].seed} /\ mart.identity = IdentityOf[run[canonical].seed]
  BY <1>1 DEF Releasable, SeedAgrees, Loads, Attested
<1> QED BY <1>1, <1>2 DEF ReleaseInv, TablesStand, IsReady

LEMMA BuildKeeps == ASSUME ReleaseInv, NEW b \in Builders, BuildRelease(b) PROVE ReleaseInv'
<1> DEFINE v == builder[b].version
           a == BundleOf(v)
<1> USE DEF releases, history, warehouse
<1>1. /\ builder[b].pc = "provenance" /\ Releasable(v) /\ v \in Versions
      /\ builder' = [builder EXCEPT ![b].pc = "built", ![b].work = a]
      /\ UNCHANGED <<draft, warehouse, dbt, exporter, releases, history, faults>>
  BY DEF BuildRelease, ReleaseInv, ReleaseShapes, Runners
<1>2. canonical \in Scans /\ canonical > 0 /\ canonical \in Nat /\ dbt = "idle"
  BY <1>1, ReleaseAssumption, FS_CardinalityType DEF ReleaseInv, BuildersKeepApart, ScansStand
<1>3. /\ mart \in [scan : Scans, identity : Identities, fills : AllFills] /\ FillsPass(mart.fills)
      /\ sidecar \in [scan : Scans, content : Seeds, declared : Seeds]
      /\ quality \in [scan : 1 .. canonical, ready : BOOLEAN, issues : SUBSET {"verification"}]
      /\ ~ tornMart => mart.fills = run[canonical].fills
      /\ {sidecar.content, draft.attested} = {run[canonical].seed} /\ mart.identity = IdentityOf[run[canonical].seed]
  BY <1>1, <1>2, ReleasableIs
<1>4. run[canonical].seed \in Seeds /\ run[canonical].status \in Statuses /\ verdict[canonical] = run[canonical].status
  BY <1>2, CanonicalIs DEF ReleaseInv, ScansStand
<1> DEFINE csv == [version |-> v, identity |-> mart.identity, fills |-> mart.fills]
           provenance == [version |-> v, attested |-> draft.attested, csv |-> csv, scan |-> canonical,
                          seed |-> run[canonical].seed, status |-> run[canonical].status]
<1>5. a = [csv |-> csv, provenance |-> provenance,
           quality |-> [status |-> run[canonical].status, ready |-> quality.ready,
                        issues |-> Reconciled(quality.issues, run[canonical].status)],
           sidecar |-> sidecar.content, checksums |-> [csv |-> csv, provenance |-> provenance]]
  BY DEF BundleOf, Provenance
<1>6. csv \in Csvs
  BY <1>1, <1>3 DEF Csvs
<1>7. provenance \in Provenances
  <2>1. draft.attested \in Seeds
    BY ReleaseAssumption DEF ReleaseInv, ReleaseShapes
  <2> QED BY <1>1, <1>2, <1>4, <1>6, <2>1 DEF Provenances
<1>8. /\ Reconciled(quality.issues, run[canonical].status) \in SUBSET {"verification"}
      /\ (run[canonical].status = "matched") = ("verification" \notin Reconciled(quality.issues, run[canonical].status))
  BY <1>3 DEF Reconciled
<1>9. a \in Bundles
  <2> HIDE DEF csv, provenance, a
  <2> QED BY <1>3, <1>4, <1>5, <1>6, <1>7, <1>8 DEF Bundles
<1>10. /\ a.csv = csv /\ a.provenance = provenance /\ a.sidecar = sidecar.content
       /\ a.checksums = [csv |-> a.csv, provenance |-> a.provenance]
       /\ a.quality.status = run[canonical].status
       /\ (a.quality.status = "matched") = ("verification" \notin a.quality.issues)
  <2> HIDE DEF csv, provenance, a
  <2> QED BY <1>5, <1>8
<1>11. /\ IsBundle(a) /\ a.csv.version = v /\ a.csv.fills = mart.fills /\ a.provenance.scan = canonical
  <2> HIDE DEF a
  <2>1. /\ a.csv.version = v /\ a.csv.fills = mart.fills /\ a.csv.identity = mart.identity
        /\ a.provenance.scan = canonical /\ a.provenance.attested = draft.attested
        /\ a.provenance.seed = run[canonical].seed
    BY <1>10
  <2> QED BY <1>3, <1>10, <2>1 DEF IsBundle
<1> HIDE DEF a, csv, provenance
<1>12. /\ builder'[b].pc = "built" /\ builder'[b].work = a /\ builder'[b].version = v
       /\ builder'[b].secondary = builder[b].secondary /\ builder'[b] \in Runners
       /\ \A c \in Builders : c # b => builder'[c] = builder[c]
       /\ builder' \in [Builders -> Runners]
  <2>1. builder[b] \in [pc : {"open", "provenance", "built"}, version : Versions, secondary : BOOLEAN,
                        work : Bundles \cup {Nothing}]
    BY <1>1 DEF ReleaseInv, ReleaseShapes, Runners
  <2> HIDE DEF v
  <2>2. builder \in [Builders -> Runners]
    BY DEF ReleaseInv, ReleaseShapes
  <2>3. builder'[b] = [builder[b] EXCEPT !.pc = "built", !.work = a] /\ DOMAIN builder' = Builders
        /\ \A c \in Builders : c # b => builder'[c] = builder[c]
    BY <1>1, <2>2
  <2>4. builder'[b] \in [pc : {"open", "provenance", "built"}, version : Versions, secondary : BOOLEAN,
                        work : Bundles \cup {Nothing}]
    BY <1>9, <2>1, <2>3
  <2>5. builder'[b].pc = "built" /\ builder'[b].work = a /\ builder'[b].secondary = builder[b].secondary
        /\ builder'[b].version = builder[b].version
    BY <2>1, <2>3
  <2>6. builder'[b] \in Runners
    BY <2>4 DEF Runners
  <2>7. builder' \in [Builders -> Runners]
    BY <1>1, <2>2, <2>3, <2>6
  <2> QED BY <2>3, <2>5, <2>6, <2>7 DEF v
<1>13. ReleaseShapes'
  BY <1>1, <1>12 DEF ReleaseInv, ReleaseShapes, Copiers, Places
<1>14. BuildersKeepApart'
  BY <1>1, <1>12 DEF ReleaseInv, BuildersKeepApart
<1>15. BundlesStand'
  <2> SUFFICES ASSUME NEW c \in Builders, builder'[c].pc = "built"
               PROVE  LET w == builder'[c].work IN
                      /\ w \in Bundles /\ IsBundle(w) /\ w.csv.version = builder'[c].version
                      /\ w.provenance.scan =< canonical'
                      /\ ~ tornMart' => w.csv.fills = run'[w.provenance.scan].fills
                      /\ w.quality.status = "matched" => verdict'[w.provenance.scan] = "matched"
                      /\ (w.quality.status = "matched") = ("verification" \notin w.quality.issues)
    BY DEF BundlesStand
  <2>1. CASE c = b
    BY <1>1, <1>2, <1>3, <1>4, <1>9, <1>10, <1>11, <1>12, <2>1
  <2>2. CASE c # b
    BY <1>1, <1>12, <2>2 DEF ReleaseInv, BundlesStand
  <2> QED BY <2>1, <2>2
<1> QED BY <1>1, <1>13, <1>14, <1>15, ScansSame, TablesSame, ReleasesSame, CopySame DEF ReleaseInv

(* A builder that is done gives up its row. *)
LEMMA LetGo ==
  ASSUME ReleaseInv, NEW b \in Builders, builder' = [builder EXCEPT ![b] = [pc |-> "idle", work |-> Nothing]],
         UNCHANGED <<warehouse, dbt, verdict, tornMart>>
  PROVE  builder' \in [Builders -> Runners] /\ BuildersKeepApart' /\ BundlesStand' /\ TablesStand' /\ ScansStand'
<1>1. /\ builder'[b] = [pc |-> "idle", work |-> Nothing] /\ DOMAIN builder' = Builders
      /\ \A c \in Builders : c # b => builder'[c] = builder[c]
  BY DEF ReleaseInv, ReleaseShapes
<1>2. builder' \in [Builders -> Runners]
  BY <1>1 DEF ReleaseInv, ReleaseShapes, Runners
<1>3. BuildersKeepApart' /\ BundlesStand'
  BY <1>1 DEF ReleaseInv, BuildersKeepApart, BundlesStand, warehouse
<1> QED BY <1>2, <1>3, TablesSame, ScansSame DEF ReleaseInv, warehouse

LEMMA RefuseKeeps == ASSUME ReleaseInv, NEW b \in Builders, Refuse(b) PROVE ReleaseInv'
<1> USE DEF Refuse, releases
<1>1. builder' \in [Builders -> Runners] /\ BuildersKeepApart' /\ BundlesStand' /\ TablesStand' /\ ScansStand'
  BY LetGo
<1>2. ReleaseShapes'
  BY <1>1 DEF ReleaseInv, ReleaseShapes, Copiers, Places
<1> QED BY <1>1, <1>2, ReleasesSame, CopySame DEF ReleaseInv

(* What is renamed into place is appended to what was built: nothing that   *)
(* speaks of an earlier release notices.                                   *)
LEMMA AppendIs ==
  ASSUME NEW S, NEW s \in Seq(S), NEW x \in S
  PROVE  /\ Append(s, x) \in Seq(S) /\ Len(Append(s, x)) = Len(s) + 1 /\ Len(s) \in Nat
         /\ Append(s, x)[Len(s) + 1] = x /\ \A k \in 1 .. Len(s) : Append(s, x)[k] = s[k]
  OBVIOUS

LEMMA RenameAuditKeeps == ASSUME ReleaseInv, NEW b \in Builders, RenameAudit(b) PROVE ReleaseInv'
<1> DEFINE v == builder[b].version
           a == builder[b].work
<1> USE DEF history, warehouse
<1>1. /\ builder[b].pc = "built" /\ v \in Versions /\ a \in Bundles /\ IsBundle(a) /\ a.csv.version = v
      /\ builder' = [builder EXCEPT ![b] = [pc |-> "idle", work |-> Nothing]]
      /\ UNCHANGED <<draft, warehouse, dbt, exporter, exports, history, faults>>
  BY DEF RenameAudit, ReleaseInv, ReleaseShapes, Runners, BundlesStand
<1>2. builder' \in [Builders -> Runners] /\ BuildersKeepApart' /\ BundlesStand' /\ TablesStand' /\ ScansStand'
  BY <1>1, LetGo
<1>3. CASE audits[v] # NoAudit
  <2>1. UNCHANGED <<audits, built>>
    BY <1>3 DEF RenameAudit
  <2>2. ReleaseShapes'
    BY <1>1, <1>2, <2>1 DEF ReleaseInv, ReleaseShapes, Copiers, Places
  <2> QED BY <1>1, <1>2, <2>1, <2>2, ReleasesSame, CopySame DEF ReleaseInv
<1>4. CASE audits[v] = NoAudit
  <2> HIDE DEF a, v
  <2>1. built' = Append(built, a) /\ audits' = [audits EXCEPT ![v] = [serial |-> Len(built) + 1, files |-> a]]
    BY <1>4 DEF RenameAudit, a, v
  <2>2. built \in Seq(Bundles)
    BY DEF ReleaseInv, ReleaseShapes
  <2>3. /\ built' \in Seq(Bundles) /\ Len(built') = Len(built) + 1 /\ Len(built) \in Nat
        /\ built'[Len(built) + 1] = a /\ \A k \in Places : built'[k] = built[k]
    BY <1>1, <2>1, <2>2, AppendIs DEF Places
  <2>4. Places' = Places \cup {Len(built) + 1}
    BY <2>3 DEF Places
  <2>5. /\ audits'[v] = [serial |-> Len(built) + 1, files |-> a]
        /\ \A u \in Versions : u # v => audits'[u] = audits[u]
        /\ audits' \in [Versions -> {NoAudit} \cup [serial : Places', files : Bundles]]
    BY <1>1, <2>1, <2>4 DEF ReleaseInv, ReleaseShapes
  <2>6. exports' \in [Versions -> {NoExport} \cup [serial : Places', csv : Csvs, status : Statuses]]
    BY <1>1, <2>4 DEF ReleaseInv, ReleaseShapes
  <2>7. exporter' \in Copiers'
    BY <1>1, <2>4 DEF ReleaseInv, ReleaseShapes, Copiers
  <2>8. ReleaseShapes'
    BY <1>1, <1>2, <2>3, <2>5, <2>6, <2>7 DEF ReleaseInv, ReleaseShapes
  <2>9. ReleasesStand'
    <3>1. \A i \in Places' : IsBundle(built'[i])
      BY <1>1, <2>3, <2>4 DEF ReleaseInv, ReleasesStand
    <3>2. ASSUME NEW u \in Versions, audits'[u] # NoAudit
          PROVE  LET d == built'[audits'[u].serial] IN
                 audits'[u].files.checksums = d.checksums /\ d.csv.version = u
      <4>1. CASE u = v
        BY <1>1, <2>3, <2>5, <4>1
      <4>2. CASE u # v
        <5>1. audits'[u] = audits[u] /\ audits[u].serial \in Places
          BY <2>5, <3>2, <4>2 DEF ReleaseInv, ReleaseShapes
        <5> QED BY <2>3, <3>2, <5>1 DEF ReleaseInv, ReleasesStand
      <4> QED BY <4>1, <4>2
    <3>3. ExportIsOneAudit'
      <4>1. \A u \in Versions : exports[u] # NoExport => exports[u].serial \in Places
        BY DEF ReleaseInv, ReleaseShapes
      <4> QED BY <1>1, <2>3, <4>1 DEF ReleaseInv, ReleasesStand, ExportIsOneAudit
    <3> QED BY <3>1, <3>2, <3>3 DEF ReleasesStand
  <2>10. CopyStands'
    <3>1. /\ exporter.pc = "copy" => exporter.serial \in Places
          /\ exporter.pc = "written" => exporter.work.serial \in Places
      BY DEF ReleaseInv, ReleaseShapes, Copiers
    <3> QED BY <1>1, <2>3, <3>1 DEF ReleaseInv, CopyStands
  <2> QED BY <1>2, <2>8, <2>9, <2>10 DEF ReleaseInv
<1> QED BY <1>3, <1>4

(* The exporter, and the hands that edit releases: the warehouse is not touched. *)
LEMMA OutsideSame ==
  ASSUME ReleaseInv, UNCHANGED <<draft, warehouse, dbt, builder, verdict, tornMart, built>>, faults' \in Nat,
         audits' \in [Versions -> {NoAudit} \cup [serial : Places, files : Bundles]],
         exports' \in [Versions -> {NoExport} \cup [serial : Places, csv : Csvs, status : Statuses]],
         exporter' \in Copiers, ReleasesStand', CopyStands'
  PROVE  ReleaseInv'
<1>1. ReleaseShapes'
  BY DEF ReleaseInv, ReleaseShapes, Copiers, Places
<1> QED BY <1>1, ScansSame, TablesSame, ApartSame, BundlesSame DEF ReleaseInv, warehouse

LEMMA ExporterSteps ==
  ASSUME ReleaseInv, UNCHANGED <<draft, warehouse, dbt, builder, verdict, tornMart, built, audits, exports, faults>>,
         exporter' \in Copiers, CopyStands'
  PROVE  ReleaseInv'
  BY ReleasesSame, OutsideSame DEF ReleaseInv, ReleaseShapes

LEMMA ExporterStops ==
  ASSUME ReleaseInv, UNCHANGED <<draft, warehouse, dbt, builder, verdict, tornMart, built, audits, exports, faults>>,
         exporter' = [pc |-> "idle", work |-> Nothing]
  PROVE  ReleaseInv'
<1>1. exporter' \in Copiers /\ CopyStands'
  BY DEF Copiers, CopyStands
<1> QED BY <1>1, ExporterSteps

LEMMA BeginExportKeeps == ASSUME ReleaseInv, NEW v \in Versions, BeginExport(v) PROVE ReleaseInv'
<1> USE DEF BeginExport, releases, history
<1>1. audits[v] \in [serial : Places, files : Bundles]
  BY DEF ReleaseInv, ReleaseShapes
<1>2. exporter' \in Copiers
  BY <1>1 DEF Copiers
<1>3. CopyStands'
  BY DEF ReleaseInv, ReleasesStand, CopyStands
<1> QED BY <1>2, <1>3, ExporterSteps

Copies == Csvs \cup Provenances \cup [csv : Csvs, provenance : Provenances]

LEMMA CopierIs ==
  ASSUME ReleaseInv, exporter.pc = "copy"
  PROVE  exporter \in [pc : {"copy"}, version : Versions, serial : Places, copied : Seq(Copies), work : {Nothing}]
  BY DEF ReleaseInv, ReleaseShapes, Copiers, Copies

LEMMA CopyFileKeeps == ASSUME ReleaseInv, CopyFile PROVE ReleaseInv'
<1> DEFINE v == exporter.version
           file == audits[v].files[CopyOrder[Len(exporter.copied) + 1]]
           copied == Append(exporter.copied, file)
<1> USE DEF releases, history
<1>1. /\ exporter.pc = "copy" /\ Len(exporter.copied) < Len(CopyOrder) /\ audits[v].serial = exporter.serial
      /\ exporter' = [exporter EXCEPT !.copied = copied]
      /\ UNCHANGED <<draft, warehouse, dbt, builder, releases, history, faults>>
  BY DEF CopyFile
<1>2. exporter \in [pc : {"copy"}, version : Versions, serial : Places, copied : Seq(Copies), work : {Nothing}]
  BY <1>1, CopierIs
<1>3. audits[v] \in [serial : Places, files : Bundles] /\ audits[v] # NoAudit
  <2>1. Places \subseteq Nat \ {0}
    BY DEF Places
  <2>2. audits[v].serial # 0
    BY <1>1, <1>2, <2>1
  <2> QED BY <1>2, <2>2 DEF ReleaseInv, ReleaseShapes, NoAudit
<1>4. /\ CopyOrder[Len(exporter.copied) + 1] \in {"checksums", "provenance", "csv"}
      /\ Len(exporter.copied) = 0 => CopyOrder[Len(exporter.copied) + 1] = "checksums"
  <2>1. Len(exporter.copied) \in Nat
    BY <1>2
  <2>2. Len(CopyOrder) = 3 /\ CopyOrder[1] = "checksums" /\ CopyOrder[2] = "provenance" /\ CopyOrder[3] = "csv"
    BY DEF CopyOrder
  <2> DEFINE n == Len(exporter.copied)
  <2>3. n \in Nat /\ n < 3
    BY <1>1, <2>1, <2>2
  <2> HIDE DEF n
  <2>4. n = 0 \/ n = 1 \/ n = 2
    BY <2>3
  <2>5. CopyOrder[n + 1] \in {"checksums", "provenance", "csv"} /\ (n = 0 => CopyOrder[n + 1] = "checksums")
    BY <2>2, <2>4
  <2> QED BY <2>5 DEF n
<1>5. file \in Copies
  BY <1>3, <1>4 DEF Bundles, Copies
<1>6. Len(exporter.copied) = 0 => file = audits[v].files.checksums
  BY <1>4
<1> HIDE DEF file
<1>7. /\ copied \in Seq(Copies) /\ Len(copied) > 0
      /\ copied[1] = IF Len(exporter.copied) = 0 THEN file ELSE exporter.copied[1]
  <2>1. exporter.copied \in Seq(Copies)
    BY <1>2
  <2>2. /\ copied \in Seq(Copies) /\ Len(copied) = Len(exporter.copied) + 1 /\ Len(exporter.copied) \in Nat
        /\ copied[Len(exporter.copied) + 1] = file
        /\ \A k \in 1 .. Len(exporter.copied) : copied[k] = exporter.copied[k]
    BY <1>5, <2>1, AppendIs
  <2> HIDE DEF copied
  <2>3. CASE Len(exporter.copied) = 0
    BY <2>2, <2>3
  <2>4. CASE Len(exporter.copied) # 0
    <3>1. 1 \in 1 .. Len(exporter.copied)
      BY <2>2, <2>4
    <3> QED BY <2>2, <2>4, <3>1
  <2> QED BY <2>3, <2>4
<1> HIDE DEF copied
<1>8. exporter' \in [pc : {"copy"}, version : Versions, serial : Places, copied : Seq(Copies), work : {Nothing}]
      /\ exporter'.serial = exporter.serial /\ exporter'.version = v /\ exporter'.copied = copied
  BY <1>1, <1>2, <1>7
<1>9. exporter' \in Copiers
  BY <1>8 DEF Copiers, Copies
<1>10. CopyStands'
  <2>1. /\ built[exporter.serial].csv.version = v
        /\ audits[v].files.checksums = built[exporter.serial].checksums
        /\ Len(exporter.copied) > 0 => exporter.copied[1] = built[exporter.serial].checksums
    BY <1>1, <1>2, <1>3 DEF ReleaseInv, CopyStands, ReleasesStand
  <2>2. exporter'.copied[1] = built[exporter.serial].checksums
    <3>1. Len(exporter.copied) \in Nat
      BY <1>2
    <3> QED BY <1>6, <1>7, <1>8, <2>1, <3>1
  <2>3. exporter'.pc = "copy" /\ built' = built
    BY <1>1, <1>8
  <2> QED BY <1>8, <2>1, <2>2, <2>3 DEF CopyStands
<1> QED BY <1>1, <1>9, <1>10, ExporterSteps

(* A snapshot that agrees with its checksums is the release as it was built. *)
LEMMA SnapshotIs ==
  ASSUME ReleaseInv, exporter.pc = "copy", Len(exporter.copied) = Len(CopyOrder),
         SnapshotIsSound(exporter.copied, exporter.version)
  PROVE  LET a == built[exporter.serial] IN
         /\ a \in Bundles /\ IsBundle(a) /\ exporter.version \in Versions /\ exporter.serial \in Places
         /\ exporter.copied[3] = a.csv /\ exporter.copied[2] = a.provenance
         /\ a.csv.version = exporter.version
<1> DEFINE a == built[exporter.serial]
<1>1. exporter \in [pc : {"copy"}, version : Versions, serial : Places, copied : Seq(Copies), work : {Nothing}]
  BY CopierIs
<1>2. a \in Bundles /\ IsBundle(a)
  <2>1. built \in Seq(Bundles)
    BY DEF ReleaseInv, ReleaseShapes
  <2>2. exporter.serial \in 1 .. Len(built)
    BY <1>1 DEF Places
  <2>3. a \in Bundles
    BY <2>1, <2>2
  <2> QED BY <1>1, <2>3 DEF ReleaseInv, ReleasesStand
<1>3. exporter.copied[1] = a.checksums /\ a.csv.version = exporter.version
  BY DEF ReleaseInv, CopyStands, CopyOrder
<1>4. exporter.copied[1].provenance = exporter.copied[2] /\ exporter.copied[1].csv = exporter.copied[3]
  BY DEF SnapshotIsSound, SumsMatch
<1>5. a.checksums.csv = a.csv /\ a.checksums.provenance = a.provenance
  BY <1>2 DEF IsBundle
<1> QED BY <1>1, <1>2, <1>3, <1>4, <1>5

LEMMA WriteExportKeeps == ASSUME ReleaseInv, WriteExport PROVE ReleaseInv'
<1> DEFINE a == built[exporter.serial]
<1> USE DEF releases, history
<1>1. /\ exporter.pc = "copy" /\ Len(exporter.copied) = Len(CopyOrder)
      /\ SnapshotIsSound(exporter.copied, exporter.version)
      /\ exporter' = [pc |-> "written", version |-> exporter.version,
                      work |-> [serial |-> exporter.serial, csv |-> exporter.copied[3],
                                status |-> exporter.copied[2].status]]
      /\ UNCHANGED <<draft, warehouse, dbt, builder, releases, history, faults>>
  BY DEF WriteExport
<1>2. /\ a \in Bundles /\ exporter.version \in Versions /\ exporter.serial \in Places
      /\ exporter.copied[3] = a.csv /\ exporter.copied[2] = a.provenance /\ a.csv.version = exporter.version
  BY <1>1, SnapshotIs
<1> HIDE DEF a
<1>3. a.csv \in Csvs /\ a.provenance.status \in Statuses
  BY <1>2 DEF Bundles, Provenances
<1>4. exporter' \in Copiers
  BY <1>1, <1>2, <1>3 DEF Copiers
<1>5. CopyStands'
  BY <1>1, <1>2 DEF CopyStands, a
<1> QED BY <1>1, <1>4, <1>5, ExporterSteps

LEMMA RenameExportKeeps == ASSUME ReleaseInv, RenameExport PROVE ReleaseInv'
<1> DEFINE v == exporter.version
<1> USE DEF history
<1>1. /\ exporter.pc = "written" /\ exporter' = [pc |-> "idle", work |-> Nothing]
      /\ exports' = IF exports[v] # NoExport THEN exports ELSE [exports EXCEPT ![v] = exporter.work]
      /\ UNCHANGED <<draft, warehouse, dbt, builder, audits, built, history, faults>>
  BY DEF RenameExport
<1>2. v \in Versions /\ exporter.work \in [serial : Places, csv : Csvs, status : Statuses]
  BY <1>1 DEF ReleaseInv, ReleaseShapes, Copiers
<1>3. exports' \in [Versions -> {NoExport} \cup [serial : Places, csv : Csvs, status : Statuses]]
  BY <1>1, <1>2 DEF ReleaseInv, ReleaseShapes
<1>4. ReleasesStand'
  <2>1. \A u \in Versions : exports'[u] = exports[u] \/ (u = v /\ exports'[u] = exporter.work)
    BY <1>1, <1>2 DEF ReleaseInv, ReleaseShapes
  <2>2. ExportIsOneAudit'
    BY <1>1, <2>1 DEF ReleaseInv, ReleasesStand, CopyStands, ExportIsOneAudit
  <2> QED BY <1>1, <2>2 DEF ReleaseInv, ReleasesStand, Places
<1>5. exporter' \in Copiers /\ CopyStands'
  BY <1>1 DEF Copiers, CopyStands
<1> QED BY <1>1, <1>3, <1>4, <1>5, OutsideSame DEF ReleaseInv, ReleaseShapes

LEMMA RemoveAuditKeeps == ASSUME ReleaseInv, NEW v \in Versions, RemoveAudit(v) PROVE ReleaseInv'
<1> USE DEF RemoveAudit, history
<1>1. audits' \in [Versions -> {NoAudit} \cup [serial : Places, files : Bundles]]
  BY DEF ReleaseInv, ReleaseShapes
<1>2. \A u \in Versions : audits'[u] = audits[u] \/ audits'[u] = NoAudit
  BY DEF ReleaseInv, ReleaseShapes
<1>3. ReleasesStand'
  BY <1>2 DEF ReleaseInv, ReleasesStand, ExportIsOneAudit, Places
<1> QED BY <1>1, <1>3, CopySame, OutsideSame DEF ReleaseInv, ReleaseShapes

LEMMA EditAuditKeeps ==
  ASSUME ReleaseInv, NEW v \in Versions, NEW file \in {"csv", "provenance"}, NEW other \in DOMAIN built,
         EditAudit(v, file, other)
  PROVE  ReleaseInv'
<1> USE DEF EditAudit, history
<1>1. audits[v] \in [serial : Places, files : Bundles] /\ built[other] \in Bundles
  <2>1. built \in Seq(Bundles)
    BY DEF ReleaseInv, ReleaseShapes
  <2>2. built[other] \in Bundles
    BY <2>1
  <2> QED BY <2>2 DEF ReleaseInv, ReleaseShapes
<1> DEFINE edited == [audits[v].files EXCEPT ![file] = built[other][file]]
<1>2. edited \in Bundles /\ edited.checksums = audits[v].files.checksums
  <2>1. CASE file = "csv"
    BY <1>1, <2>1 DEF Bundles
  <2>2. CASE file = "provenance"
    BY <1>1, <2>2 DEF Bundles
  <2> QED BY <2>1, <2>2
<1>3. /\ audits'[v] = [audits[v] EXCEPT !.files = edited]
      /\ \A u \in Versions : u # v => audits'[u] = audits[u]
  BY DEF ReleaseInv, ReleaseShapes
<1> HIDE DEF edited
<1>4. /\ audits'[v] \in [serial : Places, files : Bundles]
      /\ audits'[v].serial = audits[v].serial /\ audits'[v].files.checksums = audits[v].files.checksums
  BY <1>1, <1>2, <1>3
<1>5. audits' \in [Versions -> {NoAudit} \cup [serial : Places, files : Bundles]]
  BY <1>3, <1>4 DEF ReleaseInv, ReleaseShapes
<1>6. ReleasesStand'
  BY <1>3, <1>4 DEF ReleaseInv, ReleasesStand, ExportIsOneAudit, Places
<1> QED BY <1>5, <1>6, CopySame, OutsideSame DEF ReleaseInv, ReleaseShapes

LEMMA ReleaseStepKeeps == ASSUME ReleaseInv, [ReleaseNext]_release PROVE ReleaseInv'
<1>1. CASE UNCHANGED release
  <2>1. UNCHANGED <<draft, run, canonical, sidecar, candidate, quality, mart, dbt, builder, exporter,
                    audits, exports, built, verdict, tornMart, rejected, faults>>
    BY <1>1 DEF release, warehouse, releases, history
  <2>2. ReleaseShapes'
    BY <2>1 DEF ReleaseInv, ReleaseShapes, Copiers, Places
  <2> QED BY <2>1, <2>2, ScansSame, TablesSame, ApartSame, BundlesSame, ReleasesSame, CopySame DEF ReleaseInv
<1>2. CASE \E d \in Drafts : CommitSeed(d)
  BY <1>2, CommitSeedKeeps
<1>3. CASE \E s \in Scans : \E list \in FillLists[s] : PublishScan(s, list)
  BY <1>3, PublishScanKeeps
<1>4. CASE DbtSeed \/ DbtCandidate \/ DbtQuality \/ DbtMart \/ KillDbt
  BY <1>4, DbtSeedKeeps, DbtCandidateKeeps, DbtQualityKeeps, DbtMartKeeps, KillDbtKeeps
<1>5. ASSUME NEW b \in Builders,
             \/ \E v \in Versions, secondary \in BOOLEAN : OpenRelease(b, v, secondary)
             \/ \E outcome \in Statuses : Verify(b, outcome)
             \/ BuildRelease(b) \/ Refuse(b) \/ RenameAudit(b)
      PROVE  ReleaseInv'
  BY <1>5, OpenKeeps, VerifyKeeps, BuildKeeps, RefuseKeeps, RenameAuditKeeps
<1>6. CASE \E v \in Versions : BeginExport(v) \/ RemoveAudit(v)
  BY <1>6, BeginExportKeeps, RemoveAuditKeeps
<1>7. CASE CopyFails \/ RefuseExport
  BY <1>7, ExporterStops DEF CopyFails, RefuseExport, releases, history
<1>8. CASE CopyFile \/ WriteExport \/ RenameExport
  BY <1>8, CopyFileKeeps, WriteExportKeeps, RenameExportKeeps
<1>9. CASE \E v \in Versions, file \in {"csv", "provenance"}, other \in DOMAIN built : EditAudit(v, file, other)
  BY <1>9, EditAuditKeeps
<1> QED BY <1>1, <1>2, <1>3, <1>4, <1>5, <1>6, <1>7, <1>8, <1>9 DEF ReleaseNext

LEMMA ReleasesAlways == ReleaseSpec => []ReleaseInv
  BY InitReleases, ReleaseStepKeeps, PTL DEF ReleaseSpec

(* What the gate lets through, the validators accept: that speaks of sums   *)
(* and quotients of the fills, not of any state.                            *)
LEMMA NothingIsRejected ==
  ASSUME ValidatorsFollowTheGate, ReleaseInv, [ReleaseNext]_release, ~ rejected PROVE ~ rejected'
<1>1. \A list \in AllFills : FillsPass(list) => ValuesAreValid(list) /\ MathHolds(list)
  BY DEF ValidatorsFollowTheGate, AllFills, GateSuffices
<1>2. ASSUME NEW b \in Builders, Refuse(b) PROVE ~ rejected'
  <2> DEFINE v == builder[b].version
  <2>1. builder[b].pc = "provenance" /\ ~ (Releasable(v) /\ ValuesAreValid(mart.fills))
        /\ rejected' = (rejected \/ Releasable(v)) /\ v \in Versions
    BY <1>2 DEF Refuse, ReleaseInv, ReleaseShapes, Runners
  <2>2. Releasable(v) => ValuesAreValid(mart.fills)
    <3>1. canonical > 0 /\ dbt = "idle"
      BY <2>1, ReleaseAssumption, FS_CardinalityType DEF ReleaseInv, BuildersKeepApart, ScansStand
    <3> QED BY <1>1, <2>1, <3>1, ReleasableIs
  <2> QED BY <2>1, <2>2
<1>3. ASSUME RefuseExport PROVE ~ rejected'
  <2> DEFINE copied == exporter.copied
             values == MathHolds(copied[3].fills) /\ ValuesAreValid(copied[3].fills)
  <2>1. exporter.pc = "copy" /\ Len(copied) = Len(CopyOrder)
        /\ rejected' = (rejected \/ (SnapshotIsSound(copied, exporter.version) /\ ~ values))
    BY <1>3 DEF RefuseExport
  <2>2. ASSUME SnapshotIsSound(copied, exporter.version) PROVE values
    <3> DEFINE a == built[exporter.serial]
    <3>1. a \in Bundles /\ IsBundle(a) /\ copied[3] = a.csv
      BY <2>1, <2>2, SnapshotIs
    <3> HIDE DEF a
    <3>2. a.csv.fills \in AllFills /\ FillsPass(a.csv.fills)
      BY <3>1 DEF Bundles, Csvs, IsBundle
    <3> QED BY <1>1, <3>1, <3>2
  <2> QED BY <2>1, <2>2
<1>4. \/ \E b \in Builders : Refuse(b)
      \/ RefuseExport
      \/ UNCHANGED rejected
  <2>1. CASE UNCHANGED release
    BY <2>1 DEF release, history
  <2>2. CASE \E d \in Drafts : CommitSeed(d)
    BY <2>2 DEF CommitSeed, history
  <2>3. CASE \E s \in Scans : \E list \in FillLists[s] : PublishScan(s, list)
    BY <2>3 DEF PublishScan, history
  <2>4. CASE DbtSeed \/ DbtCandidate \/ DbtQuality \/ DbtMart \/ KillDbt
    BY <2>4 DEF DbtSeed, DbtCandidate, DbtQuality, DbtMart, KillDbt, history
  <2>5. ASSUME NEW b \in Builders,
               \/ \E v \in Versions, secondary \in BOOLEAN : OpenRelease(b, v, secondary)
               \/ \E outcome \in Statuses : Verify(b, outcome)
               \/ BuildRelease(b) \/ Refuse(b) \/ RenameAudit(b)
        PROVE  Refuse(b) \/ UNCHANGED rejected
    BY <2>5 DEF OpenRelease, Verify, BuildRelease, RenameAudit, history
  <2>6. CASE \E v \in Versions : BeginExport(v) \/ RemoveAudit(v)
    BY <2>6 DEF BeginExport, RemoveAudit, history
  <2>7. CASE CopyFile \/ CopyFails \/ WriteExport \/ RenameExport
    BY <2>7 DEF CopyFile, CopyFails, WriteExport, RenameExport, history
  <2>8. CASE \E v \in Versions, file \in {"csv", "provenance"}, other \in DOMAIN built : EditAudit(v, file, other)
    BY <2>8 DEF EditAudit, history
  <2> QED BY <2>1, <2>2, <2>3, <2>4, <2>5, <2>6, <2>7, <2>8 DEF ReleaseNext
<1> QED BY <1>2, <1>3, <1>4

LEMMA ReleasesAreTyped == ASSUME ReleaseInv PROVE ReleaseTypeOK
<1>1. draft \in Drafts /\ canonical \in 0 .. Cardinality(Scans) /\ dbt \in {"idle", "candidate", "quality", "mart"}
  BY DEF ReleaseInv, ReleaseShapes, ScansStand, TablesStand
<1>2. \A s \in Scans : run[s] # NoScan => run[s].seed \in Seeds /\ run[s].status \in Statuses
  <2>1. ASSUME NEW s \in Scans, run[s] # NoScan PROVE run[s].seed \in Seeds /\ run[s].status \in Statuses
    <3>1. s =< canonical
      BY <2>1, ReleaseAssumption, FS_CardinalityType DEF ReleaseInv, ScansStand
    <3> QED BY <3>1 DEF ReleaseInv, ScansStand
  <2> QED BY <2>1
<1>3. /\ \A b \in Builders : builder[b].pc \in {"idle", "open", "provenance", "built"}
      /\ exporter.pc \in {"idle", "copy", "written"}
  BY DEF ReleaseInv, ReleaseShapes, Runners, Copiers
<1>4. Cardinality(Writers) =< 1
  <2>1. CASE Writers = {}
    BY <2>1, FS_EmptySet
  <2>2. CASE Writers # {}
    <3>1. PICK b \in Writers : TRUE
      BY <2>2
    <3>2. Writers = {b}
      BY <3>1 DEF Writers, Readers, ReleaseInv, BuildersKeepApart
    <3> QED BY <3>2, FS_Singleton
  <2> QED BY <2>1, <2>2
<1>5. Writers # {} => dbt = "idle" /\ Readers = Writers
  BY DEF Writers, Readers, ReleaseInv, BuildersKeepApart
<1>6. \A v \in Versions : audits[v].serial \in 0 .. Len(built)
  <2>1. Len(built) \in Nat
    BY DEF ReleaseInv, ReleaseShapes
  <2> QED BY <2>1 DEF ReleaseInv, ReleaseShapes, Places, NoAudit
<1> QED BY <1>1, <1>2, <1>3, <1>4, <1>5, <1>6 DEF ReleaseTypeOK

LEMMA ReleasesAreWhole ==
  ASSUME ReleaseInv
  PROVE  ReleaseTypeOK /\ RowsAreOfTheScan /\ ReleaseHasOneSeed /\ ExportIsOneAudit /\ VerificationIsDisclosed
<1>1. RowsAreOfTheScan /\ VerificationIsDisclosed
  BY DEF ReleaseInv, BundlesStand, RowsAreOfTheScan, VerificationIsDisclosed
<1>2. ReleaseHasOneSeed
  <2>1. built \in Seq(Bundles) /\ DOMAIN built = 1 .. Len(built)
    BY DEF ReleaseInv, ReleaseShapes
  <2> QED BY <2>1 DEF ReleaseInv, ReleasesStand, ReleaseHasOneSeed, IsBundle, Places
<1>3. ExportIsOneAudit
  BY DEF ReleaseInv, ReleasesStand
<1> QED BY <1>1, <1>2, <1>3, ReleasesAreTyped

(* A release that is built has the rows of the scan it names, unless a dbt  *)
(* build died between the quality row and the mart; it is of one seed       *)
(* throughout and discloses its verification; an export is one audit        *)
(* release as that was built, whatever hands did to it.  No hypothesis.     *)
THEOREM ReleasesAreOneStatement ==
  ReleaseSpec => [](/\ ReleaseTypeOK /\ RowsAreOfTheScan /\ ReleaseHasOneSeed /\ ExportIsOneAudit
                    /\ VerificationIsDisclosed)
<1>1. ReleaseInv => /\ ReleaseTypeOK /\ RowsAreOfTheScan /\ ReleaseHasOneSeed /\ ExportIsOneAudit
                    /\ VerificationIsDisclosed
  BY ReleasesAreWhole
<1> QED BY <1>1, ReleasesAlways, PTL

(* Where the validators accept what the gate lets through, nothing is built *)
(* or exported only to be refused for its values.                          *)
THEOREM ReleasesAreConsistent == ASSUME ValidatorsFollowTheGate PROVE ReleaseSpec => []ReleaseIsConsistent
<1>1. ReleaseInit => ~ rejected
  BY DEF ReleaseInit
<1>2. ReleaseInv /\ ~ rejected /\ [ReleaseNext]_release => ~ rejected'
  BY NothingIsRejected
<1>3. ReleaseInv /\ ~ rejected => ReleaseIsConsistent
  BY ReleasesAreWhole DEF ReleaseIsConsistent, GatedRowsAreReleasable
<1> QED BY <1>1, <1>2, <1>3, ReleasesAlways, PTL DEF ReleaseSpec

LEMMA NobodyReplaces ==
  ASSUME ReleaseInv, [ReleaseNext]_release
  PROVE  \A v \in Versions :
           /\ audits[v] # NoAudit /\ faults' = faults => audits'[v] = audits[v]
           /\ exports[v] # NoExport => exports'[v] = exports[v]
<1>1. faults \in Nat /\ DOMAIN audits = Versions /\ DOMAIN exports = Versions
  BY DEF ReleaseInv, ReleaseShapes
<1>2. UNCHANGED <<audits, exports>> \/ (\E b \in Builders : RenameAudit(b)) \/ RenameExport
      \/ (\E v \in Versions : RemoveAudit(v))
      \/ (\E v \in Versions, file \in {"csv", "provenance"}, other \in DOMAIN built : EditAudit(v, file, other))
  <2>1. CASE UNCHANGED release
    BY <2>1 DEF release, releases
  <2>2. CASE \E d \in Drafts : CommitSeed(d)
    BY <2>2 DEF CommitSeed, releases
  <2>3. CASE \E s \in Scans : \E list \in FillLists[s] : PublishScan(s, list)
    BY <2>3 DEF PublishScan, releases
  <2>4. CASE DbtSeed \/ DbtCandidate \/ DbtQuality \/ DbtMart \/ KillDbt
    BY <2>4 DEF DbtSeed, DbtCandidate, DbtQuality, DbtMart, KillDbt, releases
  <2>5. ASSUME NEW b \in Builders,
               \/ \E v \in Versions, secondary \in BOOLEAN : OpenRelease(b, v, secondary)
               \/ \E outcome \in Statuses : Verify(b, outcome)
               \/ BuildRelease(b) \/ Refuse(b) \/ RenameAudit(b)
        PROVE  RenameAudit(b) \/ UNCHANGED <<audits, exports>>
    BY <2>5 DEF OpenRelease, Verify, BuildRelease, Refuse, releases
  <2>6. CASE \E v \in Versions : BeginExport(v) \/ RemoveAudit(v)
    BY <2>6 DEF BeginExport, releases
  <2>7. CASE CopyFile \/ CopyFails \/ WriteExport \/ RefuseExport
    BY <2>7 DEF CopyFile, CopyFails, WriteExport, RefuseExport, releases
  <2> QED BY <2>1, <2>2, <2>3, <2>4, <2>5, <2>6, <2>7 DEF ReleaseNext
<1>3. ASSUME NEW b \in Builders, RenameAudit(b)
      PROVE  exports' = exports /\ \A v \in Versions : audits[v] # NoAudit => audits'[v] = audits[v]
  BY <1>1, <1>3 DEF RenameAudit
<1>4. ASSUME RenameExport
      PROVE  audits' = audits /\ \A v \in Versions : exports[v] # NoExport => exports'[v] = exports[v]
  BY <1>1, <1>4 DEF RenameExport
<1>5. ASSUME NEW v \in Versions, RemoveAudit(v) PROVE exports' = exports /\ faults' # faults
  BY <1>1, <1>5 DEF RemoveAudit
<1>6. ASSUME NEW v \in Versions, NEW file, NEW other, EditAudit(v, file, other)
      PROVE  exports' = exports /\ faults' # faults
  BY <1>1, <1>6 DEF EditAudit
<1> QED BY <1>2, <1>3, <1>4, <1>5, <1>6

(* A release in place is replaced by nobody but the hand that edits it.     *)
THEOREM ReleasesStay == ReleaseSpec => ReleasesAreImmutable
<1>1. ReleaseInv /\ [ReleaseNext]_release =>
        [\A v \in Versions :
           /\ audits[v] # NoAudit /\ faults' = faults => audits'[v] = audits[v]
           /\ exports[v] # NoExport => exports'[v] = exports[v]]_release
  BY NobodyReplaces
<1> QED BY <1>1, ReleasesAlways, PTL DEF ReleaseSpec, ReleasesAreImmutable
=============================================================================
