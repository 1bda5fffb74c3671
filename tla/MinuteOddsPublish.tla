-------------------------- MODULE MinuteOddsPublish --------------------------
(***************************************************************************)
(* Publication of minute odds: a run plans the tokens whose windows are    *)
(* over, reuses those that are published with the same window, fetches the *)
(* others, records its fetch audit, and then, under a file lock, merges    *)
(* its shards into an immutable snapshot, moves the CURRENT symlink to it  *)
(* and flips the audit's raw_published flags in a DuckDB transaction.      *)
(* Views read through CURRENT.  The three legs ("match", "futures" of      *)
(* WC2026 and "soccer") share the publisher and differ in the run.         *)
(*                                                                         *)
(* The rows a fetch returned, and their hash, are the fetch: a record of   *)
(* the run and the window it asked for.  An operator's script compares     *)
(* CURRENT with the audit afterwards and publishes the audit that fits.    *)
(***************************************************************************)
EXTENDS Integers, FiniteSets, Functions

CONSTANTS
  Tokens,       \* CLOB tokens of the leg
  MaxRuns,      \* bound: number of runs
  MaxWindow,    \* bound: windows 1..MaxWindow of a token
  Legs,         \* the legs to look at, of "match", "futures" and "soccer"
  MaxActive,    \* bound: runs of a leg at a time
  Faults        \* of a leg: subset of {"fetch", "register", "crash"}

Runs    == 1..MaxRuns
Windows == 1..MaxWindow
NoRun   == 0

ASSUME LegAssumption    == Legs \subseteq {"match", "futures", "soccer"}
ASSUME BoundsAssumption == /\ {MaxRuns, MaxWindow} \subseteq Nat \ {0}
                           /\ MaxActive \in [Legs -> Nat \ {0}]
(* Nobody overlaps two publishers of a WC2026 relation, as the reference on *)
(* the warehouse asks; soccer runs may overlap.                            *)
ASSUME OverlapAssumption == \A l \in Legs : l = "soccer" \/ MaxActive[l] = 1
ASSUME FaultsAssumption == Faults \in [Legs -> SUBSET {"fetch", "register", "crash"}]

VARIABLES
  leg,         \* the leg whose runs these are
  window,      \* the window of each token in the catalog
  snapshots,   \* snapshots/<id>: run -> [prev, rows, hashes]
  current,     \* the CURRENT symlink, NoRun if there is none
  rowsOf,      \* the audit table: run -> token -> fetch, its successes
  flagged,     \* the audit rows with raw_published, as pairs of run and token
  lock,        \* holder of .publish.lock, or NoRun
  pc,          \* where each run is
  plan,        \* run -> token -> planned window
  reuse,       \* run -> reuse_token_ids
  prior,       \* run -> token -> published fetch seen when reuse was resolved
  loaded,      \* run -> token -> audit row of a reused token, before the lock
  torn         \* history variable: see Torn and Reconcile

world == <<leg, window>>
disk  == <<snapshots, current>>
audit == <<rowsOf, flagged>>
local == <<plan, reuse, prior, loaded>>
vars  == <<world, disk, audit, lock, pc, local, torn>>

Fetch  == [run: Runs, window: Windows]
Empty  == << >>
Active == {r \in Runs : pc[r] \in {"planned", "resolved", "recorded", "waiting", "locked",
                                   "built", "advanced", "committed"}}

(* f, and g where f says nothing. *)
Over(f, g) == [x \in DOMAIN f \cup DOMAIN g |-> IF x \in DOMAIN f THEN f[x] ELSE g[x]]

-----------------------------------------------------------------------------
(* Rows of snapshot s: none when there is no snapshot.                     *)
RowsIn(s)   == IF s = NoRun THEN Empty ELSE snapshots[s].rows
HashesIn(s) == IF s = NoRun THEN Empty ELSE snapshots[s].hashes

(* The published audit row of each token, the latest should there be more. *)
Published ==
  [t \in {row[2] : row \in flagged} |->
     rowsOf[CHOOSE r \in Runs : <<r, t>> \in flagged /\ \A q \in Runs : <<q, t>> \in flagged => q <= r][t]]

(* tokens_reusable_by_window: published with the planned window and in the *)
(* current snapshot.                                                       *)
Reusable(planned) ==
  {t \in DOMAIN planned \cap DOMAIN Published \cap DOMAIN RowsIn(current) :
     Published[t].window = planned[t]}

(* _load_reused_audit_rows: the published rows of the reused tokens whose  *)
(* window is the registry's.                                               *)
ReusedAuditRows(r) ==
  Restrict(Published, {t \in reuse[r] \cap DOMAIN Published : Published[t].window = window[t]})

(* The tokens the run's shards hold. *)
Fresh(r) == DOMAIN rowsOf[r] \ reuse[r]

-----------------------------------------------------------------------------
Init ==
  /\ leg \in Legs
  /\ window = [t \in Tokens |-> 1]
  /\ snapshots = Empty /\ current = NoRun
  /\ rowsOf = [r \in Runs |-> Empty] /\ flagged = {}
  /\ lock = NoRun
  /\ pc = [r \in Runs |-> "idle"]
  /\ plan = [r \in Runs |-> Empty] /\ reuse = [r \in Runs |-> {}]
  /\ prior = [r \in Runs |-> Empty] /\ loaded = [r \in Runs |-> Empty]
  /\ torn = "no"

(* The catalog corrects when a match or a market ended.                    *)
ChangeWindow(t) ==
  /\ \E w \in Windows \ {window[t]} : window' = [window EXCEPT ![t] = w]
  /\ UNCHANGED <<leg, disk, audit, lock, pc, local, torn>>

(* A run is over and its local state gone.                                 *)
Ends(r, how) ==
  /\ pc' = [pc EXCEPT ![r] = how]
  /\ plan' = [plan EXCEPT ![r] = Empty] /\ reuse' = [reuse EXCEPT ![r] = {}]
  /\ prior' = [prior EXCEPT ![r] = Empty] /\ loaded' = [loaded EXCEPT ![r] = Empty]

(* It has not published.  What it has written to the audit stays; only     *)
(* Reconcile still reads it, which the soccer leg does not have.           *)
Fails(r, how) ==
  /\ Ends(r, how)
  /\ rowsOf' = IF leg = "soccer" THEN [rowsOf EXCEPT ![r] = Empty] ELSE rowsOf

(* What a run may plan.  The match leg insists on the whole inventory of    *)
(* finished matches; a futures market may not be eligible or have an empty  *)
(* window; a soccer match may not be over, and a token whose history stayed *)
(* empty until the retry period was over is not planned again.              *)
MatchPlans   == {Tokens}
FuturesPlans == SUBSET Tokens \ {{}}
SoccerPlans  == SUBSET Tokens \ {{}}

(* Runs are numbered in the order they start.                              *)
Plan(r) ==
  /\ pc[r] = "idle" /\ \A q \in 1..(r - 1) : pc[q] # "idle"
  /\ Cardinality(Active) < MaxActive[leg]
  /\ \E planned \in (CASE leg = "match"   -> MatchPlans
                        [] leg = "futures" -> FuturesPlans
                        [] leg = "soccer"  -> SoccerPlans) :
       plan' = [plan EXCEPT ![r] = Restrict(window, planned)]
  /\ pc' = [pc EXCEPT ![r] = "planned"]
  /\ UNCHANGED <<world, disk, audit, lock, reuse, prior, loaded, torn>>

(* resolve_minute_token_reuse of the WC2026 legs.                          *)
ResolveReuse(r) ==
  /\ leg # "soccer" /\ pc[r] = "planned"
  /\ reuse' = [reuse EXCEPT ![r] = Reusable(plan[r])]
  /\ prior' = [prior EXCEPT ![r] = Restrict(Published, Reusable(plan[r]))]
  /\ pc' = [pc EXCEPT ![r] = "resolved"]
  /\ UNCHANGED <<world, disk, audit, lock, plan, loaded, torn>>

(* A soccer run may be forced to refetch, and one with nothing to fetch is  *)
(* over.                                                                   *)
ResolveSoccer(r) ==
  /\ leg = "soccer" /\ pc[r] = "planned"
  /\ \E reused \in {Reusable(plan[r]), {}} :
       IF DOMAIN plan[r] = reused
       THEN Ends(r, "no_op")
       ELSE /\ reuse' = [reuse EXCEPT ![r] = reused]
            /\ pc' = [pc EXCEPT ![r] = "resolved"]
            /\ UNCHANGED <<plan, prior, loaded>>
  /\ UNCHANGED <<world, disk, audit, lock, torn>>

(* The audit rows of a run: the match and futures legs also write a success *)
(* for every token they reuse, synthesised from the prior row.              *)
AuditRows(r, fetched) ==
  LET fresh == [t \in fetched |-> [run |-> r, window |-> plan[r][t]]]
  IN  IF leg = "soccer" THEN fresh ELSE Over(fresh, prior[r])

(* Which outcomes of the fetches let the run go on to publish: all of them *)
(* successes; no error and some success; not only failures.                *)
MatchGoesOn(outcomes, rows)   == \A t \in DOMAIN outcomes : outcomes[t] = "success"
FuturesGoesOn(outcomes, rows) == rows # Empty /\ \A t \in DOMAIN outcomes : outcomes[t] # "error"
SoccerGoesOn(outcomes, rows)  == rows # Empty \/ \A t \in DOMAIN outcomes : outcomes[t] # "error"

(* The fetch of every planned token that is not reused, and the audit rows  *)
(* the run appends with raw_published FALSE.  Nothing else sees the fetch.  *)
(* The rows of a run with a failed token are of no use to anybody.          *)
RecordFetch(r) ==
  /\ pc[r] = "resolved"
  /\ \E outcomes \in [DOMAIN plan[r] \ reuse[r] ->
                        {"success"} \cup (IF "fetch" \in Faults[leg] THEN {"empty", "error"} ELSE {})] :
       LET rows   == AuditRows(r, {t \in DOMAIN outcomes : outcomes[t] = "success"})
           goesOn == CASE leg = "match"   -> MatchGoesOn(outcomes, rows)
                       [] leg = "futures" -> FuturesGoesOn(outcomes, rows)
                       [] leg = "soccer"  -> SoccerGoesOn(outcomes, rows)
       IN  CASE ~goesOn -> Ends(r, "fetch_failed") /\ UNCHANGED rowsOf
             [] goesOn /\ rows = Empty /\ reuse[r] = {} -> Ends(r, "partial") /\ UNCHANGED rowsOf
             [] OTHER -> /\ rowsOf' = [rowsOf EXCEPT ![r] = rows]
                         /\ pc' = [pc EXCEPT ![r] = "recorded"]
                         /\ UNCHANGED local
  /\ UNCHANGED <<world, disk, flagged, lock, torn>>

(* The tokens of the shards and the reused ones are those of the audit.     *)
InventoryMatches(r) ==
  Fresh(r) \cup reuse[r] = DOMAIN rowsOf[r] \cup DOMAIN ReusedAuditRows(r)

(* The reused rows are looked up before the lock is taken, in the registry  *)
(* of the leg's own scope; only the soccer scope has that table.  The match *)
(* leg relies on the rows it has synthesised instead.                       *)
LoadReused(r) ==
  /\ pc[r] = "recorded"
  /\ \/ /\ (leg = "match" /\ reuse[r] \subseteq DOMAIN rowsOf[r]) \/ reuse[r] = {}
        /\ pc' = [pc EXCEPT ![r] = "waiting"]
        /\ UNCHANGED <<rowsOf, local>>
     \/ /\ leg = "soccer" /\ reuse[r] # {} /\ DOMAIN ReusedAuditRows(r) = reuse[r]
        /\ InventoryMatches(r)
        /\ loaded' = [loaded EXCEPT ![r] = ReusedAuditRows(r)]
        /\ pc' = [pc EXCEPT ![r] = "waiting"]
        /\ UNCHANGED <<rowsOf, plan, reuse, prior>>
     \/ /\ reuse[r] # {}
        /\ leg = "futures" \/ (leg = "soccer" /\ DOMAIN ReusedAuditRows(r) # reuse[r])
        /\ Fails(r, "publish_error")
  /\ UNCHANGED <<world, disk, flagged, lock, torn>>

(* Mutant of CanLock: nobody waits for the lock. *)
CanBargeIn(r) == pc[r] = "waiting"

CanLock(r) == pc[r] = "waiting" /\ lock = NoRun

TakeLock(r) ==
  /\ CanLock(r)
  /\ lock' = r /\ pc' = [pc EXCEPT ![r] = "locked"]
  /\ UNCHANGED <<world, disk, audit, local, torn>>

ReuseUnchanged(r) ==
  leg = "soccer" /\ reuse[r] # {} => ReusedAuditRows(r) = loaded[r]

(* A publication that changed while the run waited is an error.            *)
ReuseChanged(r) ==
  /\ pc[r] = "locked" /\ ~ReuseUnchanged(r)
  /\ lock' = NoRun /\ Fails(r, "publish_error")
  /\ UNCHANGED <<world, disk, flagged, torn>>

(* Fresh shards replace their tokens, every other token stays.             *)
MergedRows(before, fresh, r) == Over(fresh, before)

(* build_and_publish_snapshot_from_shards up to the move into snapshots/:   *)
(* rows and window hashes are merged into those of CURRENT.                *)
Build(r) ==
  /\ pc[r] = "locked" /\ ReuseUnchanged(r)
  /\ LET rows   == MergedRows(RowsIn(current), Restrict(rowsOf[r], Fresh(r)), r)
         hashes == Over(loaded[r], Over(rowsOf[r], HashesIn(current)))
         built  == [prev |-> current, rows |-> rows,
                    hashes |-> Restrict(hashes, DOMAIN hashes \cap DOMAIN rows)]
     IN  snapshots' = Over([s \in {r} |-> built], snapshots)
  /\ pc' = [pc EXCEPT ![r] = "built"]
  /\ UNCHANGED <<world, current, audit, lock, local, torn>>

(* _write_current_pointer: readers see the snapshot from here on.          *)
Advance(r) ==
  /\ pc[r] = "built"
  /\ current' = r /\ pc' = [pc EXCEPT ![r] = "advanced"]
  /\ UNCHANGED <<world, snapshots, audit, lock, local, torn>>

(* Mutant of RowCountOK: whether tokens are reused is ignored. *)
RowCountOfFresh(r) == leg = "match" => DOMAIN snapshots[r].rows = Fresh(r)

(* A match publication without reuse may not hold more rows than its shards.*)
RowCountOK(r) ==
  leg = "match" /\ reuse[r] = {} => DOMAIN snapshots[r].rows = Fresh(r)

(* The match leg flags the rows of its run and no others; the other legs    *)
(* take the flag of the tokens they have fetched.                           *)
Flagged(r) ==
  {row \in flagged : leg # "match" /\ row[2] \notin DOMAIN rowsOf[r]}
    \cup {<<r, t>> : t \in DOMAIN rowsOf[r]}

Commit(r) ==
  /\ pc[r] = "advanced" /\ RowCountOK(r)
  /\ flagged' = Flagged(r)
  /\ torn' = IF DOMAIN snapshots[r].rows = Fresh(r) THEN "no" ELSE torn
  /\ pc' = [pc EXCEPT ![r] = "committed"]
  /\ UNCHANGED <<world, disk, rowsOf, lock, local>>

(* Mutant of RollBackTo: CURRENT is left where it is. *)
KeepCurrent(r) == current

RollBackTo(r) == snapshots[r].prev

(* The transaction fails: rollback_snapshot_pointer, and the run with it.   *)
RegisterFails(r) ==
  /\ pc[r] = "advanced"
  /\ ~RowCountOK(r) \/ "register" \in Faults[leg]
  /\ current' = RollBackTo(r)
  /\ lock' = NoRun /\ Fails(r, "publish_error")
  /\ UNCHANGED <<world, snapshots, flagged, torn>>

(* Mutant of Protected: only the active snapshot is protected. *)
ProtectedActive == {current} \ {NoRun}

(* The active snapshot and its predecessor.                                *)
Protected == {current, snapshots[current].prev} \ {NoRun}

(* retain_snapshots(keep=2).  Identifiers start with a random run id, so    *)
(* that any snapshot may be the one that fills up the number to keep.       *)
Retain(r) ==
  /\ pc[r] = "committed"
  /\ LET others == DOMAIN snapshots \ Protected
     IN  \E kept \in SUBSET others :
           /\ Cardinality(kept) = IF Cardinality(Protected) < 2 /\ others # {} THEN 1 ELSE 0
           /\ snapshots' = Restrict(snapshots, kept \cup (DOMAIN snapshots \cap Protected))
  /\ lock' = NoRun /\ Ends(r, "published")
  /\ UNCHANGED <<world, current, audit, torn>>

LockAfterCrash(r) == IF lock = r THEN NoRun ELSE lock

(* CURRENT has moved and the transaction will never be.                    *)
LeavesTorn(r) == pc[r] = "advanced"

(* The process dies; the kernel drops its lock, nobody moves CURRENT back.  *)
(* What it has committed is published.                                     *)
Crash(r) ==
  /\ "crash" \in Faults[leg] /\ r \in Active
  /\ lock' = LockAfterCrash(r)
  /\ Ends(r, IF pc[r] = "committed" THEN "published" ELSE "crashed")
  /\ torn' = IF LeavesTorn(r) THEN "torn" ELSE torn
  /\ UNCHANGED <<world, disk, audit>>

-----------------------------------------------------------------------------
(* reconcile_snapshot_publication, run by hand when no run is at work.      *)

(* Mutant of Fits: only the tokens are compared. *)
FitsTokens(r) == DOMAIN rowsOf[r] = DOMAIN RowsIn(current)

(* The successes of run r have the tokens and the windows of CURRENT's rows.*)
Fits(r) ==
  /\ DOMAIN rowsOf[r] = DOMAIN RowsIn(current)
  /\ \A t \in DOMAIN rowsOf[r] : rowsOf[r][t].window = RowsIn(current)[t].window

(* They are CURRENT's rows, so that their numbers are equal too.           *)
FitsExactly(r) == rowsOf[r] = RowsIn(current)

(* The latest run with the same number of rows is taken.  Two fetches of a  *)
(* window, their hashes apart, may have equally many.                       *)
Reconcile(r) ==
  /\ leg # "soccer" /\ Active = {} /\ current # NoRun
  /\ Fits(r) /\ \A q \in Runs : FitsExactly(q) => q <= r
  /\ flagged' = {<<r, t>> : t \in DOMAIN rowsOf[r]}
  /\ torn' = IF FitsExactly(r) /\ HashesIn(current) = RowsIn(current) THEN "no" ELSE "guessed"
  /\ UNCHANGED <<world, disk, rowsOf, lock, pc, local>>

Step(r) ==
  \/ ResolveReuse(r) \/ ResolveSoccer(r) \/ RecordFetch(r) \/ LoadReused(r) \/ TakeLock(r) \/ ReuseChanged(r)
  \/ Build(r) \/ Advance(r) \/ Commit(r) \/ RegisterFails(r) \/ Retain(r)

Next ==
  \/ \E t \in Tokens : ChangeWindow(t)
  \/ \E r \in Runs : Plan(r) \/ Step(r) \/ Crash(r) \/ Reconcile(r)

Spec == Init /\ [][Next]_vars

-----------------------------------------------------------------------------
(* Properties.                                                             *)

Rows == UNION {[D -> Fetch] : D \in SUBSET Tokens}

(* Every variable has its type.                                            *)
TypeOK ==
  /\ leg \in Legs /\ torn \in {"no", "torn", "guessed"}
  /\ window \in [Tokens -> Windows]
  /\ DOMAIN snapshots \subseteq Runs
  /\ \A s \in DOMAIN snapshots :
       snapshots[s] \in [prev: {NoRun} \cup (Runs \ {s}), rows: Rows, hashes: Rows]
  /\ current \in DOMAIN snapshots \cup {NoRun}
  /\ rowsOf \in [Runs -> Rows]
  /\ \A row \in flagged : row[1] \in Runs /\ row[2] \in DOMAIN rowsOf[row[1]]
  /\ lock \in Runs \cup {NoRun}
  /\ pc \in [Runs -> {"idle", "planned", "resolved", "no_op", "recorded", "partial", "fetch_failed",
                      "waiting", "locked", "built", "advanced", "committed", "published",
                      "publish_error", "crashed"}]
  /\ \A r \in Runs : /\ plan[r] \in UNION {[D -> Windows] : D \in SUBSET Tokens}
                     /\ reuse[r] \subseteq DOMAIN plan[r]
                     /\ prior[r] \in Rows /\ loaded[r] \in Rows

(* CURRENT and the audit are one publication: when no publisher is at work  *)
(* and none died in between, the rows a reader gets through CURRENT are     *)
(* those of the fetch a published audit row describes.  A publication torn  *)
(* by a crash is made whole by the next run that fetches every token, or by *)
(* the operator's script, in whose case only the windows need to agree.     *)
OnePublication ==
  lock = NoRun /\ torn # "torn" =>
    \A row \in flagged :
      LET served == RowsIn(current)
          fetch  == rowsOf[row[1]][row[2]]
      IN  /\ row[2] \in DOMAIN served
          /\ served[row[2]].window = fetch.window
          /\ torn = "no" => served[row[2]] = fetch

(* A token has one published audit row at most: a run takes the flag from   *)
(* the runs before it, wherever they have crashed.                          *)
OneAuditRow == \A row, other \in flagged : row[2] = other[2] => row = other

(* The window hashes of the manifest of CURRENT, and of the snapshot about  *)
(* to replace it, are those of the rows beside it, although a reused        *)
(* token's hash comes from the audit and its rows from the snapshot.        *)
ManifestDescribesRows ==
  torn = "no" =>
    \A s \in DOMAIN snapshots \cap {current, lock} : snapshots[s].hashes = snapshots[s].rows

(* CURRENT never dangles and its predecessor, which a failing publication   *)
(* goes back to, is not cleaned up.                                         *)
CurrentIsKept ==
  current # NoRun =>
    /\ current \in DOMAIN snapshots
    /\ snapshots[current].prev \in DOMAIN snapshots \cup {NoRun}

(* A published token has rows, wherever publishers have crashed.            *)
PublishedTokenIsServed ==
  \A row \in flagged : row[2] \in DOMAIN RowsIn(current)

(* CURRENT moves back to the predecessor, or on to a snapshot in which the  *)
(* tokens its run did not fetch have kept their rows.                       *)
PriorRowsKept ==
  [][\/ current = NoRun
     \/ current' = snapshots[current].prev
     \/ \A t \in DOMAIN RowsIn(current) \ Fresh(current') :
          /\ t \in DOMAIN RowsIn(current')
          /\ RowsIn(current')[t] = RowsIn(current)[t]]_current

(* What is promised: see MinuteOddsPublication.  Between the move of        *)
(* CURRENT and the end of the transaction the publication has not happened. *)
Settled(r) == pc[r] = "advanced"

ServedRun ==
  IF \E r \in Runs : Settled(r)
  THEN snapshots[CHOOSE r \in Runs : Settled(r)].prev ELSE current

Promise == INSTANCE MinuteOddsPublication WITH
  served    <- RowsIn(ServedRun),
  audited   <- Published,
  published <- {r \in Runs : pc[r] \in {"committed", "published"}},
  dead      <- {r \in Runs : pc[r] = "crashed"}

(* A publication takes effect in one step or not at all, unless its process *)
(* dies between the two commits; what that leaves behind is whole fetches   *)
(* all the same, and the script's repair changes the audit alone.           *)
AtomicPublication == Promise!Spec

(* A match run that has all its tokens publishes them unless its process    *)
(* dies: neither the merge nor the row count stands in its way.             *)
FetchedRunPublishes ==
  [][leg = "match" => \A r \in Runs : pc'[r] = "publish_error" => pc[r] = "publish_error"]_pc

(* The three places a publication is kept in agree with each other: the     *)
(* snapshot CURRENT names, its manifest and the audit's published rows.     *)
PublicationAgrees == OnePublication /\ OneAuditRow /\ ManifestDescribesRows

(* No clean-up and no crash takes away a snapshot somebody still needs: the *)
(* current one, the one a failure goes back to, the rows of a published     *)
(* token.                                                                   *)
SnapshotsAreKept == TypeOK /\ CurrentIsKept /\ PublishedTokenIsServed
=============================================================================
