----------------------------- MODULE EventCatalog -----------------------------
(***************************************************************************)
(* The event catalog of a scope: partitions of Gamma's events, each paged  *)
(* until two walks in a row agree; checkpoints of the partitions that did; *)
(* events that markets only refer to, fetched one by one; and the          *)
(* observation that is appended to the snapshot tables in one transaction. *)
(*                                                                         *)
(* Gamma changes while it is read.  `worlds` lists its states so far and a *)
(* payload is the number of the state it was read from.  A page holds one  *)
(* event.  Jobs run one at a time; a job that fails is retried under its   *)
(* root run or abandoned, and may be executed again by hand much later.    *)
(***************************************************************************)
EXTENDS Integers, Sequences, FiniteSets, SequencesExt, FiniteSetsExt

CONSTANTS
  Events, Markets,
  Listing,       \* the events in the order Gamma pages them
  Sources,       \* the sources of candidates in their order
  Matches,       \* source -> the events its tag or series marks
  Related,       \* market -> events its payload refers to
  Homes,         \* market -> events that may enclose it
  First,         \* Gamma's first state: event -> [closed, big, markets]
  MaxChanges,    \* bound: changes of Gamma
  Roots,         \* root runs that may be started, 1..n
  MaxRetries,    \* run_retries.max_retries
  MaxFaults,     \* bound: failures and crashes
  MaxObserved,   \* bound: observations
  Leftovers,     \* whether an attempt may end between its observation and the
                 \* removal of checkpoints that other runs have left
  None

ASSUME CatalogAssumption ==
  /\ Related \in [Markets -> SUBSET Events] /\ Homes \in [Markets -> SUBSET Events]
  /\ MaxChanges \in Nat /\ MaxRetries \in Nat /\ MaxFaults \in Nat
  /\ MaxObserved \in Nat
  /\ Roots \in Nat \ {0} /\ Leftovers \in BOOLEAN

ASSUME ListingAssumption ==
  /\ Listing \in Seq(Events) /\ Listing # <<>> /\ None \notin Events
  /\ Sources \in Seq(Range(Sources)) /\ \A s \in Range(Sources) : Matches[s] \subseteq Range(Listing)
  /\ First \in [Events -> [closed : BOOLEAN, big : BOOLEAN, markets : SUBSET Markets]]

VARIABLES
  worlds,        \* the states of Gamma so far
  pc,            \* what the job does next, "idle" and "failed" between attempts
  step,          \* the asset the job is at
  root,          \* its root run
  retries,       \* retries the current attempt has left
  roots,         \* root runs started so far
  faults,
  walk,          \* the partition being paged: [at, attempt, page, seen, previous]
  payloads,      \* the merged payloads of this collection: event -> state read
  checkpoints,   \* event_catalog_scan_checkpoint: <<root, partition>> -> payloads
  snapshots,     \* the observations, in the order of observed_at
  began          \* history: Gamma's state when a root run began

gamma   == <<worlds>>
run     == <<step, root, retries, roots, faults, began>>
catalog == <<walk, payloads, checkpoints, snapshots>>

Now == Len(worlds)
Content(e, v) == worlds[v][e]
NoPayload == [e \in {} |-> 0]
Walk(at, attempt, page, seen, previous) ==
  [at |-> at, attempt |-> attempt, page |-> page, seen |-> seen, previous |-> previous]
NoWalk == Walk(1, 1, 1, NoPayload, None)

(* Gamma: an event closes, crosses the floor either way, or lists one more
   market.  It moves while it is read or before: later is the same. *)
Change(e, content) ==
  /\ Len(worlds) <= MaxChanges
  /\ pc \in {"idle", "raw", "scan", "fetch", "registry"}
  /\ worlds' = Append(worlds, [Last(worlds) EXCEPT ![e] = content])
  /\ UNCHANGED <<pc, run, catalog>>

GammaMoves == \E e \in Events : LET now == Last(worlds)[e] IN
  \/ ~now.closed /\ Change(e, [now EXCEPT !.closed = TRUE])
  \/ Change(e, [now EXCEPT !.big = ~now.big])
  \/ \E m \in Markets : /\ e \in Homes[m] /\ m \notin now.markets
                        /\ Change(e, [now EXCEPT !.markets = @ \cup {m}])

------------------------------------------------------------------------------
(* Collecting *)

(* The partitions: each source, open events before closed ones. *)
Partitions == [i \in 1..(2 * Len(Sources)) |->
  [source |-> Sources[(i + 1) \div 2], closed |-> i % 2 = 0]]

Attempts == 3    \* SCAN_CONVERGENCE_ATTEMPTS

(* _partition_inventory: the events, their markets and what those refer to. *)
Inventory(seen) == {<<e, Content(e, seen[e]).markets>> : e \in DOMAIN seen}

(* _merge_event_payloads: the payload read last is kept. *)
Merge(old, new) == [e \in DOMAIN old \cup DOMAIN new |->
                      IF e \in DOMAIN new THEN new[e] ELSE old[e]]

(* _load_checkpoints: those under the prefix of this root run. *)
Key == <<root, walk.at>>
Cached == Key \in DOMAIN checkpoints

Enter(p) == /\ walk' = Walk(p, 1, 1, NoPayload, None)
            /\ pc' = IF p > Len(Partitions) THEN "fetch" ELSE "scan"

(* The asset begins, again after a retry, with nothing in hand. *)
StartCatalog ==
  /\ pc = "catalog"
  /\ payloads' = NoPayload /\ Enter(1)
  /\ UNCHANGED <<gamma, run, checkpoints, snapshots>>

(* A partition a checkpoint holds is not walked again. *)
UseCheckpoint ==
  /\ pc = "scan" /\ walk.page = 1 /\ walk.attempt = 1
  /\ Cached
  /\ payloads' = Merge(payloads, checkpoints[Key])
  /\ Enter(walk.at + 1)
  /\ UNCHANGED <<gamma, run, checkpoints, snapshots>>

(* A page of iter_gamma_events_keyset: its event as it is now, when the
   partition lists it and the source matches. *)
ReadPage ==
  LET p == Partitions[walk.at]
      e == Listing[walk.page]
      hit == e \in Matches[p.source] /\ Content(e, Now).closed = p.closed
  IN /\ pc = "scan" /\ walk.page <= Len(Listing)
     /\ walk.attempt = 1 /\ walk.page = 1 => ~Cached
     /\ walk' = Walk(walk.at, walk.attempt, walk.page + 1,
                     IF hit THEN Merge(walk.seen, [x \in {e} |-> Now]) ELSE walk.seen,
                     walk.previous)
     /\ UNCHANGED <<gamma, pc, run, payloads, checkpoints, snapshots>>

(* Two walks in a row agree: the last one is the partition, and saved. *)
Converge ==
  /\ pc = "scan" /\ walk.page > Len(Listing) /\ walk.previous = Inventory(walk.seen)
  /\ payloads' = Merge(payloads, walk.seen)
  /\ checkpoints' = Merge(checkpoints, [k \in {Key} |-> walk.seen])
  /\ Enter(walk.at + 1)
  /\ UNCHANGED <<gamma, run, snapshots>>

WalkAgain ==
  /\ pc = "scan" /\ walk.page > Len(Listing) /\ walk.previous # Inventory(walk.seen)
  /\ walk.attempt < Attempts
  /\ walk' = Walk(walk.at, walk.attempt + 1, 1, NoPayload, Inventory(walk.seen))
  /\ UNCHANGED <<gamma, pc, run, payloads, checkpoints, snapshots>>

(* _event_market_rows: an event's payload relates each of its markets to the
   event itself, which encloses it, and to the events the market refers to. *)
Encloses(obs, e, m) == e \in DOMAIN obs /\ m \in Content(e, obs[e]).markets

Bridged(obs, r, m) == \E e \in DOMAIN obs : Encloses(obs, e, m) /\ r \in Related[m] \cup {e}

Referenced(obs) == UNION {Related[m] : m \in UNION {Content(e, obs[e]).markets : e \in DOMAIN obs}}

Unresolved == Referenced(payloads) \ DOMAIN payloads

OfASource == {e \in Unresolved : \E s \in Range(Sources) : e \in Matches[s]}

Fetched == Unresolved

(* fetch_gamma_event_by_id for each reference, until none is left. *)
FetchReferences ==
  /\ pc = "fetch"
  /\ IF Unresolved = {}
     THEN pc' = "merge" /\ UNCHANGED payloads
     ELSE payloads' = Merge(payloads, [e \in Fetched |-> Now]) /\ UNCHANGED pc
  /\ UNCHANGED <<gamma, run, walk, checkpoints, snapshots>>

(* The transaction: rows of a new observed_at beside those of earlier ones, *)
(* which are never rewritten.                                              *)
Inserted(batch) == Append(snapshots, batch)

(* merge_event_catalog_batch: an empty batch is refused; all relations are  *)
(* merged or none.                                                         *)
MergeBatch ==
  /\ pc = "merge" /\ DOMAIN payloads # {}
  /\ snapshots' = Inserted(payloads)
  /\ payloads' = NoPayload /\ walk' = NoWalk
  /\ pc' = "clear"
  /\ UNCHANGED <<gamma, run, checkpoints>>

(* Checkpoints of other runs. *)
Foreign == {k \in DOMAIN checkpoints : k[1] # root}

(* clear_event_catalog_partition_checkpoints: every one of the scope's. *)
Kept == {}

ClearCheckpoints ==
  /\ pc = "clear"
  /\ checkpoints' = [k \in Kept |-> checkpoints[k]]
  /\ pc' = "registry" /\ step' = "registry"
  /\ UNCHANGED <<gamma, root, retries, roots, faults, began, walk, payloads, snapshots>>

CatalogNext == \/ StartCatalog \/ UseCheckpoint \/ ReadPage \/ Converge \/ WalkAgain
               \/ FetchReferences \/ MergeBatch \/ ClearCheckpoints

------------------------------------------------------------------------------
(* A job and its attempts *)

StartRun ==
  /\ pc = "idle" /\ roots < Roots /\ Len(snapshots) < MaxObserved
  /\ roots' = roots + 1 /\ root' = roots + 1
  /\ began' = Append(began, Now)
  /\ retries' = MaxRetries /\ pc' = "raw" /\ step' = "raw"
  /\ UNCHANGED <<gamma, faults, catalog>>

(* A run of an earlier root, executed again by hand from its catalog. *)
Reexecute(r) ==
  /\ pc = "idle" /\ r \in 1..roots /\ Len(snapshots) < MaxObserved
  /\ root' = r /\ retries' = 0 /\ pc' = "catalog" /\ step' = "catalog"
  /\ UNCHANGED <<gamma, roots, faults, began, catalog>>

(* A transport error, a truncated page, a walk that does not settle, a missing
   reference or the end of the process: what was committed stays. *)
Unstable == /\ pc = "scan" /\ walk.page > Len(Listing) /\ walk.attempt = Attempts
            /\ walk.previous # Inventory(walk.seen)

Fail ==
  /\ pc \notin {"idle", "failed"} /\ (pc = "clear" /\ Foreign # {} => Leftovers)
  /\ Unstable \/ faults < MaxFaults
  /\ faults' = IF Unstable THEN faults ELSE faults + 1
  /\ pc' = "failed" /\ walk' = NoWalk /\ payloads' = NoPayload
  /\ UNCHANGED <<gamma, step, root, retries, roots, began, checkpoints, snapshots>>

(* run_retries: from the asset that failed, under the same root. *)
Retry ==
  /\ pc = "failed" /\ retries > 0
  /\ retries' = retries - 1 /\ pc' = step
  /\ UNCHANGED <<gamma, step, root, roots, faults, began, catalog>>

(* The attempts are used up, or nothing runs that would retry. *)
GiveUp ==
  /\ pc = "failed"
  /\ pc' = "idle"
  /\ UNCHANGED <<gamma, run, catalog>>

CatalogInit ==
  /\ worlds = <<First>>
  /\ pc = "idle" /\ step = "raw" /\ root = 0 /\ retries = 0 /\ roots = 0 /\ faults = 0
  /\ walk = NoWalk /\ payloads = NoPayload /\ checkpoints = NoPayload
  /\ snapshots = <<>> /\ began = <<>>

------------------------------------------------------------------------------
(* Every event that a source has marked all along is in every observation,
   though it may close while the partitions are walked. *)
NothingMissed ==
  \A i \in DOMAIN snapshots : \A s \in Range(Sources) : Matches[s] \subseteq DOMAIN snapshots[i]

(* Every event a market of an observation refers to is in it. *)
BridgesResolve ==
  pc = "clear" => \A r \in Events, m \in Markets :
    Bridged(Last(snapshots), r, m) => r \in DOMAIN Last(snapshots)

(* What is observed later was read no earlier: checkpoints that retries and
   re-executions reuse never bring back a state older than the latest
   observation of an event. *)
LatestIsFreshest ==
  \A i, j \in DOMAIN snapshots : i < j =>
    \A e \in DOMAIN snapshots[i] \cap DOMAIN snapshots[j] : snapshots[i][e] <= snapshots[j][e]

(* A run observes nothing from before its root run began. *)
ObservedByItsRun ==
  pc = "clear" => LET obs == Last(snapshots) IN \A e \in DOMAIN obs : obs[e] >= began[root]

(* An observation is whole and of its time: no event is missing, none is    *)
(* referred to in vain, and none is older than what was observed before or  *)
(* than the run that observes it, though runs are retried and re-executed.  *)
ObservationsAreSound == NothingMissed /\ BridgesResolve /\ LatestIsFreshest /\ ObservedByItsRun
=============================================================================
