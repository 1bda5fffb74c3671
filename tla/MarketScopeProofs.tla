-------------------------- MODULE MarketScopeProofs --------------------------
(***************************************************************************)
(* What holds of every scope job, for any markets, events and sources, any *)
(* number of root runs, failures and changes of Gamma: observations are    *)
(* whole and never go back in time, and the registry admits what crossed   *)
(* the floor with all it encloses, keeps it, and serves it.                *)
(***************************************************************************)
EXTENDS MarketScope, FiniteSetTheorems, SequenceTheorems, WellFoundedInduction, TLAPS

(* Where the catalog asset is at work, and where the registry asset is.    *)
Collecting == {"scan", "fetch", "merge"}
Listening  == {"idle", "failed", "raw", "rawLoad", "rawTokens", "catalog", "registry", "prune",
               "pruneApi", "materialize", "registryLoad", "registryTokens", "enrich", "orphans"}
Assets     == {"raw", "catalog", "registry", "enrich"}

Contents     == [closed : BOOLEAN, big : BOOLEAN, markets : SUBSET Markets]
Observations == UNION {[S -> Nat] : S \in SUBSET Events}

(* A payload was read from a state Gamma has had.                          *)
OfGamma(obs) == obs \in Observations /\ \A e \in DOMAIN obs : obs[e] \in 1..Now

(* The events that may ever list a market.                                 *)
MayList(e, m) == e \in Homes[m] \/ m \in First[e].markets

(* No market but a seed moves from one event to another.                   *)
OneHome == \A m \in Markets \ Seeds : \A e, f \in Events : MayList(e, m) /\ MayList(f, m) => e = f

(* Gamma only goes on: what it lists it goes on listing, what is closed    *)
(* stays closed.                                                           *)
GammaGoesOn ==
  /\ worlds \in Seq([Events -> Contents]) /\ Len(worlds) >= 1
  /\ \A i, j \in DOMAIN worlds : i <= j => \A e \in Events :
       /\ Content(e, i).markets \subseteq Content(e, j).markets
       /\ Content(e, i).closed => Content(e, j).closed
  /\ \A i \in DOMAIN worlds : \A e \in Events : \A m \in Content(e, i).markets : MayList(e, m)

(* Runs, walks, checkpoints and observations are what they should be.      *)
RunIsOne ==
  /\ roots \in 0..Roots /\ root \in 0..roots /\ step \in Assets
  /\ pc \in Collecting \cup Listening \cup {"clear"}
  /\ pc # "idle" => root # 0
  /\ began \in Seq(Nat) /\ Len(began) = roots /\ \A i \in 1..roots : began[i] <= Now

NP == 2 * Len(Sources)

Tables ==
  /\ walk.at \in Nat \ {0} /\ walk.attempt \in Nat \ {0} /\ walk.page \in Nat \ {0}
  /\ walk.at <= NP + 1 /\ walk.page <= Len(Listing) + 1
  /\ OfGamma(walk.seen) /\ OfGamma(payloads)
  /\ DOMAIN checkpoints \subseteq (1..roots) \X (1..NP)
  /\ \A k \in DOMAIN checkpoints : OfGamma(checkpoints[k])
  /\ snapshots \in Seq(Observations) /\ \A i \in DOMAIN snapshots : OfGamma(snapshots[i])

Saved(r, p)    == <<r, p>> \in DOMAIN checkpoints
SavedIn(r, p)  == DOMAIN checkpoints[<<r, p>>]
Marked(p)      == Matches[Partitions[p].source]
Over(e)        == Content(e, Now).closed

(* A checkpoint of open events has all that are marked and still open; one *)
(* of closed events has the rest.                                          *)
CheckpointsAreWhole ==
  \A r \in 1..roots, p \in 1..NP : Saved(r, p) =>
    /\ p % 2 = 1 => \A e \in Marked(p) : e \in SavedIn(r, p) \/ Over(e)
    /\ p % 2 = 0 => /\ Saved(r, p - 1)
                    /\ Marked(p) \subseteq SavedIn(r, p) \cup SavedIn(r, p - 1)

(* The collection so far: the partitions behind the walk are saved and     *)
(* merged, the one being walked is not saved, and the pages read have what *)
(* the partition should have.                                              *)
WalkIsWhole ==
  pc \in Collecting =>
    /\ pc = "scan" <=> walk.at <= NP
    /\ \A q \in 1..NP : q < walk.at => Saved(root, q) /\ SavedIn(root, q) \subseteq DOMAIN payloads
    /\ pc = "scan" =>
         /\ walk.page > 1 \/ walk.attempt > 1 => ~Saved(root, walk.at)
         /\ \A i \in 1..(walk.page - 1) : LET e == Listing[i] IN
              e \in Marked(walk.at) =>
                \/ e \in DOMAIN walk.seen
                \/ IF walk.at % 2 = 1 THEN Over(e) ELSE e \in SavedIn(root, walk.at - 1)

(* What is referred to is there. *)
Resolved(obs) == \A e \in DOMAIN obs : \A m \in Content(e, obs[e]).markets : Related[m] \subseteq DOMAIN obs

ReferencesResolve ==
  /\ pc = "merge" => Unresolved = {}
  /\ \A i \in DOMAIN snapshots : Resolved(snapshots[i])

(* Nothing a run has in hand or saved is from before its root run.         *)
NoneOlder(obs, v) == \A e \in DOMAIN obs : v <= obs[e]

CollectedByItsRun ==
  /\ \A k \in DOMAIN checkpoints : NoneOlder(checkpoints[k], began[k[1]])
  /\ pc \in Collecting => NoneOlder(payloads, began[root]) /\ NoneOlder(walk.seen, began[root])
  /\ pc = "clear" => snapshots # <<>> /\ NoneOlder(Last(snapshots), began[root])

(* No earlier observation of an event is later than what a run has of it   *)
(* in hand or saved, unless a later partition of the run has the event too.*)
UpToDate(obs, e) == \A i \in DOMAIN snapshots : e \in DOMAIN snapshots[i] => snapshots[i][e] <= obs[e]

Later(r, e, p) == \E q \in 1..NP : p < q /\ Saved(r, q) /\ e \in SavedIn(r, q)

CheckpointsAreFresh ==
  \A r \in 1..roots, p \in 1..NP : Saved(r, p) /\ (pc = "clear" => r = root) =>
    \A e \in SavedIn(r, p) : UpToDate(checkpoints[<<r, p>>], e) \/ Later(r, e, p)

CollectedIsFresh ==
  pc \in Collecting =>
    /\ \A e \in DOMAIN walk.seen : UpToDate(walk.seen, e)
    /\ \A e \in DOMAIN payloads : UpToDate(payloads, e) \/ Later(root, e, walk.at - 1)
    /\ \A q \in 1..NP : q < walk.at => \A e \in SavedIn(root, q) :
         \/ payloads[e] = checkpoints[<<root, q>>][e]
         \/ \E p \in 1..NP : q < p /\ p < walk.at /\ e \in SavedIn(root, p)

InvO == /\ GammaGoesOn /\ RunIsOne /\ Tables /\ CheckpointsAreWhole /\ WalkIsWhole
        /\ ReferencesResolve /\ CollectedByItsRun /\ NothingMissed
Fresh == CheckpointsAreFresh /\ CollectedIsFresh /\ LatestIsFreshest

------------------------------------------------------------------------------
Gated == config[root].gated

(* The registry.  A seed is never eligible, an eligible row has an event   *)
(* and a payload, and one of the event catalog is of an event that an      *)
(* observation saw enclose the market.                                     *)
Ever(e, m) == \E i \in DOMAIN snapshots : Encloses(snapshots[i], e, m)

RowIsRight(m) ==
  /\ registry[m] \in Rows
  /\ registry[m].source = "seed" => m \in Seeds
  /\ registry[m].eligible => m \notin Seeds /\ registry[m].event \in Events /\ m \in Payloads
  /\ registry[m].source = "event_catalog" => registry[m].eligible /\ Ever(registry[m].event, m)

RowsAreRight ==
  /\ registry \in [Markets -> Rows \cup {NoRow}]
  /\ active \cup collected \cup rawMarkets \cup tokens \subseteq Markets /\ checked \in BOOLEAN
  /\ \A m \in Markets : registry[m] = NoRow \/ RowIsRight(m)

(* What is enclosed by an admitted event is among what the refresh admits, *)
(* until stale rows are pruned, and eligible until it is loaded.           *)
Family(markets) ==
  \A e \in Admitted : \A m \in Markets \ Seeds : IsEnclosing(e, m) => m \in markets /\ registry[m].eligible

FamilyIsKept ==
  /\ pc = "prune" => Family(active)
  /\ pc \in {"pruneApi", "materialize"} => Family(Markets)
  /\ pc = "materialize" => \A m \in IneligibleApi : registry[m] = NoRow

(* What the registry asset has in hand, and what it has served.            *)
Wanted == {m \in Payloads : registry[m].eligible}
Served(m) == m \in rawMarkets /\ (m \in Tokenised => m \in tokens)

LoadIsWhole ==
  /\ pc = "registryLoad" => Wanted \subseteq collected
  /\ pc = "registryTokens" => Wanted \subseteq collected /\ collected \subseteq rawMarkets
  /\ pc = "enrich" => step = "enrich"
  /\ step = "enrich" => pc \in {"enrich", "orphans", "failed", "idle"}
  /\ step = "enrich" /\ Gated => \A m \in Wanted : Served(m)

InvR == RowsAreRight /\ FamilyIsKept /\ LoadIsWhole

(* With one home for each market.                                          *)
AdmittedAtHome ==
  \A m \in Markets : registry[m].eligible => Crossed(registry[m].event) /\ MayList(registry[m].event, m)

------------------------------------------------------------------------------
(* Payloads and partitions *)

LEMMA MergeIs ==
  ASSUME NEW old, NEW new
  PROVE  /\ DOMAIN Merge(old, new) = DOMAIN old \cup DOMAIN new
         /\ \A e \in DOMAIN new : Merge(old, new)[e] = new[e]
         /\ \A e \in DOMAIN old : e \notin DOMAIN new => Merge(old, new)[e] = old[e]
BY DEF Merge

LEMMA ObservationIs ==
  ASSUME NEW obs \in Observations
  PROVE  DOMAIN obs \subseteq Events /\ \A e \in DOMAIN obs : obs[e] \in Nat
BY DEF Observations

LEMMA MergeOfGamma ==
  ASSUME NEW old, NEW new, OfGamma(old), OfGamma(new)
  PROVE  OfGamma(Merge(old, new))
<1> DEFINE S == DOMAIN old \cup DOMAIN new
<1>1. S \subseteq Events /\ \A e \in S : (IF e \in DOMAIN new THEN new[e] ELSE old[e]) \in Nat
  BY ObservationIs DEF OfGamma
<1>2. Merge(old, new) \in [S -> Nat]
  BY <1>1 DEF Merge
<1>3. Merge(old, new) \in Observations
  BY <1>1, <1>2 DEF Observations
<1>4. \A e \in S : Merge(old, new)[e] = IF e \in DOMAIN new THEN new[e] ELSE old[e]
  BY DEF Merge
<1>5. DOMAIN Merge(old, new) = S
  BY MergeIs
<1>6. \A e \in S : Merge(old, new)[e] \in 1..Now
  BY <1>4 DEF OfGamma
<1> QED BY <1>3, <1>5, <1>6 DEF OfGamma

LEMMA MergeNoneOlder ==
  ASSUME NEW old, NEW new, NEW v, NoneOlder(old, v), NoneOlder(new, v)
  PROVE  NoneOlder(Merge(old, new), v)
<1>1. \A e \in DOMAIN old \cup DOMAIN new : Merge(old, new)[e] = IF e \in DOMAIN new THEN new[e] ELSE old[e]
  BY DEF Merge
<1>2. DOMAIN Merge(old, new) = DOMAIN old \cup DOMAIN new
  BY MergeIs
<1> QED BY <1>1, <1>2 DEF NoneOlder

LEMMA NothingOfGamma == OfGamma(NoPayload) /\ DOMAIN NoPayload = {}
<1>1. NoPayload \in [{} -> Nat] /\ DOMAIN NoPayload = {}
  BY DEF NoPayload
<1>2. NoPayload \in Observations
  BY <1>1 DEF Observations
<1> QED BY <1>1, <1>2 DEF OfGamma

(* What is read now of some events.                                        *)
LEMMA ReadOfGamma ==
  ASSUME NEW S \in SUBSET Events, Now \in Nat \ {0}
  PROVE  OfGamma([x \in S |-> Now])
<1>1. [x \in S |-> Now] \in [S -> Nat]
  OBVIOUS
<1>2. [x \in S |-> Now] \in Observations
  BY <1>1 DEF Observations
<1>3. Now \in 1..Now
  OBVIOUS
<1> QED BY <1>2, <1>3 DEF OfGamma

LEMMA IntervalsAgree ==
  ASSUME NEW a \in Nat, NEW b \in Nat, 1..a = 1..b
  PROVE  a = b
<1>1. CASE a < b
  BY <1>1, b \in 1..b /\ b \notin 1..a
<1>2. CASE b < a
  BY <1>2, a \in 1..a /\ a \notin 1..b
<1> QED BY <1>1, <1>2

LEMMA PartitionsAre ==
  /\ NP \in Nat /\ Len(Partitions) = NP
  /\ \A p \in 1..NP : Partitions[p].source \in Range(Sources) /\ Partitions[p].closed = (p % 2 = 0)
<1> DEFINE T == [source : Range(Sources), closed : BOOLEAN]
<1>1. Sources \in Seq(Range(Sources)) /\ Len(Sources) \in Nat /\ DOMAIN Sources = 1..Len(Sources)
  BY ListingAssumption
<1>2. \A p \in 1..NP : (p + 1) \div 2 \in 1..Len(Sources)
  BY <1>1 DEF NP
<1>3. \A s \in DOMAIN Sources : Sources[s] \in Range(Sources)
  BY DEF Range
<1>4. \A p \in 1..NP : Sources[(p + 1) \div 2] \in Range(Sources)
  BY <1>1, <1>2, <1>3
<1>5. Partitions \in [1..NP -> T]
  BY <1>4 DEF Partitions, NP
<1>6. NP \in Nat
  BY <1>1 DEF NP
<1>7. Partitions \in Seq(T)
  BY <1>5, <1>6, SeqDef
<1>8. Len(Partitions) = NP
  <2>1. DOMAIN Partitions = 1..Len(Partitions) /\ Len(Partitions) \in Nat
    BY <1>7, LenProperties
  <2>2. DOMAIN Partitions = 1..NP
    BY <1>5
  <2> QED BY <2>1, <2>2, <1>6, IntervalsAgree
<1> QED BY <1>4, <1>6, <1>8 DEF Partitions, NP

(* A partition of closed events follows that of the open ones.             *)
LEMMA PairOfPartitions ==
  ASSUME NEW p \in 1..NP, p % 2 = 0
  PROVE  p - 1 \in 1..NP /\ (p - 1) % 2 = 1 /\ Marked(p - 1) = Marked(p)
<1>1. NP \in Nat
  BY PartitionsAre
<1>2. p - 1 \in 1..NP /\ (p - 1) % 2 = 1 /\ (p - 1 + 1) \div 2 = (p + 1) \div 2
  BY <1>1
<1>3. Partitions[p - 1].source = Partitions[p].source
  BY <1>2 DEF Partitions, NP
<1> QED BY <1>2, <1>3 DEF Marked

LEMMA MarkedIsListed ==
  ASSUME NEW p \in 1..NP
  PROVE  Marked(p) \subseteq Range(Listing) /\ Marked(p) \subseteq Events
<1>1. Marked(p) \subseteq Range(Listing)
  BY PartitionsAre, ListingAssumption DEF Marked
<1>2. Listing \in Seq(Events) /\ DOMAIN Listing = 1..Len(Listing)
  BY ListingAssumption
<1>3. Range(Listing) \subseteq Events
  BY <1>2 DEF Range
<1> QED BY <1>1, <1>3

LEMMA EverySourceIsWalked ==
  ASSUME NEW s \in Range(Sources)
  PROVE  \E p \in 1..NP : p % 2 = 0 /\ Marked(p) = Matches[s]
<1>1. Sources \in Seq(Range(Sources)) /\ Len(Sources) \in Nat /\ DOMAIN Sources = 1..Len(Sources)
  BY ListingAssumption
<1>2. PICK k \in 1..Len(Sources) : s = Sources[k]
  BY <1>1 DEF Range
<1>3. 2 * k \in 1..NP /\ (2 * k) % 2 = 0 /\ (2 * k + 1) \div 2 = k
  BY <1>1 DEF NP
<1>4. Partitions[2 * k].source = s
  BY <1>2, <1>3 DEF Partitions, NP
<1> QED BY <1>3, <1>4 DEF Marked

------------------------------------------------------------------------------
(* Collecting *)

LEMMA EnterIs ==
  ASSUME NEW p \in Nat \ {0}, p <= NP + 1, Enter(p)
  PROVE  /\ walk'.at = p /\ walk'.attempt = 1 /\ walk'.page = 1 /\ walk'.seen = NoPayload
         /\ pc' \in {"scan", "fetch"} /\ (pc' = "scan" <=> p <= NP)
BY PartitionsAre DEF Enter, Walk

(* What the steps of the collection leave alone.                           *)
LEMMA CollectingKeeps ==
  ASSUME InvO, UNCHANGED <<gamma, run, snapshots>>, pc' \in Collecting, pc # "idle"
  PROVE  GammaGoesOn' /\ RunIsOne' /\ NothingMissed' /\ Now' = Now
         /\ \A i \in DOMAIN snapshots : Resolved(snapshots[i])'
<1> USE DEF InvO, gamma, run, Now
<1>1. GammaGoesOn'
  BY DEF GammaGoesOn, Content
<1>2. RunIsOne'
  BY DEF RunIsOne
<1>3. NothingMissed'
  BY DEF NothingMissed
<1>4. \A i \in DOMAIN snapshots : Resolved(snapshots[i])'
  BY DEF ReferencesResolve, Resolved, Content
<1> QED BY <1>1, <1>2, <1>3, <1>4

LEMMA NowIs == GammaGoesOn => Now \in Nat \ {0} /\ DOMAIN worlds = 1..Now
BY DEF GammaGoesOn, Now

LEMMA TablesKeep ==
  ASSUME InvO, UNCHANGED <<gamma, roots, checkpoints, snapshots>>, NP \in Nat,
         walk'.at \in 1..(NP + 1), walk'.attempt \in Nat \ {0}, walk'.page \in 1..(Len(Listing) + 1),
         OfGamma(walk'.seen), OfGamma(payloads')
  PROVE  Tables'
<1>1. Now' = Now
  BY DEF gamma, Now
<1>2. \A obs : OfGamma(obs)' = OfGamma(obs)
  BY <1>1 DEF OfGamma
<1>3. Len(Listing) \in Nat
  BY ListingAssumption
<1>4. OfGamma(walk.seen)' /\ OfGamma(payloads)'
  BY <1>1 DEF OfGamma
<1>5. (\A k \in DOMAIN checkpoints : OfGamma(checkpoints[k]))' /\ (\A i \in DOMAIN snapshots : OfGamma(snapshots[i]))'
  BY <1>1 DEF InvO, Tables, OfGamma
<1> QED BY <1>3, <1>4, <1>5 DEF InvO, Tables

LEMMA StartCatalogKeeps == InvO /\ StartCatalog => InvO'
<1> SUFFICES ASSUME InvO, StartCatalog PROVE InvO'
  OBVIOUS
<1>1. UNCHANGED <<gamma, run, checkpoints, snapshots>> /\ payloads' = NoPayload /\ pc = "catalog"
  BY DEF StartCatalog
<1>2. /\ walk'.at = 1 /\ walk'.attempt = 1 /\ walk'.page = 1 /\ walk'.seen = NoPayload
      /\ pc' \in {"scan", "fetch"} /\ (pc' = "scan" <=> 1 <= NP) /\ NP \in Nat
  BY EnterIs, PartitionsAre DEF StartCatalog
<1>3. GammaGoesOn' /\ RunIsOne' /\ NothingMissed' /\ Now' = Now
      /\ \A i \in DOMAIN snapshots : Resolved(snapshots[i])'
  BY <1>1, <1>2, CollectingKeeps DEF Collecting
<1>4. Tables'
  <2>1. 1 \in 1..(NP + 1) /\ 1 \in 1..(Len(Listing) + 1)
    BY <1>2, ListingAssumption
  <2> QED BY <1>1, <1>2, <2>1, NothingOfGamma, TablesKeep DEF run
<1>5. CheckpointsAreWhole'
  BY <1>1 DEF InvO, CheckpointsAreWhole, Saved, SavedIn, Over, Content, run, gamma, Now
<1>6. WalkIsWhole'
  BY <1>2 DEF WalkIsWhole
<1>7. ReferencesResolve'
  BY <1>1, <1>2, <1>3 DEF ReferencesResolve
<1>8. CollectedByItsRun'
  BY <1>1, <1>2, NothingOfGamma DEF InvO, CollectedByItsRun, NoneOlder, run
<1> QED BY <1>3, <1>4, <1>5, <1>6, <1>7, <1>8 DEF InvO

LEMMA ScanIs ==
  ASSUME InvO, pc = "scan"
  PROVE  walk.at \in 1..NP /\ NP \in Nat /\ root \in 1..roots
BY PartitionsAre DEF InvO, WalkIsWhole, Tables, RunIsOne, Collecting

LEMMA UseCheckpointKeeps == InvO /\ UseCheckpoint => InvO'
<1> SUFFICES ASSUME InvO, UseCheckpoint PROVE InvO'
  OBVIOUS
<1> DEFINE saved == checkpoints[<<root, walk.at>>]
<1>1. /\ UNCHANGED <<gamma, run, checkpoints, snapshots>> /\ pc = "scan"
      /\ Saved(root, walk.at) /\ payloads' = Merge(payloads, saved)
  BY DEF UseCheckpoint, Cached, Key, Saved
<1>a. walk.at \in 1..NP /\ NP \in Nat /\ root \in 1..roots
  BY <1>1, ScanIs
<1>2. /\ walk'.at = walk.at + 1 /\ walk'.attempt = 1 /\ walk'.page = 1 /\ walk'.seen = NoPayload
      /\ pc' \in {"scan", "fetch"} /\ (pc' = "scan" <=> walk.at + 1 <= NP)
  BY <1>a, EnterIs DEF UseCheckpoint
<1>3. GammaGoesOn' /\ RunIsOne' /\ NothingMissed' /\ Now' = Now
      /\ \A i \in DOMAIN snapshots : Resolved(snapshots[i])'
  BY <1>1, <1>2, CollectingKeeps DEF Collecting
<1>4. OfGamma(payloads')
  <2>1. OfGamma(payloads) /\ OfGamma(saved)
    BY <1>1 DEF InvO, Tables, Saved
  <2> QED BY <1>1, <2>1, MergeOfGamma
<1>5. Tables'
  <2>1. walk.at + 1 \in 1..(NP + 1) /\ 1 \in 1..(Len(Listing) + 1)
    BY <1>a, ListingAssumption
  <2> QED BY <1>1, <1>2, <1>a, <1>4, <2>1, NothingOfGamma, TablesKeep DEF run
<1>6. CheckpointsAreWhole'
  BY <1>1 DEF InvO, CheckpointsAreWhole, Saved, SavedIn, Over, Content, run, gamma, Now
<1>7. WalkIsWhole'
  <2>1. DOMAIN payloads' = DOMAIN payloads \cup DOMAIN saved
    BY <1>1, MergeIs
  <2>2. \A q \in 1..NP : q < walk.at => Saved(root, q) /\ SavedIn(root, q) \subseteq DOMAIN payloads
    BY <1>1 DEF InvO, WalkIsWhole, Collecting
  <2>3. \A q \in 1..NP : q < walk'.at => (Saved(root, q) /\ SavedIn(root, q) \subseteq DOMAIN payloads)'
    <3> TAKE q \in 1..NP
    <3> HAVE q < walk'.at
    <3>1. CASE q = walk.at
      BY <3>1, <1>1, <2>1 DEF Saved, SavedIn, run
    <3>2. CASE q < walk.at
      BY <3>2, <1>1, <2>1, <2>2 DEF Saved, SavedIn, run
    <3> QED BY <3>1, <3>2, <1>2, <1>a
  <2> QED BY <1>2, <1>a, <2>3 DEF WalkIsWhole
<1>8. ReferencesResolve'
  BY <1>1, <1>2, <1>3 DEF ReferencesResolve
<1>9. CollectedByItsRun'
  <2>1. NoneOlder(payloads, began[root]) /\ NoneOlder(saved, began[root])
    BY <1>1 DEF InvO, CollectedByItsRun, Collecting, Saved
  <2>2. NoneOlder(payloads', began[root])
    BY <1>1, <2>1, MergeNoneOlder
  <2> QED BY <1>1, <1>2, <2>2, NothingOfGamma DEF InvO, CollectedByItsRun, NoneOlder, run
<1> QED BY <1>3, <1>5, <1>6, <1>7, <1>8, <1>9 DEF InvO

LEMMA OverIsBoolean == ASSUME GammaGoesOn, NEW e \in Events PROVE Over(e) \in BOOLEAN
<1>1. Now \in DOMAIN worlds /\ worlds \in Seq([Events -> Contents])
  BY NowIs DEF GammaGoesOn
<1>2. worlds[Now][e] \in Contents
  BY <1>1
<1> QED BY <1>2 DEF Over, Content, Contents

(* A page adds its event to what the walk has seen, or closes the question.*)
LEMMA ReadPageIs ==
  ASSUME InvO, ReadPage
  PROVE  /\ UNCHANGED <<gamma, pc, run, payloads, checkpoints, snapshots>>
         /\ pc = "scan" /\ walk.page <= Len(Listing) /\ Listing[walk.page] \in Events
         /\ walk.page = 1 /\ walk.attempt = 1 => ~Saved(root, walk.at)
         /\ walk'.at = walk.at /\ walk'.attempt = walk.attempt /\ walk'.page = walk.page + 1
         /\ LET e == Listing[walk.page]
                hit == e \in Marked(walk.at) /\ Over(e) = (walk.at % 2 = 0)
            IN IF hit THEN walk'.seen = Merge(walk.seen, [x \in {e} |-> Now])
                      ELSE walk'.seen = walk.seen
<1>1. walk.page \in Nat \ {0} /\ pc = "scan" /\ walk.page <= Len(Listing)
  BY DEF ReadPage, InvO, Tables
<1>2. Listing[walk.page] \in Events
  BY <1>1, ListingAssumption
<1>3. Partitions[walk.at].closed = (walk.at % 2 = 0)
  BY <1>1, ScanIs, PartitionsAre
<1> QED BY <1>1, <1>2, <1>3 DEF ReadPage, Walk, Cached, Key, Saved, Marked, Over

LEMMA ReadPageKeeps == InvO /\ ReadPage => InvO'
<1> SUFFICES ASSUME InvO, ReadPage PROVE InvO'
  OBVIOUS
<1> DEFINE e == Listing[walk.page]
           hit == e \in Marked(walk.at) /\ Over(e) = (walk.at % 2 = 0)
<1>1. /\ UNCHANGED <<gamma, pc, run, payloads, checkpoints, snapshots>>
      /\ pc = "scan" /\ walk.page <= Len(Listing) /\ e \in Events
      /\ walk.page = 1 /\ walk.attempt = 1 => ~Saved(root, walk.at)
      /\ walk'.at = walk.at /\ walk'.attempt = walk.attempt /\ walk'.page = walk.page + 1
      /\ IF hit THEN walk'.seen = Merge(walk.seen, [x \in {e} |-> Now]) ELSE walk'.seen = walk.seen
  BY ReadPageIs
<1>2. /\ walk.at \in 1..NP /\ NP \in Nat /\ root \in 1..roots
      /\ Now \in Nat \ {0} /\ Len(Listing) \in Nat
  BY <1>1, ScanIs, NowIs, ListingAssumption DEF InvO
<1>3. GammaGoesOn' /\ RunIsOne' /\ NothingMissed' /\ Now' = Now
      /\ \A i \in DOMAIN snapshots : Resolved(snapshots[i])'
  BY <1>1, CollectingKeeps DEF Collecting
<1> HIDE DEF e, hit
<1>4. OfGamma(walk'.seen) /\ DOMAIN walk.seen \subseteq DOMAIN walk'.seen /\ (hit => e \in DOMAIN walk'.seen)
      /\ \A x \in DOMAIN walk'.seen : walk'.seen[x] = Now \/ (x \in DOMAIN walk.seen /\ walk'.seen[x] = walk.seen[x])
  <2> DEFINE page == [x \in {e} |-> Now]
  <2>1. OfGamma(walk.seen) /\ OfGamma(page)
    BY <1>1, <1>2, ReadOfGamma DEF InvO, Tables
  <2>2. DOMAIN page = {e} /\ page[e] = Now
    OBVIOUS
  <2> HIDE DEF page
  <2>3. CASE hit
    <3>1. walk'.seen = Merge(walk.seen, page)
      BY <1>1, <2>3 DEF page
    <3>2. OfGamma(Merge(walk.seen, page))
      BY <2>1, MergeOfGamma
    <3>3. /\ DOMAIN Merge(walk.seen, page) = DOMAIN walk.seen \cup DOMAIN page
          /\ \A x \in DOMAIN page : Merge(walk.seen, page)[x] = page[x]
          /\ \A x \in DOMAIN walk.seen : x \notin DOMAIN page => Merge(walk.seen, page)[x] = walk.seen[x]
      BY MergeIs
    <3> QED BY <3>1, <3>2, <3>3, <2>2
  <2>4. CASE ~hit
    BY <1>1, <2>1, <2>4
  <2> QED BY <2>3, <2>4
<1>5. Tables'
  <2>1. /\ walk.at \in 1..(NP + 1) /\ walk.page + 1 \in 1..(Len(Listing) + 1) /\ walk.attempt \in Nat \ {0}
        /\ OfGamma(payloads)
    BY <1>1, <1>2 DEF InvO, Tables
  <2> QED BY <1>1, <1>2, <1>4, <2>1, TablesKeep DEF run
<1>6. CheckpointsAreWhole'
  BY <1>1 DEF InvO, CheckpointsAreWhole, Saved, SavedIn, Over, Content, run, gamma, Now
<1>7. WalkIsWhole'
  <2>1. \A q \in 1..NP : q < walk'.at => (Saved(root, q) /\ SavedIn(root, q) \subseteq DOMAIN payloads)'
    BY <1>1 DEF InvO, WalkIsWhole, Collecting, Saved, SavedIn, run
  <2>2. ~Saved(root, walk.at)
    <3>1. CASE walk.page = 1 /\ walk.attempt = 1
      BY <3>1, <1>1
    <3>2. CASE walk.page > 1 \/ walk.attempt > 1
      BY <3>2, <1>1 DEF InvO, WalkIsWhole, Collecting
    <3> QED BY <3>1, <3>2 DEF InvO, Tables
  <2>3. ASSUME NEW i \in 1..walk.page, Listing[i] \in Marked(walk.at)
        PROVE  \/ Listing[i] \in DOMAIN walk'.seen
               \/ IF walk.at % 2 = 1 THEN Over(Listing[i]) ELSE Listing[i] \in SavedIn(root, walk.at - 1)
    <3>1. CASE i < walk.page
      <4>1. i \in 1..(walk.page - 1)
        BY <3>1 DEF InvO, Tables
      <4>2. \/ Listing[i] \in DOMAIN walk.seen
            \/ IF walk.at % 2 = 1 THEN Over(Listing[i]) ELSE Listing[i] \in SavedIn(root, walk.at - 1)
        BY <4>1, <1>1, <2>3 DEF InvO, WalkIsWhole, Collecting
      <4> QED BY <4>2, <1>4
    <3>2. CASE i = walk.page /\ hit
      BY <3>2, <1>4 DEF e
    <3>3. CASE i = walk.page /\ ~hit /\ walk.at % 2 = 1
      <4>1. Over(e) \in BOOLEAN /\ e \in Marked(walk.at) /\ walk.at % 2 # 0
        BY <3>3, <2>3, OverIsBoolean, <1>1 DEF e, InvO
      <4> QED BY <3>3, <4>1 DEF e, hit
    <3>4. CASE i = walk.page /\ ~hit /\ walk.at % 2 # 1
      <4>1. walk.at % 2 = 0
        BY <3>4, <1>2
      <4>2. ~Over(e) /\ e \in Marked(walk.at)
        BY <3>4, <4>1, <2>3, OverIsBoolean, <1>1 DEF e, hit, InvO
      <4>3. walk.at - 1 \in 1..NP /\ (walk.at - 1) % 2 = 1 /\ Marked(walk.at - 1) = Marked(walk.at)
        BY <4>1, <1>2, PairOfPartitions
      <4>4. Saved(root, walk.at - 1)
        BY <4>3, <1>1, <1>2 DEF InvO, WalkIsWhole, Collecting
      <4>5. e \in SavedIn(root, walk.at - 1)
        BY <4>2, <4>3, <4>4, <1>2 DEF InvO, CheckpointsAreWhole
      <4> QED BY <3>4, <4>5 DEF e
    <3> QED BY <3>1, <3>2, <3>3, <3>4, <1>1, <1>2 DEF InvO, Tables
  <2>4. walk'.page - 1 = walk.page
    BY <1>1 DEF InvO, Tables
  <2>5. \A x : Over(x)' = Over(x)
    BY <1>1 DEF Over, Content, gamma, Now
  <2>6. SavedIn(root, walk.at - 1)' = SavedIn(root, walk.at - 1) /\ Saved(root, walk.at)' = Saved(root, walk.at)
    BY <1>1 DEF SavedIn, Saved, run
  <2>7. walk'.at <= NP /\ pc' = "scan"
    BY <1>1, <1>2
  <2>8. (walk.page > 1 \/ walk.attempt > 1 => ~Saved(root, walk.at))'
    BY <2>2, <2>6, <1>1
  <2>9. \A i \in 1..(walk'.page - 1) : Listing[i] \in Marked(walk'.at) =>
                \/ Listing[i] \in DOMAIN walk'.seen
                \/ IF walk'.at % 2 = 1 THEN Over(Listing[i])' ELSE Listing[i] \in SavedIn(root, walk.at - 1)'
    BY <2>3, <2>4, <2>5, <2>6, <1>1
  <2> QED BY <2>1, <2>7, <2>8, <2>9, <1>1 DEF WalkIsWhole, Collecting
<1>8. ReferencesResolve'
  BY <1>1, <1>3 DEF ReferencesResolve
<1>9. CollectedByItsRun'
  <2>1. NoneOlder(payloads, began[root]) /\ NoneOlder(walk.seen, began[root])
    BY <1>1 DEF InvO, CollectedByItsRun, Collecting
  <2>2. began[root] <= Now
    BY <1>2 DEF InvO, RunIsOne
  <2>3. NoneOlder(walk'.seen, began[root])
    BY <1>4, <2>1, <2>2 DEF NoneOlder
  <2> QED BY <1>1, <2>1, <2>3 DEF InvO, CollectedByItsRun, NoneOlder, run
<1> QED BY <1>3, <1>5, <1>6, <1>7, <1>8, <1>9 DEF InvO

(* Two walks agree: the partition is saved as the last one saw it.         *)
LEMMA ConvergeIs ==
  ASSUME InvO, Converge
  PROVE  /\ UNCHANGED <<gamma, run, snapshots>> /\ pc = "scan" /\ payloads' = Merge(payloads, walk.seen)
         /\ walk.page = Len(Listing) + 1 /\ ~Saved(root, walk.at)
         /\ DOMAIN checkpoints' = DOMAIN checkpoints \cup {<<root, walk.at>>}
         /\ checkpoints'[<<root, walk.at>>] = walk.seen
         /\ \A k \in DOMAIN checkpoints : checkpoints'[k] = checkpoints[k]
         /\ walk'.at = walk.at + 1 /\ walk'.attempt = 1 /\ walk'.page = 1 /\ walk'.seen = NoPayload
         /\ pc' \in {"scan", "fetch"} /\ (pc' = "scan" <=> walk.at + 1 <= NP)
<1> DEFINE one == [k \in {<<root, walk.at>>} |-> walk.seen]
<1>1. /\ UNCHANGED <<gamma, run, snapshots>> /\ pc = "scan" /\ payloads' = Merge(payloads, walk.seen)
      /\ walk.page > Len(Listing) /\ checkpoints' = Merge(checkpoints, one) /\ Enter(walk.at + 1)
  BY DEF Converge, Key
<1>2. walk.at \in 1..NP /\ NP \in Nat /\ root \in 1..roots /\ Len(Listing) \in Nat \ {0}
  BY <1>1, ScanIs, ListingAssumption
<1>3. walk.page = Len(Listing) + 1 /\ walk.page > 1
  BY <1>1, <1>2 DEF InvO, Tables
<1>4. ~Saved(root, walk.at)
  BY <1>1, <1>3 DEF InvO, WalkIsWhole, Collecting
<1>5. DOMAIN one = {<<root, walk.at>>} /\ one[<<root, walk.at>>] = walk.seen
  OBVIOUS
<1> HIDE DEF one
<1>6. /\ DOMAIN checkpoints' = DOMAIN checkpoints \cup {<<root, walk.at>>}
      /\ checkpoints'[<<root, walk.at>>] = walk.seen
      /\ \A k \in DOMAIN checkpoints : checkpoints'[k] = checkpoints[k]
  <2>1. /\ DOMAIN Merge(checkpoints, one) = DOMAIN checkpoints \cup DOMAIN one
        /\ \A k \in DOMAIN one : Merge(checkpoints, one)[k] = one[k]
        /\ \A k \in DOMAIN checkpoints : k \notin DOMAIN one => Merge(checkpoints, one)[k] = checkpoints[k]
    BY MergeIs
  <2> QED BY <1>1, <1>4, <1>5, <2>1 DEF Saved
<1>7. /\ walk'.at = walk.at + 1 /\ walk'.attempt = 1 /\ walk'.page = 1 /\ walk'.seen = NoPayload
      /\ pc' \in {"scan", "fetch"} /\ (pc' = "scan" <=> walk.at + 1 <= NP)
  BY <1>1, <1>2, EnterIs
<1> QED BY <1>1, <1>3, <1>4, <1>6, <1>7

LEMMA ConvergeKeeps == InvO /\ Converge => InvO'
<1> SUFFICES ASSUME InvO, Converge PROVE InvO'
  OBVIOUS
<1>1. /\ UNCHANGED <<gamma, run, snapshots>> /\ pc = "scan" /\ payloads' = Merge(payloads, walk.seen)
      /\ walk.page = Len(Listing) + 1 /\ ~Saved(root, walk.at)
      /\ DOMAIN checkpoints' = DOMAIN checkpoints \cup {<<root, walk.at>>}
      /\ checkpoints'[<<root, walk.at>>] = walk.seen
      /\ \A k \in DOMAIN checkpoints : checkpoints'[k] = checkpoints[k]
  BY ConvergeIs
<1>2. /\ walk'.at = walk.at + 1 /\ walk'.attempt = 1 /\ walk'.page = 1 /\ walk'.seen = NoPayload
      /\ pc' \in {"scan", "fetch"} /\ (pc' = "scan" <=> walk.at + 1 <= NP)
  BY ConvergeIs
<1>a. walk.at \in 1..NP /\ NP \in Nat /\ root \in 1..roots
  BY <1>1, ScanIs
<1>3. GammaGoesOn' /\ RunIsOne' /\ NothingMissed' /\ Now' = Now
      /\ \A i \in DOMAIN snapshots : Resolved(snapshots[i])'
  BY <1>1, <1>2, CollectingKeeps DEF Collecting
<1>4. OfGamma(payloads') /\ OfGamma(walk.seen)
  BY <1>1, MergeOfGamma DEF InvO, Tables
<1>5. Tables'
  <2>1. OfGamma(walk.seen)'
    BY NothingOfGamma, <1>2, <1>3 DEF OfGamma
  <2>2. 1 <= Len(Listing) + 1
    BY ListingAssumption
  <2>3. \A k \in DOMAIN checkpoints' : OfGamma(checkpoints[k])'
    <3>1. \A k \in DOMAIN checkpoints' : OfGamma(checkpoints'[k])
      BY <1>1, <1>4 DEF InvO, Tables
    <3> QED BY <3>1, <1>3 DEF OfGamma
  <2>4. DOMAIN checkpoints' \subseteq (1..roots) \X (1..NP)
    BY <1>1, <1>a DEF InvO, Tables
  <2> QED BY <1>1, <1>2, <1>3, <1>a, <1>4, <2>1, <2>2, <2>3, <2>4 DEF InvO, Tables, run, OfGamma
<1>6. CheckpointsAreWhole'
  <2>1. \A x : Over(x)' = Over(x)
    BY <1>1 DEF Over, Content, gamma, Now
  <2> SUFFICES ASSUME NEW r \in 1..roots, NEW p \in 1..NP, Saved(r, p)'
               PROVE  (/\ p % 2 = 1 => \A e \in Marked(p) : e \in SavedIn(r, p) \/ Over(e)
                       /\ p % 2 = 0 => /\ Saved(r, p - 1)
                                       /\ Marked(p) \subseteq SavedIn(r, p) \cup SavedIn(r, p - 1))'
    BY <1>1 DEF CheckpointsAreWhole, run
  <2>2. CASE Saved(r, p)
    <3>1. /\ p % 2 = 1 => \A e \in Marked(p) : e \in SavedIn(r, p) \/ Over(e)
          /\ p % 2 = 0 => /\ Saved(r, p - 1)
                          /\ Marked(p) \subseteq SavedIn(r, p) \cup SavedIn(r, p - 1)
      BY <2>2 DEF InvO, CheckpointsAreWhole
    <3>2. SavedIn(r, p)' = SavedIn(r, p)
      BY <2>2, <1>1 DEF Saved, SavedIn
    <3>3. Saved(r, p - 1) => Saved(r, p - 1)' /\ SavedIn(r, p - 1)' = SavedIn(r, p - 1)
      BY <1>1 DEF Saved, SavedIn
    <3> QED BY <2>1, <3>1, <3>2, <3>3
  <2>3. CASE r = root /\ p = walk.at
    <3>1. \A e \in Marked(p) : \/ e \in DOMAIN walk.seen
                               \/ IF p % 2 = 1 THEN Over(e) ELSE e \in SavedIn(r, p - 1)
      <4> TAKE e \in Marked(p)
      <4>1. PICK i \in DOMAIN Listing : e = Listing[i]
        BY MarkedIsListed DEF Range
      <4>2. i \in 1..(walk.page - 1)
        BY <4>1, <1>1, ListingAssumption
      <4> QED BY <4>1, <4>2, <1>1, <2>3 DEF InvO, WalkIsWhole, Collecting
    <3>2. SavedIn(r, p)' = DOMAIN walk.seen
      BY <1>1, <2>3 DEF SavedIn
    <3>3. CASE p % 2 = 1
      BY <3>1, <3>2, <3>3, <2>1
    <3>4. CASE p % 2 = 0
      <4>1. p - 1 \in 1..NP
        BY <3>4, PairOfPartitions
      <4>2. Saved(r, p - 1)
        BY <4>1, <2>3, <1>1, <1>a DEF InvO, WalkIsWhole, Collecting
      <4>3. Saved(r, p - 1)' /\ SavedIn(r, p - 1)' = SavedIn(r, p - 1)
        BY <4>2, <1>1 DEF Saved, SavedIn
      <4> QED BY <3>1, <3>2, <3>4, <4>3
    <3> QED BY <3>3, <3>4, <1>a
  <2>4. Saved(r, p) \/ (r = root /\ p = walk.at)
    BY <1>1 DEF Saved
  <2> QED BY <2>2, <2>3, <2>4
<1>7. WalkIsWhole'
  <2>1. DOMAIN payloads' = DOMAIN payloads \cup DOMAIN walk.seen
    BY <1>1, MergeIs
  <2>2. \A q \in 1..NP : q < walk.at => Saved(root, q) /\ SavedIn(root, q) \subseteq DOMAIN payloads
    BY <1>1 DEF InvO, WalkIsWhole, Collecting
  <2>3. \A q \in 1..NP : q < walk'.at => (Saved(root, q) /\ SavedIn(root, q) \subseteq DOMAIN payloads)'
    <3> TAKE q \in 1..NP
    <3> HAVE q < walk'.at
    <3>1. CASE q = walk.at
      BY <3>1, <1>1, <2>1 DEF Saved, SavedIn, run
    <3>2. CASE q < walk.at
      BY <3>2, <1>1, <2>1, <2>2 DEF Saved, SavedIn, run
    <3> QED BY <3>1, <3>2, <1>2, <1>a
  <2> QED BY <1>2, <1>a, <2>3 DEF WalkIsWhole
<1>8. ReferencesResolve'
  BY <1>1, <1>2, <1>3 DEF ReferencesResolve
<1>9. CollectedByItsRun'
  <2>1. NoneOlder(payloads, began[root]) /\ NoneOlder(walk.seen, began[root])
    BY <1>1 DEF InvO, CollectedByItsRun, Collecting
  <2>2. NoneOlder(payloads', began[root])
    BY <1>1, <2>1, MergeNoneOlder
  <2>3. \A k \in DOMAIN checkpoints' : NoneOlder(checkpoints'[k], began[k[1]])
    <3> TAKE k \in DOMAIN checkpoints'
    <3>1. CASE k \in DOMAIN checkpoints
      BY <3>1, <1>1 DEF InvO, CollectedByItsRun
    <3>2. CASE k = <<root, walk.at>>
      BY <3>2, <1>1, <2>1
    <3> QED BY <3>1, <3>2, <1>1
  <2>4. NoneOlder(walk'.seen, began[root])
    BY <1>2, NothingOfGamma DEF NoneOlder
  <2>5. pc' # "clear" /\ began' = began /\ root' = root
    BY <1>1, <1>2 DEF run
  <2> QED BY <2>2, <2>3, <2>4, <2>5 DEF CollectedByItsRun, NoneOlder
<1> QED BY <1>3, <1>5, <1>6, <1>7, <1>8, <1>9 DEF InvO

LEMMA WalkAgainKeeps == InvO /\ WalkAgain => InvO'
<1> SUFFICES ASSUME InvO, WalkAgain PROVE InvO'
  OBVIOUS
<1>1. /\ UNCHANGED <<gamma, pc, run, payloads, checkpoints, snapshots>>
      /\ pc = "scan" /\ walk.page > Len(Listing)
      /\ walk'.at = walk.at /\ walk'.attempt = walk.attempt + 1 /\ walk'.page = 1 /\ walk'.seen = NoPayload
  BY DEF WalkAgain, Walk
<1>2. /\ walk.at \in 1..NP /\ NP \in Nat /\ root \in 1..roots /\ Len(Listing) \in Nat \ {0}
      /\ walk.page \in Nat \ {0} /\ walk.attempt \in Nat \ {0}
  BY <1>1, ScanIs, ListingAssumption DEF InvO, Tables
<1>3. GammaGoesOn' /\ RunIsOne' /\ NothingMissed' /\ Now' = Now
      /\ \A i \in DOMAIN snapshots : Resolved(snapshots[i])'
  BY <1>1, CollectingKeeps DEF Collecting
<1>4. Tables'
  <2>1. /\ walk.at \in 1..(NP + 1) /\ 1 \in 1..(Len(Listing) + 1) /\ walk.attempt + 1 \in Nat \ {0}
        /\ OfGamma(payloads)
    BY <1>1, <1>2 DEF InvO, Tables
  <2> QED BY <1>1, <1>2, <2>1, NothingOfGamma, TablesKeep DEF run
<1>5. CheckpointsAreWhole'
  BY <1>1 DEF InvO, CheckpointsAreWhole, Saved, SavedIn, Over, Content, run, gamma, Now
<1>6. WalkIsWhole'
  <2>1. \A q \in 1..NP : q < walk'.at => (Saved(root, q) /\ SavedIn(root, q) \subseteq DOMAIN payloads)'
    BY <1>1 DEF InvO, WalkIsWhole, Collecting, Saved, SavedIn, run
  <2>2. ~Saved(root, walk.at)
    <3>1. walk.page > 1
      BY <1>1, <1>2
    <3> QED BY <3>1, <1>1 DEF InvO, WalkIsWhole, Collecting
  <2>3. ~Saved(root, walk.at)'
    BY <2>2, <1>1 DEF Saved, run
  <2>4. walk'.at <= NP /\ pc' = "scan" /\ 1..(walk'.page - 1) = {}
    BY <1>1, <1>2
  <2> QED BY <2>1, <2>3, <2>4, <1>1 DEF WalkIsWhole
<1>7. ReferencesResolve'
  BY <1>1, <1>3 DEF ReferencesResolve
<1>8. CollectedByItsRun'
  BY <1>1, NothingOfGamma DEF InvO, CollectedByItsRun, Collecting, NoneOlder, run
<1> QED BY <1>3, <1>4, <1>5, <1>6, <1>7, <1>8 DEF InvO

(* What a payload refers to are events.                                    *)
LEMMA ListsMarkets ==
  ASSUME GammaGoesOn, NEW obs, OfGamma(obs), NEW e \in DOMAIN obs
  PROVE  e \in Events /\ obs[e] \in 1..Now /\ Content(e, obs[e]) \in Contents
         /\ Content(e, obs[e]).markets \subseteq Markets
<1>1. e \in Events /\ obs[e] \in 1..Now
  BY ObservationIs DEF OfGamma
<1>2. worlds[obs[e]] \in [Events -> Contents]
  BY <1>1, NowIs DEF GammaGoesOn
<1>3. Content(e, obs[e]) \in Contents
  BY <1>1, <1>2 DEF Content
<1> QED BY <1>1, <1>3 DEF Contents

LEMMA ReferencesAreEvents ==
  ASSUME GammaGoesOn, NEW obs, OfGamma(obs)
  PROVE  Referenced(obs) \subseteq Events
<1> SUFFICES ASSUME NEW r \in Referenced(obs) PROVE r \in Events
  OBVIOUS
<1>1. PICK e \in DOMAIN obs : \E m \in Content(e, obs[e]).markets : r \in Related[m]
  BY DEF Referenced
<1>2. PICK m \in Markets : r \in Related[m]
  BY <1>1, ListsMarkets
<1> QED BY <1>2, CatalogAssumption

LEMMA ResolvedIs ==
  ASSUME NEW obs, Referenced(obs) \subseteq DOMAIN obs
  PROVE  Resolved(obs)
BY DEF Referenced, Resolved

LEMMA FetchIs ==
  ASSUME InvO, FetchReferences
  PROVE  /\ UNCHANGED <<gamma, run, walk, checkpoints, snapshots>> /\ pc = "fetch" /\ pc' \in {"fetch", "merge"}
         /\ OfGamma(payloads') /\ DOMAIN payloads \subseteq DOMAIN payloads'
         /\ \A e \in DOMAIN payloads : payloads'[e] = payloads[e]
         /\ \A e \in DOMAIN payloads' : e \notin DOMAIN payloads => payloads'[e] = Now
         /\ pc' = "merge" => Unresolved = {} /\ payloads' = payloads
<1>1. UNCHANGED <<gamma, run, walk, checkpoints, snapshots>> /\ pc = "fetch"
  BY DEF FetchReferences
<1>2. OfGamma(payloads) /\ GammaGoesOn
  BY DEF InvO, Tables
<1>3. CASE Unresolved = {}
  BY <1>1, <1>2, <1>3 DEF FetchReferences
<1>4. CASE Unresolved # {}
  <2> DEFINE new == [e \in Unresolved |-> Now]
  <2>1. payloads' = Merge(payloads, new) /\ pc' = pc
    BY <1>4 DEF FetchReferences, Fetched
  <2>2. Unresolved \in SUBSET Events /\ Unresolved \cap DOMAIN payloads = {}
    BY <1>2, ReferencesAreEvents DEF Unresolved
  <2>3. OfGamma(new)
    BY <2>2, <1>2, NowIs, ReadOfGamma
  <2>4. DOMAIN new = Unresolved /\ \A e \in Unresolved : new[e] = Now
    OBVIOUS
  <2> HIDE DEF new
  <2>5. OfGamma(payloads')
    BY <2>1, <2>3, <1>2, MergeOfGamma
  <2>6. /\ DOMAIN payloads' = DOMAIN payloads \cup Unresolved
        /\ \A e \in Unresolved : payloads'[e] = Now
        /\ \A e \in DOMAIN payloads : payloads'[e] = payloads[e]
    <3>1. /\ DOMAIN Merge(payloads, new) = DOMAIN payloads \cup DOMAIN new
          /\ \A k \in DOMAIN new : Merge(payloads, new)[k] = new[k]
          /\ \A k \in DOMAIN payloads : k \notin DOMAIN new => Merge(payloads, new)[k] = payloads[k]
      BY MergeIs
    <3> QED BY <2>1, <2>2, <2>4, <3>1
  <2> QED BY <1>1, <2>1, <2>5, <2>6
<1> QED BY <1>3, <1>4

LEMMA FetchKeeps == InvO /\ FetchReferences => InvO'
<1> SUFFICES ASSUME InvO, FetchReferences PROVE InvO'
  OBVIOUS
<1>1. /\ UNCHANGED <<gamma, run, walk, checkpoints, snapshots>> /\ pc = "fetch" /\ pc' \in {"fetch", "merge"}
      /\ OfGamma(payloads') /\ DOMAIN payloads \subseteq DOMAIN payloads'
      /\ \A e \in DOMAIN payloads : payloads'[e] = payloads[e]
      /\ \A e \in DOMAIN payloads' : e \notin DOMAIN payloads => payloads'[e] = Now
      /\ pc' = "merge" => Unresolved = {} /\ payloads' = payloads
  BY FetchIs
<1>2. GammaGoesOn' /\ RunIsOne' /\ NothingMissed' /\ Now' = Now
      /\ \A i \in DOMAIN snapshots : Resolved(snapshots[i])'
  BY <1>1, CollectingKeeps DEF Collecting
<1>3. Tables'
  <2>1. NP \in Nat /\ Len(Listing) \in Nat
    BY PartitionsAre, ListingAssumption
  <2>2. /\ walk.at \in 1..(NP + 1) /\ walk.page \in 1..(Len(Listing) + 1) /\ walk.attempt \in Nat \ {0}
        /\ OfGamma(walk.seen)
    BY <2>1 DEF InvO, Tables
  <2> QED BY <1>1, <2>1, <2>2, TablesKeep DEF run
<1>4. CheckpointsAreWhole'
  BY <1>1 DEF InvO, CheckpointsAreWhole, Saved, SavedIn, Over, Content, run, gamma, Now
<1>5. WalkIsWhole'
  <2>1. \A q \in 1..NP : q < walk'.at => (Saved(root, q) /\ SavedIn(root, q) \subseteq DOMAIN payloads)'
    BY <1>1 DEF InvO, WalkIsWhole, Collecting, Saved, SavedIn, run
  <2>2. ~(walk.at <= NP) /\ walk' = walk
    BY <1>1 DEF InvO, WalkIsWhole, Collecting
  <2> QED BY <2>1, <2>2, <1>1 DEF WalkIsWhole
<1>6. ReferencesResolve'
  BY <1>1, <1>2 DEF ReferencesResolve, Unresolved, Referenced, Content, gamma
<1>7. CollectedByItsRun'
  <2>1. NoneOlder(payloads, began[root]) /\ NoneOlder(walk.seen, began[root])
    BY <1>1 DEF InvO, CollectedByItsRun, Collecting
  <2>2. began[root] <= Now
    BY <1>1 DEF InvO, RunIsOne
  <2>3. NoneOlder(payloads', began[root])
    BY <1>1, <2>1, <2>2 DEF NoneOlder
  <2> QED BY <1>1, <2>1, <2>3 DEF InvO, CollectedByItsRun, NoneOlder, run
<1> QED BY <1>2, <1>3, <1>4, <1>5, <1>6, <1>7 DEF InvO

(* The observation that is appended is the last one, the others stay.      *)
LEMMA MergeBatchIs ==
  ASSUME InvO, MergeBatch
  PROVE  /\ UNCHANGED <<gamma, run, checkpoints>> /\ pc = "merge" /\ pc' = "clear"
         /\ walk' = NoWalk /\ payloads' = NoPayload
         /\ Len(snapshots) \in Nat /\ DOMAIN snapshots = 1..Len(snapshots)
         /\ snapshots' \in Seq(Observations) /\ Len(snapshots') = Len(snapshots) + 1
         /\ DOMAIN snapshots' = 1..(Len(snapshots) + 1)
         /\ \A i \in DOMAIN snapshots : snapshots'[i] = snapshots[i]
         /\ snapshots'[Len(snapshots) + 1] = payloads /\ Last(snapshots') = payloads
<1>1. /\ UNCHANGED <<gamma, run, checkpoints>> /\ pc = "merge" /\ pc' = "clear"
      /\ walk' = NoWalk /\ payloads' = NoPayload /\ snapshots' = Append(snapshots, payloads)
  BY DEF MergeBatch, Inserted
<1>2. snapshots \in Seq(Observations) /\ payloads \in Observations
  BY DEF InvO, Tables, OfGamma
<1>3. /\ Len(snapshots) \in Nat /\ DOMAIN snapshots = 1..Len(snapshots)
      /\ snapshots' \in Seq(Observations) /\ Len(snapshots') = Len(snapshots) + 1
      /\ DOMAIN snapshots' = 1..(Len(snapshots) + 1)
      /\ \A i \in DOMAIN snapshots : snapshots'[i] = snapshots[i]
      /\ snapshots'[Len(snapshots) + 1] = payloads
  BY <1>1, <1>2
<1> QED BY <1>1, <1>3 DEF Last

LEMMA MergeBatchKeeps == InvO /\ MergeBatch => InvO'
<1> SUFFICES ASSUME InvO, MergeBatch PROVE InvO'
  OBVIOUS
<1> DEFINE n == Len(snapshots) + 1
<1>1. /\ UNCHANGED <<gamma, run, checkpoints>> /\ pc = "merge" /\ pc' = "clear"
      /\ walk' = NoWalk /\ payloads' = NoPayload
      /\ Len(snapshots) \in Nat /\ DOMAIN snapshots = 1..Len(snapshots)
      /\ snapshots' \in Seq(Observations) /\ Len(snapshots') = n /\ DOMAIN snapshots' = 1..n
      /\ \A i \in DOMAIN snapshots : snapshots'[i] = snapshots[i]
      /\ snapshots'[n] = payloads /\ Last(snapshots') = payloads
  BY MergeBatchIs
<1> HIDE DEF n
<1>2. \A i \in DOMAIN snapshots' : i \in DOMAIN snapshots \/ i = n
  BY <1>1 DEF n
<1>3. OfGamma(payloads) /\ GammaGoesOn
  BY DEF InvO, Tables
<1>4. Now' = Now /\ GammaGoesOn'
  BY <1>1 DEF InvO, gamma, Now, GammaGoesOn, Content
<1>5. RunIsOne'
  BY <1>1, <1>4 DEF InvO, RunIsOne, run
<1>6. Tables'
  <2>1. \A i \in DOMAIN snapshots' : OfGamma(snapshots'[i])
    BY <1>1, <1>2, <1>3 DEF InvO, Tables
  <2>2. \A obs : OfGamma(obs)' <=> obs \in Observations /\ \A e \in DOMAIN obs : obs[e] \in 1..Now
    BY <1>4 DEF OfGamma
  <2>3. /\ walk'.at = 1 /\ walk'.attempt = 1 /\ walk'.page = 1 /\ walk'.seen = NoPayload
        /\ NP \in Nat /\ Len(Listing) \in Nat
    BY <1>1, PartitionsAre, ListingAssumption DEF NoWalk, Walk
  <2>4. OfGamma(walk.seen)' /\ OfGamma(payloads)'
    BY <1>1, <1>4, <2>3, NothingOfGamma DEF OfGamma
  <2> QED BY <1>1, <1>4, <2>1, <2>3, <2>4 DEF InvO, Tables, run, OfGamma
<1>7. CheckpointsAreWhole'
  BY <1>1 DEF InvO, CheckpointsAreWhole, Saved, SavedIn, Over, Content, run, gamma, Now
<1>8. WalkIsWhole'
  BY <1>1 DEF WalkIsWhole, Collecting
<1>9. ReferencesResolve'
  <2>1. Resolved(payloads)
    BY <1>1, ResolvedIs DEF InvO, ReferencesResolve, Unresolved
  <2>2. \A i \in DOMAIN snapshots' : Resolved(snapshots'[i])
    BY <1>1, <1>2, <2>1 DEF InvO, ReferencesResolve
  <2> QED BY <1>1, <2>2 DEF ReferencesResolve, Resolved, Content, gamma
<1>10. CollectedByItsRun'
  <2>1. NoneOlder(payloads, began[root]) /\ snapshots' # <<>>
    BY <1>1 DEF InvO, CollectedByItsRun, Collecting, n
  <2> QED BY <1>1, <2>1 DEF InvO, CollectedByItsRun, Collecting, NoneOlder, run
<1>11. NothingMissed'
  <2> SUFFICES ASSUME NEW i \in DOMAIN snapshots', NEW s \in Range(Sources)
               PROVE  Matches[s] \subseteq DOMAIN snapshots'[i]
    BY DEF NothingMissed
  <2>1. CASE i \in DOMAIN snapshots
    BY <2>1, <1>1 DEF InvO, NothingMissed
  <2>2. CASE i = n
    <3>1. PICK p \in 1..NP : p % 2 = 0 /\ Marked(p) = Matches[s]
      BY EverySourceIsWalked
    <3>2. p - 1 \in 1..NP /\ NP \in Nat
      BY <3>1, PairOfPartitions, PartitionsAre
    <3>3. root \in 1..roots /\ walk.at > NP /\ walk.at \in Nat
      BY <1>1, <3>2 DEF InvO, RunIsOne, Tables, WalkIsWhole, Collecting
    <3>4. \A q \in 1..NP : Saved(root, q) /\ SavedIn(root, q) \subseteq DOMAIN payloads
      BY <1>1, <3>2, <3>3 DEF InvO, WalkIsWhole, Collecting
    <3>5. Marked(p) \subseteq SavedIn(root, p) \cup SavedIn(root, p - 1)
      BY <3>1, <3>3, <3>4 DEF InvO, CheckpointsAreWhole
    <3> QED BY <2>2, <1>1, <3>1, <3>2, <3>4, <3>5
  <2> QED BY <1>2, <2>1, <2>2
<1> QED BY <1>4, <1>5, <1>6, <1>7, <1>8, <1>9, <1>10, <1>11 DEF InvO

LEMMA ClearIs ==
  ASSUME ClearCheckpoints
  PROVE  /\ UNCHANGED <<gamma, root, roots, began, walk, payloads, snapshots>>
         /\ pc = "clear" /\ pc' = "registry" /\ step' = "registry" /\ DOMAIN checkpoints' = {}
BY DEF ClearCheckpoints, Kept

LEMMA ClearKeeps == InvO /\ ClearCheckpoints => InvO'
<1> SUFFICES ASSUME InvO, ClearCheckpoints PROVE InvO'
  OBVIOUS
<1>1. /\ UNCHANGED <<gamma, root, roots, began, walk, payloads, snapshots>>
      /\ pc = "clear" /\ pc' = "registry" /\ step' = "registry" /\ DOMAIN checkpoints' = {}
  BY ClearIs
<1>2. Now' = Now /\ GammaGoesOn'
  BY <1>1 DEF InvO, gamma, Now, GammaGoesOn, Content
<1>3. RunIsOne'
  BY <1>1, <1>2 DEF InvO, RunIsOne, Listening, Assets
<1>4. Tables'
  BY <1>1, <1>2 DEF InvO, Tables, OfGamma
<1>5. CheckpointsAreWhole' /\ WalkIsWhole' /\ CollectedByItsRun'
  BY <1>1 DEF CheckpointsAreWhole, WalkIsWhole, CollectedByItsRun, Saved, Collecting
<1>6. ReferencesResolve' /\ NothingMissed'
  BY <1>1 DEF InvO, ReferencesResolve, Resolved, NothingMissed, Content, gamma
<1> QED BY <1>2, <1>3, <1>4, <1>5, <1>6 DEF InvO

------------------------------------------------------------------------------
(* Gamma *)

LEMMA GammaMovesIs ==
  ASSUME GammaGoesOn, GammaMoves
  PROVE  /\ UNCHANGED <<pc, run, catalog>> /\ pc \notin {"merge", "clear"}
         /\ worlds' \in Seq([Events -> Contents]) /\ Now' = Now + 1
         /\ \A i \in 1..Now : worlds'[i] = worlds[i]
         /\ \A x \in Events :
              /\ worlds[Now][x].markets \subseteq worlds'[Now + 1][x].markets
              /\ worlds[Now][x].closed => worlds'[Now + 1][x].closed
              /\ \A m \in worlds'[Now + 1][x].markets : MayList(x, m)
<1> DEFINE now(e) == worlds[Now][e]
<1>1. /\ Now \in Nat \ {0} /\ worlds \in Seq([Events -> Contents]) /\ Last(worlds) = worlds[Now]
      /\ worlds[Now] \in [Events -> Contents]
  BY NowIs DEF GammaGoesOn, Last, Now
<1>2. \A x \in Events : now(x) \in Contents /\ \A m \in now(x).markets : MayList(x, m)
  BY <1>1, NowIs DEF GammaGoesOn, Content
<1>3. PICK e \in Events, content \in Contents :
        /\ Change(e, content)
        /\ now(e).markets \subseteq content.markets /\ (now(e).closed => content.closed)
        /\ \A m \in content.markets : MayList(e, m)
  <2>1. PICK e \in Events :
          \/ ~now(e).closed /\ Change(e, [now(e) EXCEPT !.closed = TRUE])
          \/ Change(e, [now(e) EXCEPT !.big = ~now(e).big])
          \/ \E m \in Markets : /\ e \in Homes[m] /\ m \notin now(e).markets
                                /\ Change(e, [now(e) EXCEPT !.markets = now(e).markets \cup {m}])
    BY <1>1 DEF GammaMoves
  <2>2. now(e) \in Contents /\ \A m \in now(e).markets : MayList(e, m)
    BY <1>2
  <2> HIDE DEF now
  <2>3. CASE Change(e, [now(e) EXCEPT !.closed = TRUE])
    <3>1. [now(e) EXCEPT !.closed = TRUE] \in Contents
      BY <2>2 DEF Contents
    <3>2. [now(e) EXCEPT !.closed = TRUE].markets = now(e).markets /\ [now(e) EXCEPT !.closed = TRUE].closed
      BY <2>2 DEF Contents
    <3> QED BY <2>2, <2>3, <3>1, <3>2
  <2>4. CASE Change(e, [now(e) EXCEPT !.big = ~now(e).big])
    <3>1. [now(e) EXCEPT !.big = ~now(e).big] \in Contents
      BY <2>2 DEF Contents
    <3>2. /\ [now(e) EXCEPT !.big = ~now(e).big].markets = now(e).markets
          /\ [now(e) EXCEPT !.big = ~now(e).big].closed = now(e).closed
      BY <2>2 DEF Contents
    <3> QED BY <2>2, <2>4, <3>1, <3>2
  <2>5. ASSUME NEW m \in Markets, e \in Homes[m],
               Change(e, [now(e) EXCEPT !.markets = now(e).markets \cup {m}])
        PROVE  \E content \in Contents :
                 /\ Change(e, content)
                 /\ now(e).markets \subseteq content.markets /\ (now(e).closed => content.closed)
                 /\ \A x \in content.markets : MayList(e, x)
    <3> DEFINE content == [now(e) EXCEPT !.markets = now(e).markets \cup {m}]
    <3>1. content \in Contents
      BY <2>2 DEF Contents
    <3>2. content.markets = now(e).markets \cup {m} /\ content.closed = now(e).closed
      BY <2>2 DEF Contents
    <3>3. MayList(e, m)
      BY <2>5 DEF MayList
    <3> HIDE DEF content
    <3>4. Change(e, content)
      BY <2>5 DEF content
    <3> QED BY <2>2, <3>1, <3>2, <3>3, <3>4
  <2> QED BY <2>1, <2>3, <2>4, <2>5
<1>4. /\ worlds' = Append(worlds, [worlds[Now] EXCEPT ![e] = content])
      /\ UNCHANGED <<pc, run, catalog>> /\ pc \notin {"merge", "clear"}
  BY <1>1, <1>3 DEF Change
<1>5. [worlds[Now] EXCEPT ![e] = content] \in [Events -> Contents]
  BY <1>1, <1>3
<1>6. /\ worlds' \in Seq([Events -> Contents]) /\ Now' = Now + 1
      /\ \A i \in 1..Now : worlds'[i] = worlds[i]
      /\ worlds'[Now + 1] = [worlds[Now] EXCEPT ![e] = content]
  BY <1>1, <1>4, <1>5 DEF Now
<1>7. \A x \in Events : worlds'[Now + 1][x] = IF x = e THEN content ELSE worlds[Now][x]
  BY <1>1, <1>3, <1>6
<1> QED BY <1>2, <1>3, <1>4, <1>6, <1>7

LEMMA GammaKeeps == InvO /\ GammaMoves => InvO'
<1> SUFFICES ASSUME InvO, GammaMoves PROVE InvO'
  OBVIOUS
<1>1. /\ UNCHANGED <<pc, run, catalog>> /\ pc \notin {"merge", "clear"}
      /\ worlds' \in Seq([Events -> Contents]) /\ Now' = Now + 1
      /\ \A i \in 1..Now : worlds'[i] = worlds[i]
      /\ \A x \in Events :
           /\ worlds[Now][x].markets \subseteq worlds'[Now + 1][x].markets
           /\ worlds[Now][x].closed => worlds'[Now + 1][x].closed
           /\ \A m \in worlds'[Now + 1][x].markets : MayList(x, m)
  BY GammaMovesIs DEF InvO
<1>2. Now \in Nat \ {0} /\ DOMAIN worlds = 1..Now
  BY NowIs DEF InvO
<1>3. DOMAIN worlds' = 1..(Now + 1) /\ Len(worlds') = Now + 1
  BY <1>1 DEF Now
<1>4. \A x : \A i \in 1..Now : Content(x, i)' = Content(x, i)
  BY <1>1 DEF Content
<1>5. GammaGoesOn'
  <2>1. \A i, j \in DOMAIN worlds : i <= j => \A e \in Events :
          /\ Content(e, i).markets \subseteq Content(e, j).markets
          /\ Content(e, i).closed => Content(e, j).closed
    BY DEF InvO, GammaGoesOn
  <2>2. ASSUME NEW i \in 1..(Now + 1), NEW j \in 1..(Now + 1), i <= j, NEW e \in Events
        PROVE  /\ Content(e, i)'.markets \subseteq Content(e, j)'.markets
               /\ Content(e, i)'.closed => Content(e, j)'.closed
    <3>1. CASE j \in 1..Now
      <4>1. i \in 1..Now
        BY <3>1, <2>2, <1>2
      <4> QED BY <3>1, <4>1, <1>2, <1>4, <2>1, <2>2
    <3>2. CASE j = Now + 1 /\ i \in 1..Now
      <4>1. /\ Content(e, i).markets \subseteq Content(e, Now).markets
            /\ Content(e, i).closed => Content(e, Now).closed
        BY <3>2, <1>2, <2>1
      <4>2. /\ Content(e, Now).markets \subseteq Content(e, j)'.markets
            /\ Content(e, Now).closed => Content(e, j)'.closed
        BY <3>2, <1>1 DEF Content
      <4> QED BY <4>1, <4>2, <3>2, <1>4
    <3>3. CASE j = Now + 1 /\ i = Now + 1
      BY <3>3
    <3> QED BY <3>1, <3>2, <3>3, <2>2, <1>2
  <2>3. \A i \in 1..(Now + 1) : \A e \in Events : \A m \in Content(e, i)'.markets : MayList(e, m)
    <3> TAKE i \in 1..(Now + 1)
    <3> TAKE e \in Events
    <3>1. CASE i \in 1..Now
      BY <3>1, <1>2, <1>4 DEF InvO, GammaGoesOn
    <3>2. CASE i = Now + 1
      BY <3>2, <1>1 DEF Content
    <3> QED BY <3>1, <3>2, <1>2
  <2> QED BY <1>1, <1>2, <1>3, <2>2, <2>3 DEF GammaGoesOn
<1>6. RunIsOne'
  BY <1>1, <1>2 DEF InvO, RunIsOne, run
<1>7. \A obs : OfGamma(obs) => OfGamma(obs)'
  <2> SUFFICES ASSUME NEW obs, OfGamma(obs) PROVE obs \in Observations /\ \A e \in DOMAIN obs : obs[e] \in 1..(Now + 1)
    BY <1>1 DEF OfGamma
  <2> QED BY <1>2 DEF OfGamma
<1>8. Tables'
  <2>1. OfGamma(walk.seen) /\ OfGamma(payloads) /\ (\A k \in DOMAIN checkpoints : OfGamma(checkpoints[k]))
        /\ \A i \in DOMAIN snapshots : OfGamma(snapshots[i])
    BY DEF InvO, Tables
  <2>2. OfGamma(walk.seen)' /\ OfGamma(payloads)' /\ (\A k \in DOMAIN checkpoints' : OfGamma(checkpoints[k])')
        /\ \A i \in DOMAIN snapshots' : OfGamma(snapshots[i])'
    <3>1. walk' = walk /\ payloads' = payloads /\ checkpoints' = checkpoints /\ snapshots' = snapshots
      BY <1>1 DEF catalog
    <3> HIDE DEF OfGamma
    <3> QED BY <2>1, <3>1, <1>1, <1>2 DEF OfGamma
  <2> QED BY <1>1, <2>2 DEF InvO, Tables, catalog, run
<1>9. \A e \in Events : Over(e) => Over(e)'
  BY <1>1 DEF Over, Content
<1>10. CheckpointsAreWhole'
  <2>1. UNCHANGED <<checkpoints, roots>>
    BY <1>1 DEF catalog, run
  <2> SUFFICES ASSUME NEW r \in 1..roots, NEW p \in 1..NP, Saved(r, p)
               PROVE  /\ p % 2 = 1 => \A e \in Marked(p) : e \in SavedIn(r, p) \/ Over(e)'
                      /\ p % 2 = 0 => /\ Saved(r, p - 1)
                                      /\ Marked(p) \subseteq SavedIn(r, p) \cup SavedIn(r, p - 1)
    BY <2>1 DEF CheckpointsAreWhole, Saved, SavedIn
  <2> QED BY <1>9, MarkedIsListed DEF InvO, CheckpointsAreWhole
<1>11. WalkIsWhole'
  <2>1. UNCHANGED <<checkpoints, root, walk, pc, payloads>>
    BY <1>1 DEF catalog, run
  <2>2. ASSUME pc = "scan", NEW i \in 1..(walk.page - 1), Listing[i] \in Marked(walk.at)
        PROVE  \/ Listing[i] \in DOMAIN walk.seen
               \/ IF walk.at % 2 = 1 THEN Over(Listing[i])' ELSE Listing[i] \in SavedIn(root, walk.at - 1)
    <3>1. Listing[i] \in Events
      BY <2>2, ScanIs, MarkedIsListed
    <3> QED BY <2>2, <3>1, <1>9 DEF InvO, WalkIsWhole, Collecting
  <2>3. pc \in Collecting =>
          /\ pc = "scan" <=> walk.at <= NP
          /\ \A q \in 1..NP : q < walk.at => Saved(root, q) /\ SavedIn(root, q) \subseteq DOMAIN payloads
          /\ pc = "scan" => (walk.page > 1 \/ walk.attempt > 1 => ~Saved(root, walk.at))
    BY DEF InvO, WalkIsWhole
  <2>4. \A r, p : Saved(r, p)' = Saved(r, p) /\ SavedIn(r, p)' = SavedIn(r, p)
    BY <2>1 DEF Saved, SavedIn
  <2> QED BY <2>1, <2>2, <2>3, <2>4 DEF WalkIsWhole
<1>12. ReferencesResolve'
  <2>1. snapshots' = snapshots /\ pc' # "merge"
    BY <1>1 DEF catalog
  <2>2. \A i \in DOMAIN snapshots : Resolved(snapshots[i]) /\ OfGamma(snapshots[i])
    BY DEF InvO, ReferencesResolve, Tables
  <2>3. \A i \in DOMAIN snapshots : Resolved(snapshots[i])'
    BY <2>1, <2>2, <1>4 DEF Resolved, OfGamma
  <2> QED BY <2>1, <2>3 DEF ReferencesResolve
<1>13. CollectedByItsRun'
  BY <1>1 DEF InvO, CollectedByItsRun, NoneOlder, catalog, run
<1>14. NothingMissed'
  BY <1>1 DEF InvO, NothingMissed, catalog
<1> QED BY <1>5, <1>6, <1>8, <1>10, <1>11, <1>12, <1>13, <1>14 DEF InvO

------------------------------------------------------------------------------
(* What does not collect: the other assets, and the runs *)

Aside ==
  /\ UNCHANGED <<worlds, checkpoints, snapshots>> /\ pc' \in Listening /\ step' \in Assets
  /\ (pc = "clear" => Foreign = {} \/ Leftovers)
  /\ UNCHANGED <<walk, payloads>> \/ (walk' = NoWalk /\ payloads' = NoPayload)
  /\ roots' \in roots..Roots /\ root' \in 0..roots' /\ (pc' # "idle" => root' # 0)
  /\ began' \in Seq(Nat) /\ Len(began') = roots' /\ \A i \in 1..roots' : began'[i] <= Now
  /\ \A i \in 1..roots : began'[i] = began[i]

LEMMA AsideKeeps == InvO /\ Aside => InvO'
<1> SUFFICES ASSUME InvO, Aside PROVE InvO'
  OBVIOUS
<1>1. UNCHANGED <<worlds, checkpoints, snapshots>> /\ pc' \in Listening /\ Now' = Now
      /\ roots \in Nat /\ roots' \in roots..Roots
  BY DEF Aside, Now, InvO, RunIsOne
<1>2. GammaGoesOn' /\ NothingMissed'
  BY <1>1 DEF InvO, GammaGoesOn, NothingMissed, Content
<1>3. RunIsOne'
  BY <1>1, CatalogAssumption DEF Aside, RunIsOne, InvO
<1>4. Tables'
  <2>1. OfGamma(NoPayload) /\ NP \in Nat /\ Len(Listing) \in Nat
    BY NothingOfGamma, PartitionsAre, ListingAssumption
  <2>2. /\ walk'.at \in Nat \ {0} /\ walk'.attempt \in Nat \ {0} /\ walk'.page \in Nat \ {0}
        /\ walk'.at <= NP + 1 /\ walk'.page <= Len(Listing) + 1
        /\ OfGamma(walk'.seen) /\ OfGamma(payloads')
    <3>1. CASE UNCHANGED <<walk, payloads>>
      BY <3>1 DEF InvO, Tables
    <3>2. CASE walk' = NoWalk /\ payloads' = NoPayload
      BY <3>2, <2>1 DEF NoWalk, Walk
    <3> QED BY <3>1, <3>2 DEF Aside
  <2>3. DOMAIN checkpoints' \subseteq (1..roots') \X (1..NP)
    BY <1>1 DEF InvO, Tables
  <2> QED BY <1>1, <2>2, <2>3 DEF InvO, Tables, OfGamma
<1>5. CheckpointsAreWhole'
  <2>1. \A r \in 1..roots', p \in 1..NP : Saved(r, p) => r \in 1..roots
    BY DEF InvO, Tables, Saved
  <2> QED BY <2>1, <1>1 DEF InvO, CheckpointsAreWhole, Saved, SavedIn, Over, Content, Now
<1>6. WalkIsWhole' /\ ReferencesResolve'
  BY <1>1 DEF InvO, WalkIsWhole, ReferencesResolve, Collecting, Listening, Resolved, Content
<1>7. CollectedByItsRun'
  <2>1. \A k \in DOMAIN checkpoints : k[1] \in 1..roots
    BY DEF InvO, Tables
  <2>2. \A k \in DOMAIN checkpoints : began'[k[1]] = began[k[1]]
    BY <2>1 DEF Aside
  <2> QED BY <1>1, <2>2 DEF InvO, CollectedByItsRun, NoneOlder, Collecting, Listening
<1> QED BY <1>2, <1>3, <1>4, <1>5, <1>6, <1>7 DEF InvO

(* The steps that are such. *)
LEMMA RunsAreAside ==
  ASSUME InvO, StartRun \/ (\E r \in 1..Roots : Reexecute(r)) \/ Fail \/ Retry \/ GiveUp
  PROVE  Aside
<1>1. /\ roots \in 0..Roots /\ root \in 0..roots /\ step \in Assets /\ Roots \in Nat
      /\ (pc # "idle" => root # 0)
      /\ began \in Seq(Nat) /\ Len(began) = roots /\ \A i \in 1..roots : began[i] <= Now
      /\ Now \in Nat
  BY CatalogAssumption, NowIs DEF InvO, RunIsOne
<1>2. CASE StartRun
  <2>1. /\ UNCHANGED <<worlds, checkpoints, snapshots, walk, payloads>> /\ pc' = "raw" /\ step' = "raw"
        /\ pc = "idle" /\ roots < Roots /\ roots' = roots + 1 /\ root' = roots + 1
        /\ began' = Append(began, Now)
    BY <1>2 DEF StartRun, gamma, catalog
  <2>2. began' \in Seq(Nat) /\ Len(began') = roots + 1 /\ began'[roots + 1] = Now
        /\ \A i \in 1..roots : began'[i] = began[i]
    BY <1>1, <2>1
  <2>3. \A i \in 1..(roots + 1) : began'[i] <= Now
    BY <1>1, <2>2
  <2> QED BY <1>1, <2>1, <2>2, <2>3 DEF Aside, Listening, Assets
<1>3. CASE \E r \in 1..Roots : Reexecute(r)
  BY <1>1, <1>3 DEF Reexecute, Aside, Listening, Assets, gamma, catalog
<1>4. CASE Fail
  BY <1>1, <1>4 DEF Fail, Aside, Listening, gamma
<1>5. CASE Retry
  BY <1>1, <1>5 DEF Retry, Aside, Listening, Assets, gamma, catalog
<1>6. CASE GiveUp
  BY <1>1, <1>6 DEF GiveUp, Aside, Listening, gamma, catalog, run
<1> QED BY <1>2, <1>3, <1>4, <1>5, <1>6

Registering ==
  \/ CollectRaw \/ Load("rawLoad", "rawTokens") \/ SaveTokens("rawTokens", "catalog")
  \/ Admit \/ RefreshUngated \/ PruneStale \/ PruneApi \/ Materialize
  \/ Load("registryLoad", "registryTokens") \/ SaveTokens("registryTokens", "enrich")
  \/ Enrich \/ DeleteOrphans

LEMMA RegisteringIsAside ==
  ASSUME InvO, Registering
  PROVE  Aside /\ UNCHANGED <<root, roots, config>>
<1>1. /\ roots \in 0..Roots /\ root \in 0..roots /\ step \in Assets /\ Roots \in Nat
      /\ (pc # "idle" => root # 0)
      /\ began \in Seq(Nat) /\ Len(began) = roots /\ \A i \in 1..roots : began[i] <= Now
  BY CatalogAssumption DEF InvO, RunIsOne
<1>2. /\ UNCHANGED <<worlds, checkpoints, snapshots, walk, payloads, root, roots, began, config>>
      /\ pc \notin {"clear", "idle"} /\ pc' \in Listening /\ step' \in Assets
  BY <1>1 DEF Registering, CollectRaw, Load, SaveTokens, Admit, RefreshUngated, PruneStale, PruneApi,
      Materialize, Enrich, DeleteOrphans, gamma, catalog, run, Listening, Assets
<1> QED BY <1>1, <1>2 DEF Aside

------------------------------------------------------------------------------
(* Freshness *)

LEMMA FreshWhereNothingMoves ==
  ASSUME Fresh, UNCHANGED <<pc, root, roots, catalog>>
  PROVE  Fresh'
<1>1. UNCHANGED <<pc, root, roots, walk, payloads, checkpoints, snapshots>>
  BY DEF catalog
<1>2. CheckpointsAreFresh'
  BY <1>1 DEF Fresh, CheckpointsAreFresh, Saved, SavedIn, UpToDate, Later
<1>3. CollectedIsFresh'
  BY <1>1 DEF Fresh, CollectedIsFresh, Saved, SavedIn, UpToDate, Later
<1> QED BY <1>1, <1>2, <1>3 DEF Fresh, LatestIsFreshest

LEMMA CheckpointsStayFresh ==
  ASSUME Fresh, UNCHANGED <<run, checkpoints, snapshots>>, pc # "clear", pc' # "clear"
  PROVE  CheckpointsAreFresh' /\ LatestIsFreshest'
<1>1. UNCHANGED <<root, roots, checkpoints, snapshots>>
  BY DEF run
<1>2. \A obs, e : UpToDate(obs, e)' = UpToDate(obs, e)
  BY <1>1 DEF UpToDate
<1> QED BY <1>1 DEF Fresh, CheckpointsAreFresh, LatestIsFreshest, Saved, SavedIn, UpToDate, Later

LEMMA StartCatalogFresh == Fresh /\ StartCatalog => Fresh'
<1> SUFFICES ASSUME Fresh, StartCatalog PROVE Fresh'
  OBVIOUS
<1>1. UNCHANGED <<run, checkpoints, snapshots>> /\ payloads' = NoPayload /\ pc = "catalog"
  BY DEF StartCatalog
<1>2. walk'.at = 1 /\ walk'.seen = NoPayload /\ pc' \in {"scan", "fetch"}
  BY EnterIs, PartitionsAre DEF StartCatalog
<1>3. DOMAIN NoPayload = {}
  BY NothingOfGamma
<1>4. CollectedIsFresh'
  BY <1>1, <1>2, <1>3 DEF CollectedIsFresh
<1> QED BY <1>1, <1>2, <1>4, CheckpointsStayFresh DEF Fresh

LEMMA UseCheckpointFresh == InvO /\ Fresh /\ UseCheckpoint => Fresh'
<1> SUFFICES ASSUME InvO, Fresh, UseCheckpoint PROVE Fresh'
  OBVIOUS
<1> DEFINE saved == checkpoints[<<root, walk.at>>]
<1>1. /\ UNCHANGED <<run, checkpoints, snapshots>> /\ pc = "scan"
      /\ Saved(root, walk.at) /\ payloads' = Merge(payloads, saved)
  BY DEF UseCheckpoint, Cached, Key, Saved
<1>2. walk.at \in 1..NP /\ NP \in Nat /\ root \in 1..roots
  BY <1>1, ScanIs
<1>3. walk'.at = walk.at + 1 /\ walk'.seen = NoPayload /\ pc' \in {"scan", "fetch"}
  BY <1>2, EnterIs DEF UseCheckpoint
<1>4. /\ DOMAIN payloads' = DOMAIN payloads \cup DOMAIN saved
      /\ \A e \in DOMAIN saved : payloads'[e] = saved[e]
      /\ \A e \in DOMAIN payloads : e \notin DOMAIN saved => payloads'[e] = payloads[e]
  <2>1. /\ DOMAIN Merge(payloads, saved) = DOMAIN payloads \cup DOMAIN saved
        /\ \A e \in DOMAIN saved : Merge(payloads, saved)[e] = saved[e]
        /\ \A e \in DOMAIN payloads : e \notin DOMAIN saved => Merge(payloads, saved)[e] = payloads[e]
    BY MergeIs
  <2> HIDE DEF saved
  <2> QED BY <1>1, <2>1
<1>5. UNCHANGED <<root, roots, checkpoints, snapshots>>
  BY <1>1 DEF run
<1> HIDE DEF saved
<1>6. DOMAIN saved = SavedIn(root, walk.at)
  BY DEF saved, SavedIn
<1>7. \A e \in DOMAIN payloads' : UpToDate(payloads', e) \/ Later(root, e, walk.at)
  <2> TAKE e \in DOMAIN payloads'
  <2>1. CASE e \in DOMAIN saved
    <3>1. UpToDate(saved, e) \/ Later(root, e, walk.at)
      BY <2>1, <1>1, <1>2, <1>6 DEF Fresh, CheckpointsAreFresh, saved
    <3> QED BY <3>1, <2>1, <1>4 DEF UpToDate
  <2>2. CASE e \notin DOMAIN saved
    <3>1. e \in DOMAIN payloads /\ payloads'[e] = payloads[e]
      BY <2>2, <1>4
    <3>2. UpToDate(payloads, e) \/ Later(root, e, walk.at - 1)
      BY <3>1, <1>1 DEF Fresh, CollectedIsFresh, Collecting
    <3>3. Later(root, e, walk.at - 1) => Later(root, e, walk.at)
      BY <2>2, <1>2, <1>6 DEF Later
    <3> QED BY <3>1, <3>2, <3>3 DEF UpToDate
  <2> QED BY <2>1, <2>2
<1>8. ASSUME NEW q \in 1..NP, q < walk.at + 1, NEW e \in SavedIn(root, q)
      PROVE  \/ payloads'[e] = checkpoints[<<root, q>>][e]
             \/ \E p \in 1..NP : q < p /\ p < walk.at + 1 /\ e \in SavedIn(root, p)
  <2>1. CASE q = walk.at
    BY <2>1, <1>4, <1>6, <1>8 DEF saved
  <2>2. CASE q # walk.at /\ e \in DOMAIN saved
    <3>1. q < walk.at /\ walk.at < walk.at + 1 /\ e \in SavedIn(root, walk.at)
      BY <2>2, <1>2, <1>6, <1>8
    <3> QED BY <3>1, <1>2
  <2>3. CASE q # walk.at /\ e \notin DOMAIN saved
    <3>1. q < walk.at
      BY <2>3, <1>2, <1>8
    <3>2. \/ payloads[e] = checkpoints[<<root, q>>][e]
          \/ \E p \in 1..NP : q < p /\ p < walk.at /\ e \in SavedIn(root, p)
      BY <3>1, <1>1, <1>8 DEF Fresh, CollectedIsFresh, Collecting
    <3>3. e \in DOMAIN payloads
      BY <3>1, <1>1, <1>8 DEF InvO, WalkIsWhole, Collecting
    <3>4. payloads'[e] = payloads[e]
      BY <3>3, <2>3, <1>4
    <3>5. \A p \in 1..NP : p < walk.at => p < walk.at + 1
      BY <1>2
    <3> QED BY <3>2, <3>4, <3>5
  <2> QED BY <2>1, <2>2, <2>3
<1>9. CollectedIsFresh'
  <2>1. DOMAIN walk'.seen = {}
    BY <1>3, NothingOfGamma
  <2>2. walk'.at - 1 = walk.at
    BY <1>2, <1>3
  <2>3. \A e \in DOMAIN payloads' : (UpToDate(payloads, e) \/ Later(root, e, walk.at - 1))'
    BY <1>7, <1>5, <2>2 DEF UpToDate, Later, Saved, SavedIn
  <2>4. \A q \in 1..NP : q < walk'.at => \A e \in SavedIn(root, q)' :
          \/ payloads'[e] = checkpoints'[<<root', q>>][e]
          \/ \E p \in 1..NP : q < p /\ p < walk'.at /\ e \in SavedIn(root, p)'
    BY <1>8, <1>5, <1>3 DEF SavedIn
  <2> QED BY <2>1, <2>3, <2>4 DEF CollectedIsFresh
<1> QED BY <1>1, <1>3, <1>9, CheckpointsStayFresh DEF Fresh

LEMMA ReadPageFresh == InvO /\ Fresh /\ ReadPage => Fresh'
<1> SUFFICES ASSUME InvO, Fresh, ReadPage PROVE Fresh'
  OBVIOUS
<1> DEFINE e == Listing[walk.page]
           page == [x \in {e} |-> Now]
<1>1. /\ UNCHANGED <<run, payloads, checkpoints, snapshots, pc>> /\ pc = "scan" /\ walk'.at = walk.at
      /\ walk'.seen = walk.seen \/ walk'.seen = Merge(walk.seen, page)
  BY ReadPageIs
<1>2. UNCHANGED <<root, roots>>
  BY <1>1 DEF run
<1>3. /\ DOMAIN Merge(walk.seen, page) = DOMAIN walk.seen \cup DOMAIN page
      /\ \A x \in DOMAIN page : Merge(walk.seen, page)[x] = page[x]
      /\ \A x \in DOMAIN walk.seen : x \notin DOMAIN page => Merge(walk.seen, page)[x] = walk.seen[x]
  BY MergeIs
<1>4. DOMAIN page = {e} /\ page[e] = Now
  OBVIOUS
<1> HIDE DEF e, page
<1>5. \A x \in DOMAIN walk.seen : UpToDate(walk.seen, x)
  BY <1>1 DEF Fresh, CollectedIsFresh, Collecting
<1>6. \A x : \A i \in DOMAIN snapshots : x \in DOMAIN snapshots[i] => snapshots[i][x] <= Now
  BY DEF InvO, Tables, OfGamma
<1>7. \A x \in DOMAIN walk'.seen : UpToDate(walk'.seen, x)
  <2> TAKE x \in DOMAIN walk'.seen
  <2>1. walk'.seen[x] = Now \/ (x \in DOMAIN walk.seen /\ walk'.seen[x] = walk.seen[x])
    BY <1>1, <1>3, <1>4
  <2> QED BY <2>1, <1>5, <1>6 DEF UpToDate
<1>8. CollectedIsFresh'
  <2>1. \A x \in DOMAIN walk'.seen : UpToDate(walk.seen, x)'
    BY <1>7, <1>1 DEF UpToDate
  <2>2. \A x \in DOMAIN payloads' : (UpToDate(payloads, x) \/ Later(root, x, walk.at - 1))'
    BY <1>1, <1>2 DEF Fresh, CollectedIsFresh, Collecting, UpToDate, Later, Saved, SavedIn
  <2>3. \A q \in 1..NP : q < walk'.at => \A x \in SavedIn(root, q)' :
          \/ payloads'[x] = checkpoints'[<<root', q>>][x]
          \/ \E p \in 1..NP : q < p /\ p < walk'.at /\ x \in SavedIn(root, p)'
    BY <1>1, <1>2 DEF Fresh, CollectedIsFresh, Collecting, SavedIn
  <2> QED BY <2>1, <2>2, <2>3 DEF CollectedIsFresh
<1> QED BY <1>1, <1>8, CheckpointsStayFresh DEF Fresh

LEMMA WalkAgainFresh == Fresh /\ WalkAgain => Fresh'
<1> SUFFICES ASSUME Fresh, WalkAgain PROVE Fresh'
  OBVIOUS
<1>1. /\ UNCHANGED <<run, payloads, checkpoints, snapshots, pc>> /\ pc = "scan" /\ walk'.at = walk.at
      /\ walk'.seen = NoPayload
  BY DEF WalkAgain, Walk
<1>2. DOMAIN walk'.seen = {}
  BY <1>1, NothingOfGamma
<1>3. CollectedIsFresh'
  <2>1. \A x \in DOMAIN payloads' : (UpToDate(payloads, x) \/ Later(root, x, walk.at - 1))'
    BY <1>1 DEF Fresh, CollectedIsFresh, Collecting, UpToDate, Later, Saved, SavedIn, run
  <2>2. \A q \in 1..NP : q < walk'.at => \A x \in SavedIn(root, q)' :
          \/ payloads'[x] = checkpoints'[<<root', q>>][x]
          \/ \E p \in 1..NP : q < p /\ p < walk'.at /\ x \in SavedIn(root, p)'
    BY <1>1 DEF Fresh, CollectedIsFresh, Collecting, SavedIn, run
  <2> QED BY <1>2, <2>1, <2>2 DEF CollectedIsFresh
<1> QED BY <1>1, <1>3, CheckpointsStayFresh DEF Fresh

LEMMA FetchFresh == InvO /\ Fresh /\ FetchReferences => Fresh'
<1> SUFFICES ASSUME InvO, Fresh, FetchReferences PROVE Fresh'
  OBVIOUS
<1>1. /\ UNCHANGED <<run, walk, checkpoints, snapshots>> /\ pc = "fetch" /\ pc' \in {"fetch", "merge"}
      /\ \A e \in DOMAIN payloads : payloads'[e] = payloads[e]
      /\ \A e \in DOMAIN payloads' : e \notin DOMAIN payloads => payloads'[e] = Now
  BY FetchIs
<1>2. UNCHANGED <<root, roots>>
  BY <1>1 DEF run
<1>3. \A x : \A i \in DOMAIN snapshots : x \in DOMAIN snapshots[i] => snapshots[i][x] <= Now
  BY DEF InvO, Tables, OfGamma
<1>4. \A x \in DOMAIN payloads' : UpToDate(payloads', x) \/ Later(root, x, walk.at - 1)
  <2> TAKE x \in DOMAIN payloads'
  <2>1. CASE x \in DOMAIN payloads
    <3>1. UpToDate(payloads, x) \/ Later(root, x, walk.at - 1)
      BY <2>1, <1>1 DEF Fresh, CollectedIsFresh, Collecting
    <3> QED BY <3>1, <2>1, <1>1 DEF UpToDate
  <2>2. CASE x \notin DOMAIN payloads
    BY <2>2, <1>1, <1>3 DEF UpToDate
  <2> QED BY <2>1, <2>2
<1>5. ASSUME NEW q \in 1..NP, q < walk.at, NEW x \in SavedIn(root, q)
      PROVE  \/ payloads'[x] = checkpoints[<<root, q>>][x]
             \/ \E p \in 1..NP : q < p /\ p < walk.at /\ x \in SavedIn(root, p)
  <2>1. x \in DOMAIN payloads
    BY <1>1, <1>5 DEF InvO, WalkIsWhole, Collecting
  <2>2. \/ payloads[x] = checkpoints[<<root, q>>][x]
        \/ \E p \in 1..NP : q < p /\ p < walk.at /\ x \in SavedIn(root, p)
    BY <1>1, <1>5 DEF Fresh, CollectedIsFresh, Collecting
  <2> QED BY <2>1, <2>2, <1>1
<1>6. CollectedIsFresh'
  <2>1. \A x \in DOMAIN walk'.seen : UpToDate(walk.seen, x)'
    BY <1>1 DEF Fresh, CollectedIsFresh, Collecting, UpToDate
  <2>2. \A x \in DOMAIN payloads' : (UpToDate(payloads, x) \/ Later(root, x, walk.at - 1))'
    BY <1>1, <1>2, <1>4 DEF UpToDate, Later, Saved, SavedIn
  <2>3. \A q \in 1..NP : q < walk'.at => \A x \in SavedIn(root, q)' :
          \/ payloads'[x] = checkpoints'[<<root', q>>][x]
          \/ \E p \in 1..NP : q < p /\ p < walk'.at /\ x \in SavedIn(root, p)'
    BY <1>1, <1>2, <1>5 DEF SavedIn
  <2> QED BY <2>1, <2>2, <2>3 DEF CollectedIsFresh
<1> QED BY <1>1, <1>6, CheckpointsStayFresh DEF Fresh

LEMMA ConvergeFresh == InvO /\ Fresh /\ Converge => Fresh'
<1> SUFFICES ASSUME InvO, Fresh, Converge PROVE Fresh'
  OBVIOUS
<1>1. /\ UNCHANGED <<run, snapshots>> /\ pc = "scan" /\ payloads' = Merge(payloads, walk.seen)
      /\ ~Saved(root, walk.at)
      /\ DOMAIN checkpoints' = DOMAIN checkpoints \cup {<<root, walk.at>>}
      /\ checkpoints'[<<root, walk.at>>] = walk.seen
      /\ \A k \in DOMAIN checkpoints : checkpoints'[k] = checkpoints[k]
      /\ walk'.at = walk.at + 1 /\ walk'.seen = NoPayload /\ pc' \in {"scan", "fetch"}
  BY ConvergeIs
<1>2. walk.at \in 1..NP /\ NP \in Nat /\ root \in 1..roots
  BY <1>1, ScanIs
<1>3. /\ DOMAIN payloads' = DOMAIN payloads \cup DOMAIN walk.seen
      /\ \A e \in DOMAIN walk.seen : payloads'[e] = walk.seen[e]
      /\ \A e \in DOMAIN payloads : e \notin DOMAIN walk.seen => payloads'[e] = payloads[e]
  <2>1. /\ DOMAIN Merge(payloads, walk.seen) = DOMAIN payloads \cup DOMAIN walk.seen
        /\ \A e \in DOMAIN walk.seen : Merge(payloads, walk.seen)[e] = walk.seen[e]
        /\ \A e \in DOMAIN payloads : e \notin DOMAIN walk.seen => Merge(payloads, walk.seen)[e] = payloads[e]
    BY MergeIs
  <2> QED BY <1>1, <2>1
<1>4. UNCHANGED <<root, roots, snapshots>>
  BY <1>1 DEF run
<1> PICK at \in 1..NP : at = walk.at
  BY <1>2
<1>5. \A e \in DOMAIN walk.seen : UpToDate(walk.seen, e)
  BY <1>1 DEF Fresh, CollectedIsFresh, Collecting
<1>6. \A r, p : /\ Saved(r, p) => Saved(r, p)' /\ SavedIn(r, p)' = SavedIn(r, p)
                                  /\ checkpoints'[<<r, p>>] = checkpoints[<<r, p>>]
                /\ Saved(r, p)' => Saved(r, p) \/ (r = root /\ p = at)
  BY <1>1 DEF Saved, SavedIn
<1>7. SavedIn(root, at)' = DOMAIN walk.seen
  BY <1>1, <1>4 DEF SavedIn
<1>8. \A r, e, p : Later(r, e, p) => Later(r, e, p)'
  BY <1>6 DEF Later
<1>9. \A obs, e : UpToDate(obs, e)' = UpToDate(obs', e)
  BY <1>4 DEF UpToDate
<1>10. CheckpointsAreFresh'
  <2> SUFFICES ASSUME NEW r \in 1..roots, NEW p \in 1..NP, Saved(r, p)', NEW e \in SavedIn(r, p)'
               PROVE  UpToDate(checkpoints'[<<r, p>>], e) \/ Later(r, e, p)'
    BY <1>4 DEF CheckpointsAreFresh, UpToDate
  <2>1. CASE Saved(r, p)
    <3>1. e \in SavedIn(r, p) /\ checkpoints'[<<r, p>>] = checkpoints[<<r, p>>]
      BY <2>1, <1>6
    <3>2. UpToDate(checkpoints[<<r, p>>], e) \/ Later(r, e, p)
      BY <2>1, <3>1, <1>1 DEF Fresh, CheckpointsAreFresh
    <3> QED BY <3>1, <3>2, <1>8
  <2>2. CASE r = root /\ p = at
    BY <2>2, <1>1, <1>4, <1>5, <1>7 DEF SavedIn
  <2> QED BY <2>1, <2>2, <1>6
<1>11. \A e \in DOMAIN payloads' : UpToDate(payloads', e) \/ Later(root, e, at)'
  <2> TAKE e \in DOMAIN payloads'
  <2>1. CASE e \in DOMAIN walk.seen
    BY <2>1, <1>3, <1>5 DEF UpToDate
  <2>2. CASE e \notin DOMAIN walk.seen
    <3>1. e \in DOMAIN payloads /\ payloads'[e] = payloads[e]
      BY <2>2, <1>3
    <3>2. UpToDate(payloads, e) \/ Later(root, e, walk.at - 1)
      BY <3>1, <1>1 DEF Fresh, CollectedIsFresh, Collecting
    <3>3. Later(root, e, walk.at - 1) => Later(root, e, walk.at)
      BY <1>1, <1>2 DEF Later
    <3>4. Later(root, e, at) => Later(root, e, at)'
      BY <1>6, <1>4, <1>1 DEF Later
    <3> QED BY <3>1, <3>2, <3>3, <3>4 DEF UpToDate
  <2> QED BY <2>1, <2>2
<1>12. ASSUME NEW q \in 1..NP, q < walk.at + 1, NEW e \in SavedIn(root, q)'
       PROVE  \/ payloads'[e] = checkpoints'[<<root, q>>][e]
              \/ \E p \in 1..NP : q < p /\ p < walk.at + 1 /\ e \in SavedIn(root, p)'
  <2>1. CASE q = walk.at
    BY <2>1, <1>1, <1>3, <1>7, <1>12
  <2>2. CASE q # walk.at /\ e \in DOMAIN walk.seen
    <3>1. q < at /\ at < walk.at + 1 /\ e \in SavedIn(root, at)'
      BY <2>2, <1>2, <1>7, <1>12
    <3> QED BY <3>1, <1>2
  <2>3. CASE q # walk.at /\ e \notin DOMAIN walk.seen
    <3>1. q < walk.at
      BY <2>3, <1>2, <1>12
    <3>2. \A p \in 1..NP : p < walk.at =>
            /\ Saved(root, p) /\ SavedIn(root, p) \subseteq DOMAIN payloads /\ SavedIn(root, p)' = SavedIn(root, p)
            /\ checkpoints'[<<root, p>>] = checkpoints[<<root, p>>]
      BY <1>1, <1>2, <1>4, <1>6 DEF InvO, WalkIsWhole, Collecting
    <3>3. e \in SavedIn(root, q) /\ e \in DOMAIN payloads
      BY <3>1, <3>2, <1>4, <1>12
    <3>4. \/ payloads[e] = checkpoints[<<root, q>>][e]
          \/ \E p \in 1..NP : q < p /\ p < walk.at /\ e \in SavedIn(root, p)
      BY <3>1, <3>3, <1>1 DEF Fresh, CollectedIsFresh, Collecting
    <3>5. payloads'[e] = payloads[e]
      BY <3>3, <2>3, <1>3
    <3>6. \A p \in 1..NP : p < walk.at => p < walk.at + 1
      BY <1>2
    <3> QED BY <3>1, <3>2, <3>4, <3>5, <3>6, <1>4
  <2> QED BY <2>1, <2>2, <2>3
<1>13. CollectedIsFresh'
  <2>1. DOMAIN walk'.seen = {}
    BY <1>1, NothingOfGamma
  <2>2. walk'.at - 1 = walk.at
    BY <1>1, <1>2
  <2>3. \A e \in DOMAIN payloads' : UpToDate(payloads, e)' \/ Later(root, e, walk.at - 1)'
    BY <1>11, <1>4, <2>2 DEF UpToDate, Later
  <2>4. \A q \in 1..NP : q < walk'.at => \A e \in SavedIn(root, q)' :
          \/ payloads'[e] = checkpoints'[<<root', q>>][e]
          \/ \E p \in 1..NP : q < p /\ p < walk'.at /\ e \in SavedIn(root, p)'
    BY <1>12, <1>4, <1>1
  <2> QED BY <2>1, <2>3, <2>4 DEF CollectedIsFresh
<1>14. LatestIsFreshest'
  BY <1>4 DEF Fresh, LatestIsFreshest
<1> QED BY <1>10, <1>13, <1>14 DEF Fresh

LEMMA MergeBatchFresh == InvO /\ Fresh /\ MergeBatch => Fresh'
<1> SUFFICES ASSUME InvO, Fresh, MergeBatch PROVE Fresh'
  OBVIOUS
<1> DEFINE n == Len(snapshots) + 1
<1>1. /\ UNCHANGED <<run, checkpoints>> /\ pc = "merge" /\ pc' = "clear"
      /\ Len(snapshots) \in Nat /\ DOMAIN snapshots = 1..Len(snapshots) /\ DOMAIN snapshots' = 1..n
      /\ \A i \in DOMAIN snapshots : snapshots'[i] = snapshots[i]
      /\ snapshots'[n] = payloads
  BY MergeBatchIs
<1>2. \A i \in DOMAIN snapshots' : i \in DOMAIN snapshots \/ i = n
  BY <1>1
<1>3. /\ root \in 1..roots /\ walk.at > NP /\ walk.at \in Nat /\ NP \in Nat
      /\ UNCHANGED <<root, roots>>
  BY <1>1, PartitionsAre DEF InvO, RunIsOne, Tables, WalkIsWhole, Collecting, run
<1>4. \A e \in DOMAIN payloads : UpToDate(payloads, e)
  <2> TAKE e \in DOMAIN payloads
  <2>1. UpToDate(payloads, e) \/ Later(root, e, walk.at - 1)
    BY <1>1 DEF Fresh, CollectedIsFresh, Collecting
  <2>2. ~Later(root, e, walk.at - 1)
    BY <1>3 DEF Later
  <2> QED BY <2>1, <2>2
<1>5. LatestIsFreshest'
  <2> SUFFICES ASSUME NEW i \in DOMAIN snapshots', NEW j \in DOMAIN snapshots', i < j,
                      NEW e \in DOMAIN snapshots'[i] \cap DOMAIN snapshots'[j]
               PROVE  snapshots'[i][e] <= snapshots'[j][e]
    BY DEF LatestIsFreshest
  <2>1. CASE j \in DOMAIN snapshots
    <3>1. i \in DOMAIN snapshots
      BY <2>1, <1>1
    <3> QED BY <2>1, <3>1, <1>1 DEF Fresh, LatestIsFreshest
  <2>2. CASE j = n
    <3>1. i \in DOMAIN snapshots
      BY <2>2, <1>1
    <3> QED BY <2>2, <3>1, <1>1, <1>4 DEF UpToDate
  <2> QED BY <2>1, <2>2, <1>2
<1>6. CheckpointsAreFresh'
  <2> SUFFICES ASSUME NEW p \in 1..NP, Saved(root, p), NEW e \in SavedIn(root, p)
               PROVE  UpToDate(checkpoints[<<root, p>>], e)' \/ Later(root, e, p)
    BY <1>1, <1>3 DEF CheckpointsAreFresh, Saved, SavedIn, Later, UpToDate
  <2>1. UpToDate(checkpoints[<<root, p>>], e) \/ Later(root, e, p)
    BY <1>1, <1>3 DEF Fresh, CheckpointsAreFresh
  <2>2. payloads[e] = checkpoints[<<root, p>>][e] \/ Later(root, e, p)
    <3>1. \/ payloads[e] = checkpoints[<<root, p>>][e]
          \/ \E q \in 1..NP : p < q /\ q < walk.at /\ e \in SavedIn(root, q)
      BY <1>1, <1>3 DEF Fresh, CollectedIsFresh, Collecting
    <3>2. \A q \in 1..NP : Saved(root, q)
      BY <1>1, <1>3 DEF InvO, WalkIsWhole, Collecting
    <3> QED BY <3>1, <3>2 DEF Later
  <2>3. ASSUME UpToDate(checkpoints[<<root, p>>], e), payloads[e] = checkpoints[<<root, p>>][e]
        PROVE  UpToDate(checkpoints[<<root, p>>], e)'
    <3> DEFINE cp == checkpoints[<<root, p>>]
    <3>1. cp[e] \in Nat /\ cp' = cp
      BY <1>1, <1>3 DEF InvO, Tables, Saved, SavedIn, OfGamma
    <3>2. \A i \in DOMAIN snapshots' : e \in DOMAIN snapshots'[i] => snapshots'[i][e] <= cp[e]
      <4> TAKE i \in DOMAIN snapshots'
      <4> HAVE e \in DOMAIN snapshots'[i]
      <4>1. CASE i \in DOMAIN snapshots
        BY <4>1, <2>3, <1>1 DEF UpToDate
      <4>2. CASE i = n
        BY <4>2, <2>3, <3>1, <1>1
      <4> QED BY <4>1, <4>2, <1>2
    <3> QED BY <3>1, <3>2 DEF UpToDate
  <2> QED BY <2>1, <2>2, <2>3
<1>7. CollectedIsFresh'
  BY <1>1 DEF CollectedIsFresh, Collecting
<1> QED BY <1>5, <1>6, <1>7 DEF Fresh

LEMMA ClearFresh == Fresh /\ ClearCheckpoints => Fresh'
<1> SUFFICES ASSUME Fresh, ClearCheckpoints PROVE Fresh'
  OBVIOUS
<1>1. snapshots' = snapshots /\ pc' = "registry" /\ DOMAIN checkpoints' = {}
  BY ClearIs
<1> QED BY <1>1 DEF Fresh, CheckpointsAreFresh, CollectedIsFresh, LatestIsFreshest, Saved, Collecting

LEMMA AsideFresh == ~Leftovers /\ InvO /\ Fresh /\ Aside => Fresh'
<1> SUFFICES ASSUME ~Leftovers, InvO, Fresh, Aside PROVE Fresh'
  OBVIOUS
<1>1. UNCHANGED <<checkpoints, snapshots>> /\ pc' \in Listening /\ (pc = "clear" => Foreign = {})
  BY DEF Aside
<1>2. \A r \in 1..roots', p \in 1..NP : Saved(r, p) => r \in 1..roots /\ (pc = "clear" => r = root)
  BY <1>1 DEF InvO, Tables, Saved, Foreign
<1>3. \A r \in 1..roots', p \in 1..NP : Saved(r, p) =>
        \A e \in SavedIn(r, p) : UpToDate(checkpoints[<<r, p>>], e) \/ Later(r, e, p)
  BY <1>2 DEF Fresh, CheckpointsAreFresh
<1>4. CheckpointsAreFresh'
  BY <1>1, <1>3 DEF CheckpointsAreFresh, Saved, SavedIn, UpToDate, Later
<1>5. CollectedIsFresh'
  BY <1>1 DEF CollectedIsFresh, Collecting, Listening
<1> QED BY <1>1, <1>4, <1>5 DEF Fresh, LatestIsFreshest

------------------------------------------------------------------------------
(* Observations *)

LEMMA InitObserves == Init => InvO /\ Fresh
<1> SUFFICES ASSUME Init PROVE InvO /\ Fresh
  OBVIOUS
<1>1. /\ worlds = <<First>> /\ pc = "idle" /\ step = "raw" /\ root = 0 /\ roots = 0
      /\ walk = NoWalk /\ payloads = NoPayload /\ checkpoints = NoPayload
      /\ snapshots = <<>> /\ began = <<>>
  BY DEF Init, CatalogInit
<1>2. First \in [Events -> Contents]
  BY ListingAssumption DEF Contents
<1>3. Now = 1 /\ worlds \in Seq([Events -> Contents]) /\ DOMAIN worlds = {1} /\ worlds[1] = First
  BY <1>1, <1>2 DEF Now
<1>4. GammaGoesOn
  BY <1>3 DEF GammaGoesOn, Now, Content, MayList
<1>5. RunIsOne
  BY <1>1, CatalogAssumption DEF RunIsOne, Listening, Assets
<1>6. Tables
  <2>1. NP \in Nat /\ Len(Listing) \in Nat /\ OfGamma(NoPayload) /\ DOMAIN NoPayload = {}
    BY PartitionsAre, ListingAssumption, NothingOfGamma
  <2>2. walk.at = 1 /\ walk.attempt = 1 /\ walk.page = 1 /\ walk.seen = NoPayload
    BY <1>1 DEF NoWalk, Walk
  <2>3. snapshots \in Seq(Observations) /\ DOMAIN snapshots = {}
    BY <1>1
  <2> QED BY <1>1, <2>1, <2>2, <2>3 DEF Tables
<1>7. DOMAIN checkpoints = {} /\ DOMAIN snapshots = {}
  BY <1>1, NothingOfGamma
<1>8. InvO
  BY <1>1, <1>4, <1>5, <1>6, <1>7 DEF InvO, CheckpointsAreWhole, WalkIsWhole, ReferencesResolve, CollectedByItsRun,
     NothingMissed, Collecting, Saved
<1>9. Fresh
  BY <1>1, <1>7 DEF Fresh, CheckpointsAreFresh, CollectedIsFresh, LatestIsFreshest, Collecting, Saved
<1> QED BY <1>8, <1>9

(* Every step is one of the collection, of Gamma, or aside.                *)
LEMMA NextIs ==
  ASSUME InvO, Next
  PROVE  \/ CatalogNext /\ UNCHANGED scope
         \/ GammaMoves /\ UNCHANGED scope
         \/ Aside
<1>1. CASE Begin \/ FailJob \/ ((Retry \/ GiveUp) /\ UNCHANGED scope)
           \/ ((\E r \in 1..Roots : Reexecute(r)) /\ UNCHANGED scope)
  BY <1>1, RunsAreAside DEF Begin, FailJob
<1>2. CASE Registering
  BY <1>2, RegisteringIsAside
<1> QED BY <1>1, <1>2 DEF Next, Job, Registering

LEMMA NextObserves == InvO /\ [Next]_vars => InvO'
<1> SUFFICES ASSUME InvO, [Next]_vars PROVE InvO'
  OBVIOUS
<1>1. CASE CatalogNext
  BY <1>1, StartCatalogKeeps, UseCheckpointKeeps, ReadPageKeeps, ConvergeKeeps, WalkAgainKeeps, FetchKeeps,
     MergeBatchKeeps, ClearKeeps DEF CatalogNext
<1>2. CASE GammaMoves
  BY <1>2, GammaKeeps
<1>3. CASE Aside
  BY <1>3, AsideKeeps
<1>4. CASE UNCHANGED vars
  <2>1. /\ UNCHANGED <<worlds, pc, step, root, roots, began, walk, payloads, checkpoints, snapshots>>
        /\ UNCHANGED Now
    BY <1>4 DEF vars, gamma, run, catalog, Now
  <2>2. GammaGoesOn' /\ RunIsOne' /\ NothingMissed' /\ ReferencesResolve' /\ CollectedByItsRun'
    BY <2>1 DEF InvO, GammaGoesOn, RunIsOne, NothingMissed, ReferencesResolve, CollectedByItsRun, Content,
       Resolved, NoneOlder, Unresolved, Referenced
  <2>3. Tables'
    BY <2>1 DEF InvO, Tables, OfGamma
  <2>4. CheckpointsAreWhole' /\ WalkIsWhole'
    BY <2>1 DEF InvO, CheckpointsAreWhole, WalkIsWhole, Saved, SavedIn, Over, Content
  <2> QED BY <2>2, <2>3, <2>4 DEF InvO
<1> QED BY <1>1, <1>2, <1>3, <1>4, NextIs

LEMMA NextIsFresh == ~Leftovers /\ InvO /\ Fresh /\ [Next]_vars => Fresh'
<1> SUFFICES ASSUME ~Leftovers, InvO, Fresh, [Next]_vars PROVE Fresh'
  OBVIOUS
<1>1. CASE CatalogNext
  BY <1>1, StartCatalogFresh, UseCheckpointFresh, ReadPageFresh, ConvergeFresh, WalkAgainFresh, FetchFresh,
     MergeBatchFresh, ClearFresh DEF CatalogNext
<1>2. CASE GammaMoves
  <2>1. UNCHANGED <<pc, root, roots, catalog>>
    BY <1>2, GammaMovesIs DEF InvO, run
  <2> QED BY <2>1, FreshWhereNothingMoves
<1>3. CASE Aside
  BY <1>3, AsideFresh
<1>4. CASE UNCHANGED vars
  BY <1>4, FreshWhereNothingMoves DEF vars, run
<1> QED BY <1>1, <1>2, <1>3, <1>4, NextIs

(* What the last observation of a job refers to is in it, and it is of its *)
(* run.                                                                    *)
LEMMA ObservationIsWhole == InvO => NothingMissed /\ BridgesResolve /\ ObservedByItsRun
<1> SUFFICES ASSUME InvO PROVE NothingMissed /\ BridgesResolve /\ ObservedByItsRun
  OBVIOUS
<1>1. NothingMissed
  BY DEF InvO
<1>2. ObservedByItsRun
  BY DEF InvO, CollectedByItsRun, NoneOlder, ObservedByItsRun
<1>3. BridgesResolve
  <2> SUFFICES ASSUME pc = "clear", NEW r \in Events, NEW m \in Markets, Bridged(Last(snapshots), r, m)
               PROVE  r \in DOMAIN Last(snapshots)
    BY DEF BridgesResolve
  <2>1. snapshots \in Seq(Observations) /\ snapshots # <<>>
    BY DEF InvO, Tables, CollectedByItsRun
  <2>2. Len(snapshots) \in DOMAIN snapshots /\ Last(snapshots) = snapshots[Len(snapshots)]
    BY <2>1 DEF Last
  <2>3. Resolved(Last(snapshots))
    BY <2>2 DEF InvO, ReferencesResolve
  <2> QED BY <2>3 DEF Bridged, Encloses, Resolved
<1> QED BY <1>1, <1>2, <1>3

(* Every observation of every job is whole and of its run, whatever Gamma  *)
(* does while it is read and wherever the jobs fail.                       *)
THEOREM ObservationsAreWhole == Spec => [](NothingMissed /\ BridgesResolve /\ ObservedByItsRun)
<1>1. InvO /\ [Next]_vars => InvO'
  BY NextObserves
<1>2. Init => InvO
  BY InitObserves
<1> QED BY <1>1, <1>2, ObservationIsWhole, PTL DEF Spec

(* And none goes back in time, provided that no attempt ends between its   *)
(* observation and the removal of the checkpoints other runs have left.    *)
THEOREM ObservationsNeverGoBack == ~Leftovers => (Spec => []ObservationsAreSound)
<1> SUFFICES ASSUME ~Leftovers PROVE Spec => []ObservationsAreSound
  OBVIOUS
<1>1. InvO /\ Fresh /\ [Next]_vars => (InvO /\ Fresh)'
  BY NextObserves, NextIsFresh
<1>2. Init => InvO /\ Fresh
  BY InitObserves
<1>3. InvO /\ Fresh => ObservationsAreSound
  BY ObservationIsWhole DEF Fresh, ObservationsAreSound
<1> QED BY <1>1, <1>2, <1>3, PTL DEF Spec

------------------------------------------------------------------------------
(* The registry: latest observations *)

(* A set of numbers has a smallest one.                                    *)
LEMMA Smallest ==
  ASSUME NEW S \in SUBSET Nat, S # {}
  PROVE  \E x \in S : \A y \in S : x <= y
<1> DEFINE R == StrictSubsetOrdering(Nat)
           T == {0..x : x \in S}
<1>1. \A x, y \in Nat : y < x => <<0..y, 0..x>> \in R
  <2> TAKE x, y \in Nat
  <2> HAVE y < x
  <2>1. 0..y \in SUBSET Nat /\ 0..x \in SUBSET Nat /\ 0..y \subseteq 0..x
    OBVIOUS
  <2>2. x \in 0..x /\ x \notin 0..y
    OBVIOUS
  <2>3. 0..y # 0..x
    BY <2>2
  <2> QED BY <2>1, <2>3 DEF StrictSubsetOrdering
<1>2. T \subseteq FiniteSubsetsOf(Nat) /\ T # {}
  <2>1. \A x \in S : 0..x \in FiniteSubsetsOf(Nat)
    <3> TAKE x \in S
    <3>1. IsFiniteSet(0..x)
      BY FS_Interval
    <3>2. 0..x \in SUBSET Nat
      OBVIOUS
    <3> QED BY <3>1, <3>2 DEF FiniteSubsetsOf
  <2> QED BY <2>1
<1>3. \E t \in T : \A u \in T : ~(<<u, t>> \in R)
  <2> HIDE DEF R, T
  <2>1. IsWellFoundedOn(R, FiniteSubsetsOf(Nat))
    BY FS_StrictSubsetOrderingWellFounded DEF R
  <2> QED BY <1>2, <2>1, WFMin
<1> HIDE DEF R
<1>4. PICK x \in S : \A y \in S : ~(<<0..y, 0..x>> \in R)
  <2>1. \A x \in S : 0..x \in T
    OBVIOUS
  <2>2. PICK t \in T : \A u \in T : ~(<<u, t>> \in R)
    BY <1>3
  <2>3. PICK x \in S : t = 0..x
    BY <2>2
  <2> QED BY <2>1, <2>2, <2>3
<1>5. \A y \in S : x <= y
  <2> TAKE y \in S
  <2>1. x \in Nat /\ y \in Nat /\ ~(y < x)
    BY <1>1, <1>4
  <2> QED BY <2>1
<1> QED BY <1>5

LEMMA Largest ==
  ASSUME NEW n \in Nat, NEW S \in SUBSET (1..n), S # {}
  PROVE  \E x \in S : \A y \in S : x >= y
<1> DEFINE T == {n - x : x \in S}
<1>1. T \subseteq Nat /\ T # {}
  <2>1. \A x \in S : n - x \in Nat
    OBVIOUS
  <2>2. PICK x \in S : TRUE
    OBVIOUS
  <2>3. n - x \in T
    BY <2>2
  <2> QED BY <2>1, <2>3
<1>2. PICK t \in T : \A u \in T : t <= u
  <2> HIDE DEF T
  <2> QED BY <1>1, Smallest
<1>3. PICK x \in S : t = n - x
  BY <1>2
<1>4. \A y \in S : x >= y
  <2> TAKE y \in S
  <2>1. n - x <= n - y
    BY <1>2, <1>3
  <2> QED BY <2>1
<1> QED BY <1>4

LEMMA LastOfIs ==
  ASSUME NEW n \in Nat, NEW S \in SUBSET (1..n)
  PROVE  /\ LastOf(S) \in 0..n
         /\ S = {} => LastOf(S) = 0
         /\ S # {} => LastOf(S) \in S /\ \A x \in S : x <= LastOf(S)
<1>1. CASE S = {}
  BY <1>1 DEF LastOf
<1>2. CASE S # {}
  <2>1. \E x \in S : \A y \in S : x >= y
    BY <1>2, Largest
  <2>2. LastOf(S) = CHOOSE x \in S : \A y \in S : x >= y
    BY <1>2 DEF LastOf, Max
  <2>3. LastOf(S) \in S /\ \A y \in S : LastOf(S) >= y
    BY <2>1, <2>2
  <2>4. LastOf(S) \in 1..n /\ \A x \in S : x \in 1..n
    BY <2>3
  <2>5. LastOf(S) \in 0..n
    BY <2>4
  <2>6. \A x \in S : x <= LastOf(S)
    BY <2>3, <2>4
  <2> QED BY <1>2, <2>3, <2>5, <2>6
<1> QED BY <1>1, <1>2

LEMMA SnapshotsAre ==
  ASSUME InvO
  PROVE  /\ Len(snapshots) \in Nat /\ DOMAIN snapshots = 1..Len(snapshots)
         /\ \A i \in DOMAIN snapshots : OfGamma(snapshots[i]) /\ Resolved(snapshots[i])
<1>1. snapshots \in Seq(Observations)
  BY DEF InvO, Tables
<1>2. Len(snapshots) \in Nat /\ DOMAIN snapshots = 1..Len(snapshots)
  BY <1>1
<1> QED BY <1>2 DEF InvO, Tables, ReferencesResolve

LEMMA LatestPairIs ==
  ASSUME InvO, NEW r, NEW m
  PROVE  /\ LatestPair(r, m) \in 0..Len(snapshots)
         /\ LatestPair(r, m) # 0 => LatestPair(r, m) \in DOMAIN snapshots /\ Bridged(snapshots[LatestPair(r, m)], r, m)
         /\ \A i \in DOMAIN snapshots : Bridged(snapshots[i], r, m) => i <= LatestPair(r, m) /\ LatestPair(r, m) # 0
<1> DEFINE S == {i \in DOMAIN snapshots : Bridged(snapshots[i], r, m)}
<1>1. Len(snapshots) \in Nat /\ DOMAIN snapshots = 1..Len(snapshots) /\ S \subseteq 1..Len(snapshots)
  BY SnapshotsAre
<1>2. LatestPair(r, m) = LastOf(S)
  BY DEF LatestPair
<1>3. /\ LastOf(S) \in 0..Len(snapshots)
      /\ S = {} => LastOf(S) = 0
      /\ S # {} => LastOf(S) \in S /\ \A x \in S : x <= LastOf(S)
  <2> HIDE DEF S
  <2> QED BY <1>1, LastOfIs
<1>4. LastOf(S) # 0 => LastOf(S) \in S
  BY <1>3
<1>5. \A i \in DOMAIN snapshots : i # 0
  BY <1>1
<1> QED BY <1>1, <1>2, <1>3, <1>4, <1>5

LEMMA LatestEventIs ==
  ASSUME InvO, NEW e
  PROVE  /\ LatestEvent(e) # 0 => LatestEvent(e) \in DOMAIN snapshots /\ e \in DOMAIN snapshots[LatestEvent(e)]
         /\ \A i \in DOMAIN snapshots : e \in DOMAIN snapshots[i] => LatestEvent(e) # 0
<1> DEFINE S == {i \in DOMAIN snapshots : e \in DOMAIN snapshots[i]}
<1>1. Len(snapshots) \in Nat /\ DOMAIN snapshots = 1..Len(snapshots) /\ S \subseteq 1..Len(snapshots)
  BY SnapshotsAre
<1>2. LatestEvent(e) = LastOf(S)
  BY DEF LatestEvent
<1>3. /\ S = {} => LastOf(S) = 0
      /\ S # {} => LastOf(S) \in S
  <2> HIDE DEF S
  <2> QED BY <1>1, LastOfIs
<1>4. LastOf(S) # 0 => LastOf(S) \in S
  BY <1>3
<1>5. \A i \in DOMAIN snapshots : i # 0
  BY <1>1
<1> QED BY <1>1, <1>2, <1>3, <1>4, <1>5

(* An event encloses a market in the latest observation of the pair only if *)
(* one saw it do so, and has a payload of it.                              *)
LEMMA EnclosingIs ==
  ASSUME InvO, NEW e, NEW m, IsEnclosing(e, m)
  PROVE  Ever(e, m) /\ LatestEvent(e) # 0 /\ e \in Events
<1>1. LatestPair(e, m) \in DOMAIN snapshots /\ Encloses(snapshots[LatestPair(e, m)], e, m)
  BY LatestPairIs DEF IsEnclosing
<1>2. e \in DOMAIN snapshots[LatestPair(e, m)]
  BY <1>1 DEF Encloses
<1>3. e \in Events
  BY <1>1, <1>2, SnapshotsAre, ObservationIs DEF OfGamma
<1> QED BY <1>1, <1>2, <1>3, LatestEventIs DEF Ever

LEMMA EverIs ==
  ASSUME InvO, NEW e, NEW m, Ever(e, m)
  PROVE  e \in Events /\ m \in Markets /\ MayList(e, m) /\ m \in Payloads
<1>1. PICK i \in DOMAIN snapshots : Encloses(snapshots[i], e, m)
  BY DEF Ever
<1>2. e \in DOMAIN snapshots[i] /\ m \in Content(e, snapshots[i][e]).markets /\ OfGamma(snapshots[i])
  BY <1>1, SnapshotsAre DEF Encloses
<1>3. GammaGoesOn
  BY DEF InvO
<1>4. e \in Events /\ snapshots[i][e] \in 1..Now /\ m \in Markets
  BY <1>2, <1>3, ListsMarkets
<1>5. snapshots[i][e] \in DOMAIN worlds
  BY <1>3, <1>4, NowIs
<1>6. MayList(e, m)
  BY <1>2, <1>3, <1>4, <1>5 DEF GammaGoesOn
<1>7. m \in PayloadsOf(snapshots[i])
  BY <1>2 DEF PayloadsOf
<1> QED BY <1>4, <1>6, <1>7 DEF Payloads

(* As observations never go back, an event that was seen to enclose a      *)
(* market is taken to enclose it ever after.                               *)
LEMMA EverEncloses ==
  ASSUME InvO, LatestIsFreshest, NEW e, NEW m, Ever(e, m)
  PROVE  IsEnclosing(e, m)
<1>1. PICK i \in DOMAIN snapshots : Encloses(snapshots[i], e, m)
  BY DEF Ever
<1> DEFINE j == LatestPair(e, m)
<1>2. Bridged(snapshots[i], e, m)
  BY <1>1 DEF Bridged, Encloses
<1>3. j \in DOMAIN snapshots /\ j # 0 /\ Bridged(snapshots[j], e, m) /\ i <= j
  BY <1>2, LatestPairIs
<1> HIDE DEF j
<1>4. PICK f \in DOMAIN snapshots[j] : Encloses(snapshots[j], f, m) /\ e \in Related[m] \cup {f}
  BY <1>3 DEF Bridged
<1>5. e \in DOMAIN snapshots[j]
  BY <1>3, <1>4, SnapshotsAre DEF Resolved, Encloses
<1>6. e \in DOMAIN snapshots[i] /\ m \in Content(e, snapshots[i][e]).markets
  BY <1>1 DEF Encloses
<1>7. i \in Nat /\ j \in Nat
  BY <1>3, SnapshotsAre
<1>8. snapshots[i][e] <= snapshots[j][e] /\ snapshots[i][e] \in 1..Now /\ snapshots[j][e] \in 1..Now /\ e \in Events
  <2>1. GammaGoesOn /\ OfGamma(snapshots[i]) /\ OfGamma(snapshots[j])
    BY <1>3, SnapshotsAre DEF InvO
  <2>2. snapshots[i][e] \in 1..Now /\ snapshots[j][e] \in 1..Now /\ e \in Events
    BY <2>1, <1>5, <1>6, ListsMarkets
  <2>3. CASE i = j
    BY <2>2, <2>3, <2>1, NowIs
  <2>4. CASE i < j
    BY <2>2, <2>4, <1>3, <1>5, <1>6 DEF LatestIsFreshest
  <2> QED BY <2>2, <2>3, <2>4, <1>3, <1>7
<1>9. m \in Content(e, snapshots[j][e]).markets
  <2>1. GammaGoesOn /\ snapshots[i][e] \in DOMAIN worlds /\ snapshots[j][e] \in DOMAIN worlds
    BY <1>8, NowIs DEF InvO
  <2> QED BY <2>1, <1>6, <1>8 DEF GammaGoesOn
<1> QED BY <1>3, <1>5, <1>9 DEF IsEnclosing, Encloses, j

------------------------------------------------------------------------------
(* The registry: its rows *)

(* What was observed stays observed, as it was read.                       *)
Extends ==
  /\ DOMAIN snapshots \subseteq DOMAIN snapshots' /\ \A i \in DOMAIN snapshots : snapshots'[i] = snapshots[i]
  /\ \A v \in 1..Now : \A e \in Events : worlds'[v][e] = worlds[v][e]

LEMMA NextExtends == InvO /\ [Next]_vars => Extends
<1> SUFFICES ASSUME InvO, [Next]_vars PROVE Extends
  OBVIOUS
<1>1. CASE UNCHANGED <<worlds, snapshots>>
  BY <1>1 DEF Extends
<1>2. CASE CatalogNext
  <2>1. CASE MergeBatch
    <3>1. UNCHANGED gamma /\ DOMAIN snapshots = 1..Len(snapshots) /\ Len(snapshots) \in Nat
          /\ DOMAIN snapshots' = 1..(Len(snapshots) + 1) /\ \A i \in DOMAIN snapshots : snapshots'[i] = snapshots[i]
      BY <2>1, MergeBatchIs
    <3> QED BY <3>1 DEF Extends, gamma
  <2>2. CASE ~MergeBatch
    <3>1. UNCHANGED <<worlds, snapshots>>
      BY <1>2, <2>2 DEF CatalogNext, StartCatalog, UseCheckpoint, ReadPage, Converge, WalkAgain, FetchReferences,
         ClearCheckpoints, gamma
    <3> QED BY <3>1, <1>1
  <2> QED BY <2>1, <2>2
<1>3. CASE GammaMoves
  <2>1. GammaGoesOn
    BY DEF InvO
  <2>2. UNCHANGED catalog /\ \A i \in 1..Now : worlds'[i] = worlds[i]
    BY <1>3, <2>1, GammaMovesIs
  <2> QED BY <2>2 DEF Extends, catalog
<1>4. CASE Aside
  <2>1. UNCHANGED <<worlds, snapshots>>
    BY <1>4 DEF Aside, gamma
  <2> QED BY <2>1, <1>1
<1>5. CASE UNCHANGED vars
  BY <1>1, <1>5 DEF vars, gamma, catalog
<1> QED BY <1>2, <1>3, <1>4, <1>5, NextIs

LEMMA ObservedIs ==
  ASSUME InvO, NEW i \in DOMAIN snapshots, NEW e \in DOMAIN snapshots[i]
  PROVE  e \in Events /\ snapshots[i][e] \in 1..Now
BY SnapshotsAre, ListsMarkets DEF InvO

LEMMA EnclosesStays ==
  ASSUME InvO, Extends, NEW i \in DOMAIN snapshots, NEW e, NEW m
  PROVE  Encloses(snapshots[i], e, m)' = Encloses(snapshots[i], e, m)
<1>1. snapshots'[i] = snapshots[i]
  BY DEF Extends
<1>2. CASE e \in DOMAIN snapshots[i]
  <2>1. worlds'[snapshots[i][e]][e] = worlds[snapshots[i][e]][e]
    BY <1>2, ObservedIs DEF Extends
  <2> QED BY <1>1, <2>1 DEF Encloses, Content
<1>3. CASE e \notin DOMAIN snapshots[i]
  BY <1>1, <1>3 DEF Encloses
<1> QED BY <1>2, <1>3

LEMMA EverStays == ASSUME InvO, Extends, NEW e, NEW m, Ever(e, m) PROVE Ever(e, m)'
<1>1. PICK i \in DOMAIN snapshots : Encloses(snapshots[i], e, m)
  BY DEF Ever
<1>2. i \in DOMAIN snapshots' /\ Encloses(snapshots[i], e, m)'
  BY <1>1, EnclosesStays DEF Extends
<1> QED BY <1>2 DEF Ever

LEMMA PayloadsAre ==
  ASSUME NEW m
  PROVE  m \in Payloads <=> \E e : Ever(e, m)
BY DEF Payloads, PayloadsOf, Ever, Encloses

LEMMA PayloadsStay == InvO /\ Extends => Payloads \subseteq Payloads'
<1> SUFFICES ASSUME InvO, Extends, NEW m \in Payloads PROVE m \in Payloads'
  OBVIOUS
<1>1. PICK e : Ever(e, m)
  BY PayloadsAre
<1>2. PICK i \in DOMAIN snapshots' : Encloses(snapshots[i], e, m)'
  BY <1>1, EverStays DEF Ever
<1> QED BY <1>2 DEF Payloads, PayloadsOf, Encloses

LEMMA CrossedStays == ASSUME InvO, Extends, NEW e, Crossed(e) PROVE Crossed(e)'
<1>1. PICK i \in DOMAIN snapshots : e \in DOMAIN snapshots[i] /\ Content(e, snapshots[i][e]).big
  BY DEF Crossed
<1>2. snapshots'[i] = snapshots[i] /\ i \in DOMAIN snapshots' /\ worlds'[snapshots[i][e]][e] = worlds[snapshots[i][e]][e]
  BY <1>1, ObservedIs DEF Extends
<1> QED BY <1>1, <1>2 DEF Crossed, Content

(* Without a new observation the registry sees what it saw.                *)
LEMMA NothingNewIsSeen ==
  ASSUME InvO, Extends, UNCHANGED snapshots
  PROVE  /\ Payloads' = Payloads
         /\ \A e, m : IsEnclosing(e, m)' = IsEnclosing(e, m)
<1>1. \A i \in DOMAIN snapshots : \A e, m : Encloses(snapshots[i], e, m)' = Encloses(snapshots[i], e, m)
  BY EnclosesStays
<1>2. \A i \in DOMAIN snapshots : \A r, m : Bridged(snapshots[i], r, m)' = Bridged(snapshots[i], r, m)
  BY <1>1 DEF Bridged
<1>3. \A r, m : LatestPair(r, m)' = LatestPair(r, m)
  <2> TAKE r, m
  <2>1. {i \in DOMAIN snapshots : Bridged(snapshots[i], r, m)}' = {i \in DOMAIN snapshots : Bridged(snapshots[i], r, m)}
    BY <1>2
  <2> QED BY <2>1 DEF LatestPair
<1>4. \A e, m : IsEnclosing(e, m)' = IsEnclosing(e, m)
  <2> TAKE e, m
  <2>1. CASE LatestPair(e, m) # 0
    <3>1. LatestPair(e, m) \in DOMAIN snapshots
      BY <2>1, LatestPairIs
    <3>2. PICK j \in DOMAIN snapshots : j = LatestPair(e, m)
      BY <3>1
    <3>3. Encloses(snapshots[j], e, m)' = Encloses(snapshots[j], e, m)
      BY <1>1
    <3>4. j = LatestPair(e, m)'
      BY <3>2, <1>3
    <3>5. IsEnclosing(e, m) = Encloses(snapshots[j], e, m)
      BY <2>1, <3>2 DEF IsEnclosing, Encloses
    <3>6. IsEnclosing(e, m)' = Encloses(snapshots[j], e, m)'
      BY <2>1, <3>2, <3>4 DEF IsEnclosing, Encloses
    <3> QED BY <3>3, <3>5, <3>6
  <2>2. CASE LatestPair(e, m) = 0
    BY <2>2, <1>3 DEF IsEnclosing
  <2> QED BY <2>1, <2>2
<1>5. Payloads' = Payloads
  <2>1. \A i \in DOMAIN snapshots : PayloadsOf(snapshots[i])' = PayloadsOf(snapshots[i])
    <3> TAKE i \in DOMAIN snapshots
    <3>1. \A e \in DOMAIN snapshots[i] : Content(e, snapshots[i][e])' = Content(e, snapshots[i][e])
      BY ObservedIs DEF Extends, Content
    <3> QED BY <3>1 DEF PayloadsOf
  <2> QED BY <2>1 DEF Payloads
<1> QED BY <1>4, <1>5

(* A step that leaves the table alone leaves its rows right.               *)
LEMMA RowStays ==
  ASSUME InvO, Extends, NEW m, RowIsRight(m), registry'[m] = registry[m]
  PROVE  RowIsRight(m)'
<1>1. m \in Payloads => m \in Payloads'
  BY PayloadsStay
<1>2. Ever(registry[m].event, m) => Ever(registry[m].event, m)'
  <2>1. PICK e : e = registry[m].event
    OBVIOUS
  <2>2. e = registry'[m].event
    BY <2>1
  <2>3. Ever(e, m) => Ever(e, m)'
    BY EverStays
  <2> QED BY <2>1, <2>2, <2>3
<1> QED BY <1>1, <1>2 DEF RowIsRight

LEMMA RowsStay ==
  ASSUME InvO, RowsAreRight, Extends, UNCHANGED registry,
         (active \cup collected \cup rawMarkets \cup tokens \subseteq Markets /\ checked \in BOOLEAN)'
  PROVE  RowsAreRight'
<1>1. \A m \in Markets : (registry[m] = NoRow \/ RowIsRight(m))'
  BY RowStays DEF RowsAreRight
<1> QED BY <1>1 DEF RowsAreRight

LEMMA RowIs ==
  ASSUME RowsAreRight, NEW m \in Markets
  PROVE  /\ registry[m].event \in Events \cup {None} /\ registry[m].eligible \in BOOLEAN
         /\ registry[m].eligible => registry[m] \in Rows /\ RowIsRight(m)
<1>1. registry[m] \in Rows \/ registry[m] = NoRow
  BY DEF RowsAreRight
<1>2. registry[m] = NoRow => registry[m].event = None /\ registry[m].eligible = FALSE
  BY DEF NoRow
<1>3. registry[m] = NoRow \/ RowIsRight(m)
  BY DEF RowsAreRight
<1>4. registry[m] \in Rows => registry[m].event \in Events \cup {None} /\ registry[m].eligible \in BOOLEAN
  BY DEF Rows
<1>5. CASE registry[m] = NoRow
  BY <1>2, <1>5
<1>6. CASE registry[m] # NoRow
  BY <1>1, <1>3, <1>4, <1>6
<1> QED BY <1>5, <1>6

(* What an upsert does to a row that it has, and to one that it has not.   *)
LEMMA UpsertIs ==
  ASSUME NEW table, NEW rows, NEW m \in Markets, NEW result, result = Upsert(table, rows)
  PROVE  /\ DOMAIN result = Markets
         /\ m \notin DOMAIN rows => result[m] = table[m]
         /\ m \in DOMAIN rows =>
              result[m] = [event    |-> IF rows[m].event = None THEN table[m].event ELSE rows[m].event,
                           source   |-> rows[m].source,
                           eligible |-> table[m].eligible \/ rows[m].eligible]
BY DEF Upsert, Eligible

LEMMA CrawledIs ==
  ASSUME NEW events \in Crawled
  PROVE  events \subseteq Events /\ events \subseteq Range(Listing)
<1>1. Scope \subseteq Range(Listing) /\ Range(Listing) \subseteq Events
  BY ScopeAssumption, ListingAssumption DEF Range
<1> QED BY <1>1 DEF Crawled

LEMMA FirstEventIs ==
  ASSUME InvO, NEW events \in Crawled, NEW m \in Listed(events)
  PROVE  m \in Markets /\ FirstEvent(events, m) \in Events /\ MayList(FirstEvent(events, m), m)
<1> DEFINE P(i) == Listing[i] \in events /\ m \in Content(Listing[i], Now).markets
           S == {i \in DOMAIN Listing : P(i)}
<1>1. PICK e \in events : m \in Content(e, Now).markets
  BY DEF Listed
<1>2. Len(Listing) \in Nat /\ DOMAIN Listing = 1..Len(Listing) /\ events \subseteq Events
  BY ListingAssumption, CrawledIs
<1>3. \E k \in DOMAIN Listing : Listing[k] = e
  BY CrawledIs DEF Range
<1>4. S \in SUBSET Nat /\ S # {}
  BY <1>1, <1>2, <1>3
<1>5. PICK x \in S : \A y \in S : x <= y
  <2> HIDE DEF S
  <2> QED BY <1>4, Smallest
<1>6. x \in DOMAIN Listing /\ P(x) /\ \A j \in 1..(x - 1) : ~P(j)
  <2>1. x \in 1..Len(Listing) /\ P(x)
    BY <1>2, <1>5
  <2>2. ASSUME NEW j \in 1..(x - 1), P(j) PROVE FALSE
    <3>1. j \in 1..Len(Listing) /\ j < x
      BY <2>1, <1>2
    <3>2. j \in S
      BY <3>1, <2>2, <1>2
    <3> QED BY <3>1, <3>2, <1>5, <2>1
  <2> QED BY <2>1, <2>2, <1>2
<1> DEFINE c == CHOOSE i \in DOMAIN Listing : P(i) /\ \A j \in 1..(i - 1) : ~P(j)
<1>7. c \in DOMAIN Listing /\ P(c)
  BY <1>6
<1>8. FirstEvent(events, m) = Listing[c]
  BY DEF FirstEvent
<1>9. Listing[c] \in Events /\ m \in Content(Listing[c], Now).markets
  BY <1>2, <1>7
<1> HIDE DEF c
<1>10. MayList(Listing[c], m) /\ m \in Markets
  <2>1. GammaGoesOn /\ Now \in DOMAIN worlds
    BY NowIs DEF InvO
  <2>2. MayList(Listing[c], m)
    BY <1>9, <2>1 DEF GammaGoesOn
  <2>3. worlds[Now][Listing[c]] \in Contents
    BY <1>9, <2>1 DEF GammaGoesOn
  <2> QED BY <1>9, <2>2, <2>3 DEF Contents, Content
<1> QED BY <1>8, <1>9, <1>10

(* The refresh from the events API: it may name another event of a market  *)
(* it lists, and never touches eligibility.                                *)
LEMMA ApiUpsertIs ==
  ASSUME InvO, RowsAreRight, NEW events \in Crawled,
         registry' = Upsert(registry, Merge(SeedRows, ApiRows(events))), NEW m \in Markets
  PROVE  \/ registry'[m] = registry[m]
         \/ /\ registry'[m] \in Rows /\ registry'[m].eligible = registry[m].eligible
            /\ \/ registry'[m].source = "seed" /\ m \in Seeds /\ registry'[m].event = registry[m].event
               \/ registry'[m].source = "events_api" /\ registry'[m].event \in Events /\ MayList(registry'[m].event, m)
<1> DEFINE rows == Merge(SeedRows, ApiRows(events))
<1>1. DOMAIN SeedRows = Seeds /\ DOMAIN ApiRows(events) = Listed(events)
  BY DEF SeedRows, ApiRows
<1>2. /\ DOMAIN rows = Seeds \cup Listed(events)
      /\ \A x \in Listed(events) : rows[x] = ApiRows(events)[x]
      /\ \A x \in Seeds : x \notin Listed(events) => rows[x] = SeedRows[x]
  <2>1. /\ DOMAIN rows = DOMAIN SeedRows \cup DOMAIN ApiRows(events)
        /\ \A x \in DOMAIN ApiRows(events) : rows[x] = ApiRows(events)[x]
        /\ \A x \in DOMAIN SeedRows : x \notin DOMAIN ApiRows(events) => rows[x] = SeedRows[x]
    BY MergeIs
  <2> HIDE DEF rows
  <2> QED BY <1>1, <2>1
<1>3. /\ m \notin DOMAIN rows => registry'[m] = registry[m]
      /\ m \in DOMAIN rows =>
           registry'[m] = [event    |-> IF rows[m].event = None THEN registry[m].event ELSE rows[m].event,
                           source   |-> rows[m].source,
                           eligible |-> registry[m].eligible \/ rows[m].eligible]
  <2> HIDE DEF rows
  <2> QED BY UpsertIs, registry' = Upsert(registry, rows) DEF rows
<1> HIDE DEF rows
<1>4. registry[m].event \in Events \cup {None} /\ registry[m].eligible \in BOOLEAN
  BY RowIs
<1>5. CASE m \in Listed(events)
  <2>1. FirstEvent(events, m) \in Events /\ MayList(FirstEvent(events, m), m) /\ None \notin Events
    BY <1>5, FirstEventIs, ListingAssumption
  <2>2. rows[m] = [event |-> FirstEvent(events, m), source |-> "events_api", eligible |-> FALSE]
    BY <1>2, <1>5 DEF ApiRows
  <2>3. registry'[m] = [event |-> FirstEvent(events, m), source |-> "events_api", eligible |-> registry[m].eligible]
    BY <1>2, <1>3, <1>4, <1>5, <2>1, <2>2
  <2> QED BY <1>4, <2>1, <2>3 DEF Rows
<1>6. CASE m \in Seeds /\ m \notin Listed(events)
  <2>1. rows[m] = [event |-> None, source |-> "seed", eligible |-> FALSE]
    BY <1>2, <1>6 DEF SeedRows
  <2>2. registry'[m] = [event |-> registry[m].event, source |-> "seed", eligible |-> registry[m].eligible]
    BY <1>2, <1>3, <1>4, <1>6, <2>1
  <2> QED BY <1>4, <1>6, <2>2 DEF Rows
<1>7. CASE m \notin Seeds /\ m \notin Listed(events)
  BY <1>2, <1>3, <1>7
<1> QED BY <1>5, <1>6, <1>7

LEMMA ApiUpsertKeeps ==
  ASSUME InvO, RowsAreRight, Extends, NEW events \in Crawled,
         registry' = Upsert(registry, Merge(SeedRows, ApiRows(events)))
  PROVE  registry' \in [Markets -> Rows \cup {NoRow}] /\ \A m \in Markets : (registry[m] = NoRow \/ RowIsRight(m))'
<1>1. \A m \in Markets : (registry[m] = NoRow \/ RowIsRight(m))'
  <2> TAKE m \in Markets
  <2>1. CASE registry'[m] = registry[m]
    BY <2>1, RowStays DEF RowsAreRight
  <2>2. CASE /\ registry'[m] \in Rows /\ registry'[m].eligible = registry[m].eligible
             /\ \/ registry'[m].source = "seed" /\ m \in Seeds /\ registry'[m].event = registry[m].event
                \/ registry'[m].source = "events_api" /\ registry'[m].event \in Events
    <3>1. registry[m].eligible => m \notin Seeds /\ registry[m].event \in Events /\ m \in Payloads
      BY RowIs DEF RowIsRight
    <3>2. m \in Payloads => m \in Payloads'
      BY PayloadsStay
    <3> QED BY <2>2, <3>1, <3>2 DEF RowIsRight
  <2> QED BY <2>1, <2>2, ApiUpsertIs
<1>2. DOMAIN registry' = Markets /\ registry' = [m \in Markets |-> registry'[m]]
  <2>1. registry' = [m \in Markets |-> Upsert(registry, Merge(SeedRows, ApiRows(events)))[m]]
    BY DEF Upsert
  <2> QED BY <2>1
<1>3. \A m \in Markets : registry'[m] \in Rows \cup {NoRow}
  BY <1>1 DEF RowIsRight
<1> QED BY <1>1, <1>2, <1>3

(* Of the events that enclose a market one has the newest pair.            *)
LEMMA NewestIs ==
  ASSUME InvO, NEW m, NEW pairs, pairs # {}, \A e \in pairs : LatestPair(e, m) # 0
  PROVE  Newest(pairs, m) # {}
<1> DEFINE V == {LatestPair(e, m) : e \in pairs}
<1>1. Len(snapshots) \in Nat /\ DOMAIN snapshots = 1..Len(snapshots)
  BY SnapshotsAre
<1>2. \A e \in pairs : LatestPair(e, m) \in 1..Len(snapshots)
  BY <1>1, LatestPairIs
<1>3. V \subseteq 1..Len(snapshots) /\ V # {}
  BY <1>2
<1>4. PICK x \in V : \A y \in V : x >= y
  <2> HIDE DEF V
  <2> QED BY <1>1, <1>3, Largest
<1>5. PICK e \in pairs : x = LatestPair(e, m)
  BY <1>4
<1>6. \A f \in pairs : LatestPair(f, m) <= LatestPair(e, m)
  <2> TAKE f \in pairs
  <2>1. LatestPair(f, m) \in V /\ LatestPair(f, m) \in 1..Len(snapshots) /\ LatestPair(e, m) \in 1..Len(snapshots)
    BY <1>2
  <2> HIDE DEF V
  <2> QED BY <2>1, <1>4, <1>5
<1> QED BY <1>6 DEF Newest

Owned(m) == \E e \in EligibleEvents : IsEnclosing(e, m)

LEMMA OwnersAre ==
  ASSUME InvO, NEW m
  PROVE  /\ Enclosing(EligibleEvents, m) # {} <=> Owned(m)
         /\ \A e \in Enclosing(EligibleEvents, m) : e \in EligibleEvents /\ IsEnclosing(e, m)
<1> DEFINE E == {e \in EligibleEvents : IsEnclosing(e, m)}
<1>1. Enclosing(EligibleEvents, m) = Newest(E, m)
  BY DEF Enclosing
<1>2. \A e \in E : LatestPair(e, m) # 0
  BY DEF IsEnclosing
<1>3. Newest(E, m) \subseteq E
  BY DEF Newest
<1>4. E # {} => Newest(E, m) # {}
  <2> HIDE DEF E
  <2> QED BY <1>2, NewestIs
<1>5. E # {} <=> Owned(m)
  BY DEF Owned
<1> QED BY <1>1, <1>3, <1>4, <1>5

LEMMA AdmitIs ==
  ASSUME InvO, RowsAreRight, Admit
  PROVE  /\ pc = "registry" /\ pc' = "prune" /\ DOMAIN registry' = Markets
         /\ UNCHANGED <<gamma, run, catalog, config, collected, rawMarkets, tokens, checked>>
         /\ active' = {m \in Markets \ Seeds : Owned(m)}
         /\ \A m \in Seeds :
              registry'[m] = [event |-> registry[m].event, source |-> "seed", eligible |-> registry[m].eligible]
         /\ \A m \in Markets \ Seeds : ~Owned(m) => registry'[m] = registry[m]
         /\ \A m \in Markets \ Seeds : Owned(m) => \E e \in EligibleEvents :
              /\ IsEnclosing(e, m)
              /\ registry'[m] = [event |-> e, source |-> "event_catalog", eligible |-> TRUE]
<1> DEFINE eligible == EligibleEvents
           owners   == [m \in Markets |-> Enclosing(eligible, m)]
           enclosed == {m \in Markets : owners[m] # {}}
<1>1. PICK owner \in [enclosed -> Events] :
        /\ \A m \in enclosed : owner[m] \in owners[m]
        /\ registry' = Upsert(registry, Merge(
             [m \in enclosed |-> [event |-> owner[m], source |-> "event_catalog", eligible |-> TRUE]], SeedRows))
        /\ active' = enclosed \ Seeds
  BY DEF Admit
<1> DEFINE catRows == [m \in enclosed |-> [event |-> owner[m], source |-> "event_catalog", eligible |-> TRUE]]
           rows    == Merge(catRows, SeedRows)
<1>2. \A m \in Markets : (m \in enclosed <=> Owned(m))
  BY OwnersAre
<1>3. \A m \in enclosed : owner[m] \in EligibleEvents /\ IsEnclosing(owner[m], m) /\ owner[m] \in Events
  BY <1>1, OwnersAre
<1>4. enclosed \subseteq Markets /\ Seeds \subseteq Markets
  BY ScopeAssumption
<1>5. DOMAIN catRows = enclosed /\ \A m \in enclosed : catRows[m] = [event |-> owner[m], source |-> "event_catalog", eligible |-> TRUE]
  OBVIOUS
<1>6. DOMAIN SeedRows = Seeds /\ \A m \in Seeds : SeedRows[m] = [event |-> None, source |-> "seed", eligible |-> FALSE]
  BY DEF SeedRows
<1>7. registry' = Upsert(registry, rows) /\ active' = enclosed \ Seeds
  BY <1>1
<1> HIDE DEF catRows, enclosed
<1>8. /\ DOMAIN rows = DOMAIN catRows \cup DOMAIN SeedRows
      /\ \A x \in DOMAIN SeedRows : rows[x] = SeedRows[x]
      /\ \A x \in DOMAIN catRows : x \notin DOMAIN SeedRows => rows[x] = catRows[x]
  BY MergeIs
<1> HIDE DEF rows
<1>9. \A m \in Markets :
      /\ DOMAIN registry' = Markets
      /\ m \notin DOMAIN rows => registry'[m] = registry[m]
      /\ m \in DOMAIN rows =>
           registry'[m] = [event    |-> IF rows[m].event = None THEN registry[m].event ELSE rows[m].event,
                           source   |-> rows[m].source,
                           eligible |-> registry[m].eligible \/ rows[m].eligible]
  BY <1>7, UpsertIs
<1>10. ASSUME NEW m \in Seeds
       PROVE  registry'[m] = [event |-> registry[m].event, source |-> "seed", eligible |-> registry[m].eligible]
  <2>1. m \in Markets /\ m \in DOMAIN rows /\ rows[m] = [event |-> None, source |-> "seed", eligible |-> FALSE]
    BY <1>4, <1>6, <1>8
  <2>2. registry[m].eligible \in BOOLEAN
    BY <2>1, RowIs
  <2>3. registry'[m] = [event    |-> IF rows[m].event = None THEN registry[m].event ELSE rows[m].event,
                        source   |-> rows[m].source,
                        eligible |-> registry[m].eligible \/ rows[m].eligible]
    BY <1>9, <2>1
  <2> QED BY <2>1, <2>2, <2>3
<1>11. ASSUME NEW m \in Markets \ Seeds, ~Owned(m) PROVE registry'[m] = registry[m]
  BY <1>2, <1>5, <1>6, <1>8, <1>9, <1>11
<1>12. ASSUME NEW m \in Markets \ Seeds, Owned(m)
       PROVE  \E e \in EligibleEvents :
                /\ IsEnclosing(e, m)
                /\ registry'[m] = [event |-> e, source |-> "event_catalog", eligible |-> TRUE]
  <2>1. m \in enclosed /\ m \in DOMAIN rows /\ rows[m] = [event |-> owner[m], source |-> "event_catalog", eligible |-> TRUE]
    BY <1>2, <1>5, <1>6, <1>8, <1>12
  <2>2. owner[m] \in EligibleEvents /\ IsEnclosing(owner[m], m) /\ owner[m] # None
    BY <1>3, <2>1, ListingAssumption
  <2>3. registry'[m] = [event    |-> IF rows[m].event = None THEN registry[m].event ELSE rows[m].event,
                        source   |-> rows[m].source,
                        eligible |-> registry[m].eligible \/ rows[m].eligible]
    BY <1>9, <2>1
  <2>4. registry'[m] = [event |-> owner[m], source |-> "event_catalog", eligible |-> TRUE]
    <3>1. registry[m].eligible \in BOOLEAN
      BY RowIs
    <3>2. rows[m].event = owner[m] /\ rows[m].source = "event_catalog" /\ rows[m].eligible = TRUE
      BY <2>1
    <3> QED BY <2>2, <2>3, <3>1, <3>2
  <2> QED BY <2>2, <2>4
<1>13. DOMAIN registry' = Markets
  BY <1>7, UpsertIs DEF Upsert
<1>14. active' = {m \in Markets \ Seeds : Owned(m)}
  BY <1>2, <1>4, <1>7
<1>15. pc = "registry" /\ pc' = "prune" /\ UNCHANGED <<gamma, run, catalog, config, collected, rawMarkets, tokens, checked>>
  BY DEF Admit
<1> QED BY <1>10, <1>11, <1>12, <1>13, <1>14, <1>15

LEMMA AdmitKeepsRows ==
  ASSUME InvO, RowsAreRight, Extends, Admit
  PROVE  RowsAreRight'
<1>1. \A m \in Markets : (registry[m] = NoRow \/ RowIsRight(m))'
  <2> TAKE m \in Markets
  <2>1. CASE m \in Seeds
    <3>1. registry'[m] = [event |-> registry[m].event, source |-> "seed", eligible |-> registry[m].eligible]
      BY <2>1, AdmitIs
    <3>2. registry[m].event \in Events \cup {None} /\ registry[m].eligible = FALSE
      BY <2>1, RowIs DEF RowIsRight
    <3>3. registry'[m] = [event |-> registry[m].event, source |-> "seed", eligible |-> FALSE]
      BY <3>1, <3>2
    <3>4. registry'[m] \in Rows
      BY <3>2, <3>3 DEF Rows
    <3>5. registry'[m].source = "seed" /\ registry'[m].eligible = FALSE
      BY <3>3
    <3> QED BY <2>1, <3>4, <3>5 DEF RowIsRight
  <2>2. CASE m \notin Seeds /\ ~Owned(m)
    <3>1. registry'[m] = registry[m]
      BY <2>2, AdmitIs
    <3> QED BY <3>1, RowStays DEF RowsAreRight
  <2>3. CASE m \notin Seeds /\ Owned(m)
    <3>1. PICK e \in EligibleEvents :
            /\ IsEnclosing(e, m)
            /\ registry'[m] = [event |-> e, source |-> "event_catalog", eligible |-> TRUE]
      BY <2>3, AdmitIs
    <3>2. Ever(e, m) /\ e \in Events /\ m \in Payloads
      BY <3>1, EnclosingIs, EverIs
    <3>3. Ever(e, m)' /\ m \in Payloads'
      BY <3>2, EverStays, PayloadsStay
    <3>4. registry'[m] \in Rows /\ registry'[m].event = e /\ registry'[m].source = "event_catalog" /\ registry'[m].eligible
      BY <3>1, <3>2 DEF Rows
    <3> QED BY <2>3, <3>2, <3>3, <3>4 DEF RowIsRight
  <2> QED BY <2>1, <2>2, <2>3
<1>2. registry' = [m \in Markets |-> registry'[m]]
  <2>1. \E r : registry' = Upsert(registry, r)
    BY DEF Admit
  <2>2. PICK r : registry' = Upsert(registry, r)
    BY <2>1
  <2> QED BY <2>2 DEF Upsert
<1>3. \A m \in Markets : registry'[m] \in Rows \cup {NoRow}
  BY <1>1 DEF RowIsRight
<1>4. active' \subseteq Markets /\ UNCHANGED <<collected, rawMarkets, tokens, checked>>
  BY AdmitIs
<1>5. registry' \in [Markets -> Rows \cup {NoRow}]
  BY <1>2, <1>3
<1> QED BY <1>1, <1>4, <1>5 DEF RowsAreRight

LEMMA WithoutKeepsRows ==
  ASSUME InvO, RowsAreRight, Extends, NEW rows, registry' = Without(rows),
         UNCHANGED <<collected, rawMarkets, tokens, checked>>, active' \subseteq Markets
  PROVE  RowsAreRight'
<1>1. \A m \in Markets : registry'[m] = IF m \in rows THEN NoRow ELSE registry[m]
  BY DEF Without
<1>2. registry' \in [Markets -> Rows \cup {NoRow}]
  <2>1. \A m \in Markets : (IF m \in rows THEN NoRow ELSE registry[m]) \in Rows \cup {NoRow}
    BY DEF RowsAreRight
  <2> QED BY <2>1 DEF Without
<1>3. \A m \in Markets : (registry[m] = NoRow \/ RowIsRight(m))'
  <2> TAKE m \in Markets
  <2>1. CASE m \in rows
    BY <1>1, <2>1
  <2>2. CASE m \notin rows
    <3>1. registry'[m] = registry[m]
      BY <1>1, <2>2
    <3> QED BY <3>1, RowStays DEF RowsAreRight
  <2> QED BY <2>1, <2>2
<1> QED BY <1>2, <1>3 DEF RowsAreRight

LEMMA ListedAreMarkets ==
  ASSUME InvO, NEW events \in Crawled
  PROVE  Listed(events) \subseteq Markets
BY FirstEventIs

(* Each step leaves the table alone or is one of five.                     *)
ApiUpsert == \E events \in Crawled : registry' = Upsert(registry, Merge(SeedRows, ApiRows(events)))

LEMMA RegistryChanges ==
  ASSUME [Next]_vars
  PROVE  \/ UNCHANGED registry
         \/ ApiUpsert \/ Admit \/ PruneStale \/ PruneApi
BY DEF Next, Job, Begin, FailJob, CollectRaw, Load, SaveTokens, RefreshUngated, Materialize, Enrich, DeleteOrphans,
   vars, scope, ApiUpsert

(* What is in hand, loaded and served are markets.                         *)
LEMMA HandsAre ==
  ASSUME InvO, RowsAreRight, [Next]_vars
  PROVE  (active \cup collected \cup rawMarkets \cup tokens \subseteq Markets /\ checked \in BOOLEAN)'
<1> USE DEF RowsAreRight
<1>1. CASE UNCHANGED scope
  BY <1>1 DEF scope
<1>2. CASE CollectRaw
  BY <1>2, ListedAreMarkets DEF CollectRaw
<1>3. CASE Load("rawLoad", "rawTokens") \/ Load("registryLoad", "registryTokens")
  BY <1>3 DEF Load, Loaded
<1>4. CASE SaveTokens("rawTokens", "catalog") \/ SaveTokens("registryTokens", "enrich")
  BY <1>4 DEF SaveTokens
<1>5. CASE Admit
  BY <1>5, AdmitIs
<1>6. CASE RefreshUngated \/ PruneStale \/ PruneApi
  BY <1>6 DEF RefreshUngated, PruneStale, PruneApi
<1>7. CASE Materialize
  <2>1. collected' \subseteq Markets
    BY <1>7, PayloadsAre, EverIs DEF Materialize
  <2> QED BY <1>7, <2>1 DEF Materialize
<1>8. CASE Enrich
  <2>1. checked' \in BOOLEAN /\ tokens' \subseteq tokens \cup rawMarkets
    BY <1>8 DEF Enrich, Missing, Failed
  <2> QED BY <1>8, <2>1 DEF Enrich
<1>9. CASE DeleteOrphans
  BY <1>9 DEF DeleteOrphans
<1>10. CASE Begin
  BY <1>10 DEF Begin
<1>11. CASE FailJob
  BY <1>11 DEF FailJob
<1>12. CASE UNCHANGED vars
  BY <1>1, <1>12 DEF vars
<1> QED BY <1>1, <1>2, <1>3, <1>4, <1>5, <1>6, <1>7, <1>8, <1>9, <1>10, <1>11, <1>12 DEF Next, Job

LEMMA NextKeepsRows == InvO /\ RowsAreRight /\ [Next]_vars => RowsAreRight'
<1> SUFFICES ASSUME InvO, RowsAreRight, [Next]_vars PROVE RowsAreRight'
  OBVIOUS
<1>1. Extends /\ (active \cup collected \cup rawMarkets \cup tokens \subseteq Markets /\ checked \in BOOLEAN)'
  BY NextExtends, HandsAre
<1>2. CASE UNCHANGED registry
  BY <1>1, <1>2, RowsStay
<1>3. CASE ApiUpsert
  <2>1. registry' \in [Markets -> Rows \cup {NoRow}] /\ \A m \in Markets : (registry[m] = NoRow \/ RowIsRight(m))'
    BY <1>1, <1>3, ApiUpsertKeeps DEF ApiUpsert
  <2> QED BY <1>1, <2>1 DEF RowsAreRight
<1>4. CASE Admit
  BY <1>1, <1>4, AdmitKeepsRows
<1>5. CASE PruneStale \/ PruneApi
  <2>1. PICK rows : registry' = Without(rows)
    BY <1>5 DEF PruneStale, PruneApi
  <2>2. UNCHANGED <<collected, rawMarkets, tokens, checked>> /\ active' \subseteq Markets
    BY <1>5 DEF PruneStale, PruneApi, RowsAreRight
  <2> QED BY <1>1, <2>1, <2>2, WithoutKeepsRows
<1> QED BY <1>2, <1>3, <1>4, <1>5, RegistryChanges

------------------------------------------------------------------------------
(* The registry: families, and what is served *)

LEMMA AdmittedIs ==
  ASSUME NEW e
  PROVE  e \in Admitted <=> e # None /\ \E m \in Markets : registry[m].eligible /\ registry[m].event = e
BY DEF Admitted

LEMMA AdmitMakesFamilies == InvO /\ RowsAreRight /\ Extends /\ Admit => Family(active)'
<1> SUFFICES ASSUME InvO, RowsAreRight, Extends, Admit PROVE Family(active)'
  OBVIOUS
<1>1. UNCHANGED snapshots
  BY AdmitIs DEF catalog
<1>2. ASSUME NEW e \in Admitted', NEW m \in Markets \ Seeds, IsEnclosing(e, m)'
      PROVE  m \in active' /\ registry'[m].eligible
  <2>1. IsEnclosing(e, m)
    BY <1>1, <1>2, NothingNewIsSeen
  <2>2. LatestEvent(e) # 0 /\ e \in Events
    BY <2>1, EnclosingIs
  <2>3. PICK x \in Markets : registry'[x].eligible /\ registry'[x].event = e
    BY <1>2 DEF Admitted
  <2>4. e \in EligibleEvents
    <3>1. CASE x \in Seeds
      <4>1. registry'[x] = [event |-> registry[x].event, source |-> "seed", eligible |-> registry[x].eligible]
        BY <3>1, AdmitIs
      <4>2. registry[x].eligible
        BY <2>3, <4>1
      <4> QED BY <3>1, <4>2, RowIs DEF RowIsRight
    <3>2. CASE x \notin Seeds /\ ~Owned(x)
      <4>1. registry'[x] = registry[x]
        BY <3>2, AdmitIs
      <4> QED BY <2>2, <2>3, <4>1 DEF EligibleEvents, WasEligible
    <3>3. CASE x \notin Seeds /\ Owned(x)
      <4>1. PICK f \in EligibleEvents : registry'[x] = [event |-> f, source |-> "event_catalog", eligible |-> TRUE]
        BY <3>3, AdmitIs
      <4> QED BY <2>3, <4>1
    <3> QED BY <3>1, <3>2, <3>3
  <2>5. Owned(m)
    BY <2>1, <2>4 DEF Owned
  <2>6. m \in active'
    BY <2>5, AdmitIs
  <2>7. PICK f \in EligibleEvents : registry'[m] = [event |-> f, source |-> "event_catalog", eligible |-> TRUE]
    BY <2>5, AdmitIs
  <2> QED BY <2>6, <2>7
<1> QED BY <1>2 DEF Family

(* What pruning takes.                                                     *)
LEMMA WithoutIs ==
  ASSUME NEW rows, registry' = Without(rows), NEW m \in Markets
  PROVE  /\ m \in rows => registry'[m] = NoRow
         /\ m \notin rows => registry'[m] = registry[m]
BY DEF Without

LEMMA PruneStaleIs ==
  ASSUME PruneStale
  PROVE  /\ pc = "prune" /\ pc' = "pruneApi" /\ UNCHANGED <<gamma, run, catalog, config, collected, rawMarkets, tokens>>
         /\ \A m \in Markets : IF registry[m].source = "event_catalog" /\ m \notin active
                               THEN registry'[m] = NoRow ELSE registry'[m] = registry[m]
<1> DEFINE rows == {m \in Markets : registry[m].source = "event_catalog" /\ m \notin active}
<1>1. registry' = Without(rows)
  BY DEF PruneStale
<1>2. \A m \in Markets : (m \in rows => registry'[m] = NoRow) /\ (m \notin rows => registry'[m] = registry[m])
  <2> HIDE DEF rows
  <2> QED BY <1>1, WithoutIs
<1> QED BY <1>2 DEF PruneStale

LEMMA PruneApiIs ==
  ASSUME PruneApi
  PROVE  /\ pc = "pruneApi" /\ pc' = "materialize"
         /\ UNCHANGED <<gamma, run, catalog, config, active, collected, rawMarkets, tokens>>
         /\ \A m \in Markets : IF registry[m].source = "events_api" /\ ~registry[m].eligible
                               THEN registry'[m] = NoRow ELSE registry'[m] = registry[m]
<1>1. registry' = Without(IneligibleApi)
  BY DEF PruneApi
<1>2. \A m \in Markets : (m \in IneligibleApi => registry'[m] = NoRow) /\ (m \notin IneligibleApi => registry'[m] = registry[m])
  BY <1>1, WithoutIs
<1> QED BY <1>2 DEF PruneApi, IneligibleApi

LEMMA NoRowIs == NoRow.event = None /\ NoRow.source = None /\ NoRow.eligible = FALSE
BY DEF NoRow

(* Pruning takes no eligible row of a family, and admits nothing.          *)
LEMMA PruneStaleKeepsFamilies ==
  InvO /\ RowsAreRight /\ Extends /\ Family(active) /\ PruneStale => Family(Markets)'
<1> SUFFICES ASSUME InvO, RowsAreRight, Extends, Family(active), PruneStale,
                    NEW e \in Admitted', NEW m \in Markets \ Seeds, IsEnclosing(e, m)'
             PROVE  registry'[m].eligible
  BY DEF Family
<1>1. IsEnclosing(e, m)
  BY PruneStaleIs, NothingNewIsSeen DEF catalog
<1>2. PICK x \in Markets : registry'[x].eligible /\ registry'[x].event = e /\ e # None
  BY DEF Admitted
<1>3. registry'[x] = registry[x]
  BY <1>2, PruneStaleIs, NoRowIs
<1>4. e \in Admitted
  BY <1>2, <1>3 DEF Admitted
<1>5. m \in active /\ registry[m].eligible
  BY <1>1, <1>4 DEF Family
<1> QED BY <1>5, PruneStaleIs

LEMMA PruneApiKeepsFamilies ==
  InvO /\ RowsAreRight /\ Extends /\ Family(Markets) /\ PruneApi => Family(Markets)' /\ (\A m \in IneligibleApi : registry[m] = NoRow)'
<1> SUFFICES ASSUME InvO, RowsAreRight, Extends, Family(Markets), PruneApi
             PROVE  Family(Markets)' /\ (\A m \in IneligibleApi : registry[m] = NoRow)'
  OBVIOUS
<1>1. ASSUME NEW e \in Admitted', NEW m \in Markets \ Seeds, IsEnclosing(e, m)'
      PROVE  registry'[m].eligible
  <2>1. IsEnclosing(e, m)
    BY <1>1, PruneApiIs, NothingNewIsSeen DEF catalog
  <2>2. PICK x \in Markets : registry'[x].eligible /\ registry'[x].event = e /\ e # None
    BY <1>1 DEF Admitted
  <2>3. registry'[x] = registry[x]
    BY <2>2, PruneApiIs, NoRowIs
  <2>4. e \in Admitted
    BY <2>2, <2>3 DEF Admitted
  <2>5. registry[m].eligible
    BY <2>1, <2>4 DEF Family
  <2> QED BY <2>5, PruneApiIs
<1>2. (\A m \in IneligibleApi : registry[m] = NoRow)'
  <2> SUFFICES ASSUME NEW m \in Markets, registry'[m].source = "events_api", ~registry'[m].eligible
               PROVE  registry'[m] = NoRow
    BY DEF IneligibleApi
  <2> QED BY PruneApiIs
<1> QED BY <1>1, <1>2 DEF Family

LEMMA GammaMovesAt == GammaMoves => pc \in {"idle", "raw", "scan", "fetch", "registry"} /\ UNCHANGED <<pc, run, catalog>>
BY DEF GammaMoves, Change

LEMMA CatalogIs ==
  ASSUME CatalogNext
  PROVE  /\ pc \in Collecting \cup {"catalog", "clear"} /\ pc' \in Collecting \cup {"clear", "registry"}
         /\ UNCHANGED <<root, roots>> /\ (step' = step \/ step' = "registry")
BY DEF CatalogNext, StartCatalog, UseCheckpoint, ReadPage, Converge, WalkAgain, FetchReferences, MergeBatch,
   ClearCheckpoints, Enter, run, Collecting

Refreshing == {"prune", "pruneApi", "materialize"}

(* Where no refresh is under way a family need not be complete.            *)
LEMMA NextKeepsFamilies ==
  InvO /\ RowsAreRight /\ FamilyIsKept /\ [Next]_vars => FamilyIsKept'
<1> SUFFICES ASSUME InvO, RowsAreRight, FamilyIsKept, [Next]_vars PROVE FamilyIsKept'
  OBVIOUS
<1>1. Extends
  BY NextExtends
<1>2. CASE pc' \notin Refreshing
  BY <1>2 DEF FamilyIsKept, Refreshing
<1>3. CASE Admit
  <2>1. Family(active)' /\ pc' = "prune"
    BY <1>1, <1>3, AdmitMakesFamilies, AdmitIs
  <2> QED BY <2>1 DEF FamilyIsKept
<1>4. CASE PruneStale
  <2>1. Family(active) /\ pc' = "pruneApi"
    BY <1>4, PruneStaleIs DEF FamilyIsKept
  <2>2. Family(Markets)'
    BY <1>1, <1>4, <2>1, PruneStaleKeepsFamilies
  <2> QED BY <2>1, <2>2 DEF FamilyIsKept
<1>5. CASE PruneApi
  <2>1. Family(Markets) /\ pc' = "materialize"
    BY <1>5, PruneApiIs DEF FamilyIsKept
  <2>2. Family(Markets)' /\ (\A m \in IneligibleApi : registry[m] = NoRow)'
    BY <1>1, <1>5, <2>1, PruneApiKeepsFamilies
  <2> QED BY <2>1, <2>2 DEF FamilyIsKept
<1>6. CASE UNCHANGED vars
  <2>1. UNCHANGED <<pc, registry, active, snapshots>>
    BY <1>6 DEF vars, catalog, scope
  <2>2. \A e, m : IsEnclosing(e, m)' = IsEnclosing(e, m)
    BY <1>1, <2>1, NothingNewIsSeen
  <2>3. Admitted' = Admitted /\ IneligibleApi' = IneligibleApi
    BY <2>1 DEF Admitted, IneligibleApi
  <2>4. Family(active)' = Family(active) /\ Family(Markets)' = Family(Markets)
    BY <2>1, <2>2, <2>3 DEF Family
  <2> QED BY <2>1, <2>3, <2>4 DEF FamilyIsKept
<1>7. CASE CatalogNext
  BY <1>2, <1>7, CatalogIs DEF Collecting, Refreshing
<1>8. CASE GammaMoves
  BY <1>2, <1>8, GammaMovesAt DEF Refreshing
<1>9. CASE CollectRaw \/ RefreshUngated \/ Materialize \/ Enrich \/ DeleteOrphans
           \/ Load("rawLoad", "rawTokens") \/ Load("registryLoad", "registryTokens")
           \/ SaveTokens("rawTokens", "catalog") \/ SaveTokens("registryTokens", "enrich")
  BY <1>2, <1>9 DEF CollectRaw, RefreshUngated, Materialize, Enrich, DeleteOrphans, Load, SaveTokens, Refreshing
<1>10. CASE Begin \/ FailJob \/ Retry \/ GiveUp \/ \E r \in 1..Roots : Reexecute(r)
  <2>1. step \in Assets
    BY DEF InvO, RunIsOne
  <2> QED BY <1>2, <1>10, <2>1 DEF Begin, StartRun, FailJob, Fail, Retry, GiveUp, Reexecute, Refreshing, Assets
<1> QED BY <1>3, <1>4, <1>5, <1>6, <1>7, <1>8, <1>9, <1>10 DEF Next, Job

(* Steps that end what the registry asset serves, and steps that keep it.  *)
LEMMA NothingToServe ==
  ASSUME step' # "enrich", pc' \notin {"registryLoad", "registryTokens", "enrich"}
  PROVE  LoadIsWhole'
BY DEF LoadIsWhole

LEMMA ServedStays ==
  ASSUME InvO, LoadIsWhole, Extends, UNCHANGED <<snapshots, registry, root, config, step>>,
         rawMarkets \subseteq rawMarkets', rawMarkets \cap tokens \subseteq tokens',
         pc' \notin {"registryLoad", "registryTokens"}, pc' = "enrich" => step = "enrich",
         step = "enrich" => pc' \in {"enrich", "orphans", "failed", "idle"}
  PROVE  LoadIsWhole'
<1>1. Wanted' = Wanted
  BY NothingNewIsSeen DEF Wanted
<1>2. step = "enrich" /\ Gated => \A m \in Wanted : Served(m)'
  BY DEF LoadIsWhole, Served
<1> QED BY <1>1, <1>2 DEF LoadIsWhole, Gated

LEMMA NextServes ==
  InvO /\ RowsAreRight /\ LoadIsWhole /\ [Next]_vars => LoadIsWhole'
<1> SUFFICES ASSUME InvO, RowsAreRight, LoadIsWhole, [Next]_vars PROVE LoadIsWhole'
  OBVIOUS
<1>1. Extends /\ step \in Assets
  BY NextExtends DEF InvO, RunIsOne
<1>2. step = "enrich" => pc \in {"enrich", "orphans", "failed", "idle"}
  BY DEF LoadIsWhole
<1>3. CASE UNCHANGED vars
  <2>1. UNCHANGED <<snapshots, registry, root, config, step, pc, collected, rawMarkets, tokens>>
    BY <1>3 DEF vars, catalog, scope, run
  <2>2. Wanted' = Wanted
    BY <1>1, <2>1, NothingNewIsSeen DEF Wanted
  <2> QED BY <2>1, <2>2 DEF LoadIsWhole, Served, Gated
<1>4. CASE CatalogNext
  <2>1. step' # "enrich" /\ pc' \notin {"registryLoad", "registryTokens", "enrich"}
    BY <1>2, <1>4, CatalogIs DEF Collecting
  <2> QED BY <2>1, NothingToServe
<1>5. CASE GammaMoves /\ UNCHANGED scope
  <2>1. UNCHANGED <<snapshots, registry, root, config, step, pc, collected, rawMarkets, tokens>>
        /\ pc \notin {"registryLoad", "registryTokens"}
    BY <1>5, GammaMovesAt DEF catalog, scope, run
  <2>2. pc = "enrich" => step = "enrich"
    BY DEF LoadIsWhole
  <2> QED BY <1>1, <1>2, <2>1, <2>2, ServedStays
<1>6. CASE CollectRaw \/ Load("rawLoad", "rawTokens") \/ Admit \/ PruneStale \/ PruneApi
  <2>1. step' = step /\ pc \notin {"enrich", "orphans", "failed", "idle"}
        /\ pc' \in {"rawLoad", "rawTokens", "prune", "pruneApi", "materialize"}
    BY <1>6 DEF CollectRaw, Load, Admit, PruneStale, PruneApi, run
  <2> QED BY <1>2, <2>1, NothingToServe
<1>7. CASE SaveTokens("rawTokens", "catalog")
  <2>1. step' = "catalog" /\ pc' = "catalog"
    BY <1>7 DEF SaveTokens
  <2> QED BY <2>1, NothingToServe
<1>8. CASE RefreshUngated
  <2>1. pc' = "enrich" /\ step' = "enrich" /\ ~Gated'
    BY <1>8 DEF RefreshUngated, Gated
  <2> QED BY <2>1 DEF LoadIsWhole
<1>9. CASE Materialize
  <2>1. pc = "materialize" /\ pc' = "registryLoad" /\ step' = step /\ collected' = Wanted
        /\ UNCHANGED <<snapshots, registry>>
    BY <1>9 DEF Materialize, Wanted, run, catalog
  <2>2. Wanted' = Wanted
    BY <1>1, <2>1, NothingNewIsSeen DEF Wanted
  <2> QED BY <1>2, <2>1, <2>2 DEF LoadIsWhole
<1>10. CASE Load("registryLoad", "registryTokens")
  <2>1. pc = "registryLoad" /\ pc' = "registryTokens" /\ step' = step /\ collected' = collected
        /\ rawMarkets' = rawMarkets \cup collected /\ UNCHANGED <<snapshots, registry>>
    BY <1>10 DEF Load, Loaded, run, catalog
  <2>2. Wanted' = Wanted
    BY <1>1, <2>1, NothingNewIsSeen DEF Wanted
  <2> QED BY <1>2, <2>1, <2>2 DEF LoadIsWhole
<1>11. CASE SaveTokens("registryTokens", "enrich")
  <2>1. pc = "registryTokens" /\ pc' = "enrich" /\ step' = "enrich"
        /\ tokens' = tokens \cup (collected \cap Tokenised) /\ UNCHANGED <<snapshots, registry, rawMarkets>>
    BY <1>11 DEF SaveTokens, catalog
  <2>2. Wanted' = Wanted
    BY <1>1, <2>1, NothingNewIsSeen DEF Wanted
  <2>3. Wanted \subseteq collected /\ collected \subseteq rawMarkets
    BY <2>1 DEF LoadIsWhole
  <2>4. \A m \in Wanted : Served(m)'
    BY <2>1, <2>3 DEF Served
  <2> QED BY <2>1, <2>2, <2>4 DEF LoadIsWhole
<1>12. CASE Enrich
  <2>1. pc = "enrich" /\ pc' = "orphans" /\ tokens \subseteq tokens'
        /\ UNCHANGED <<snapshots, registry, root, config, step, rawMarkets>>
    BY <1>12 DEF Enrich, run, catalog
  <2> QED BY <1>1, <2>1, ServedStays
<1>13. CASE DeleteOrphans
  <2>1. pc = "orphans" /\ pc' = "idle" /\ tokens' = tokens \cap rawMarkets
        /\ UNCHANGED <<snapshots, registry, root, config, step, rawMarkets>>
    BY <1>13 DEF DeleteOrphans, run, catalog
  <2> QED BY <1>1, <2>1, ServedStays
<1>14. CASE FailJob \/ ((Retry \/ GiveUp) /\ UNCHANGED scope)
  <2>1. pc' \in {"failed", "idle", step} /\ pc' \notin {"registryLoad", "registryTokens"}
        /\ UNCHANGED <<snapshots, registry, root, config, step, rawMarkets, tokens>>
    BY <1>1, <1>14 DEF FailJob, Fail, Retry, GiveUp, run, catalog, scope, Assets
  <2> QED BY <1>1, <2>1, ServedStays
<1>15. CASE Begin \/ \E r \in 1..Roots : Reexecute(r)
  <2>1. step' \in {"raw", "catalog"} /\ pc' \in {"raw", "catalog"}
    BY <1>15 DEF Begin, StartRun, Reexecute
  <2> QED BY <2>1, NothingToServe
<1> QED BY <1>3, <1>4, <1>5, <1>6, <1>7, <1>8, <1>9, <1>10, <1>11, <1>12, <1>13, <1>14, <1>15 DEF Next, Job

------------------------------------------------------------------------------
(* The registry: what holds always *)

LEMMA InitRegisters == Init => InvR /\ AdmittedAtHome
<1> SUFFICES ASSUME Init PROVE InvR /\ AdmittedAtHome
  OBVIOUS
<1>1. /\ pc = "idle" /\ step = "raw" /\ registry = [m \in Markets |-> NoRow]
      /\ active = {} /\ collected = {} /\ rawMarkets = {} /\ tokens = {} /\ checked = FALSE
  BY DEF Init, CatalogInit, ScopeInit
<1>2. \A m \in Markets : registry[m] = NoRow /\ registry[m].eligible = FALSE
  BY <1>1, NoRowIs
<1>3. RowsAreRight
  BY <1>1, <1>2 DEF RowsAreRight
<1> QED BY <1>1, <1>2, <1>3 DEF InvR, FamilyIsKept, LoadIsWhole, AdmittedAtHome

LEMMA NextRegisters == InvO /\ InvR /\ [Next]_vars => InvR'
BY NextKeepsRows, NextKeepsFamilies, NextServes DEF InvR

LEMMA NothingElseIs == InvR => NothingElse
<1> SUFFICES ASSUME InvR, pc = "materialize", NEW m \in Markets, registry[m] # NoRow
             PROVE  m \in Seeds \/ (registry[m].eligible /\ m \in Payloads)
  BY DEF NothingElse
<1>1. RowIsRight(m) /\ m \notin IneligibleApi
  BY DEF InvR, RowsAreRight, FamilyIsKept
<1>2. registry[m].source \in {"seed", "events_api", "event_catalog"}
  BY <1>1 DEF RowIsRight, Rows
<1> QED BY <1>1, <1>2 DEF RowIsRight, IneligibleApi

LEMMA RegistryHolds == InvO /\ InvR => TypeOK /\ FamilyIsWhole /\ NothingElse /\ AdmittedIsServed
<1> SUFFICES ASSUME InvO, InvR PROVE TypeOK /\ FamilyIsWhole /\ NothingElse /\ AdmittedIsServed
  OBVIOUS
<1>1. FamilyIsWhole
  BY DEF InvR, FamilyIsKept, FamilyIsWhole, Family
<1>2. AdmittedIsServed
  BY DEF InvR, LoadIsWhole, AdmittedIsServed, Wanted, Served, Gated
<1>3. TypeOK
  <2>1. \A k \in DOMAIN checkpoints : k \in (1..Roots) \X (1..Len(Partitions))
    <3>1. DOMAIN checkpoints \subseteq (1..roots) \X (1..NP) /\ roots \in 0..Roots /\ Roots \in Nat
      BY CatalogAssumption DEF InvO, Tables, RunIsOne
    <3>2. 1..roots \subseteq 1..Roots
      BY <3>1
    <3> QED BY <3>1, <3>2, PartitionsAre
  <2>2. pc \in Collecting \cup Listening \cup {"clear"}
    BY DEF InvO, RunIsOne
  <2> QED BY <2>1, <2>2 DEF TypeOK, InvR, RowsAreRight, Collecting, Listening
<1> QED BY <1>1, <1>2, <1>3, NothingElseIs

(* What an eligible row becomes: it stays eligible, and of its event unless *)
(* another may list the market too.                                        *)
LEMMA EligibleRowStays ==
  ASSUME InvO, InvR, [Next]_vars, NEW m \in Markets, registry[m].eligible,
         PruneStale => LatestIsFreshest
  PROVE  /\ registry'[m].eligible
         /\ \/ registry'[m].event = registry[m].event
            \/ registry'[m].event \in Events /\ MayList(registry'[m].event, m)
<1>1. RowsAreRight /\ FamilyIsKept /\ RowIsRight(m) /\ m \notin Seeds /\ registry[m].event \in Events
  BY RowIs DEF InvR, RowIsRight
<1>2. CASE UNCHANGED registry
  BY <1>2
<1>3. CASE ApiUpsert
  BY <1>1, <1>3, ApiUpsertIs DEF ApiUpsert
<1>4. CASE Admit
  <2>1. CASE Owned(m)
    <3>1. PICK e \in EligibleEvents :
            /\ IsEnclosing(e, m)
            /\ registry'[m] = [event |-> e, source |-> "event_catalog", eligible |-> TRUE]
      BY <1>1, <1>4, <2>1, AdmitIs
    <3>2. e \in Events /\ MayList(e, m)
      BY <3>1, EnclosingIs, EverIs
    <3> QED BY <3>1, <3>2
  <2>2. CASE ~Owned(m)
    BY <1>1, <1>4, <2>2, AdmitIs
  <2> QED BY <2>1, <2>2
<1>5. CASE PruneStale
  <2>1. registry[m].source = "event_catalog" => m \in active
    <3> SUFFICES ASSUME registry[m].source = "event_catalog" PROVE m \in active
      OBVIOUS
    <3>1. PICK e : e = registry[m].event
      OBVIOUS
    <3>2. Ever(e, m) /\ e \in Events
      BY <1>1, <3>1 DEF RowIsRight
    <3>3. IsEnclosing(e, m)
      BY <1>5, <3>2, EverEncloses
    <3>4. e \in Admitted
      BY <3>1, <3>2, ListingAssumption DEF Admitted
    <3>5. Family(active)
      BY <1>1, <1>5, PruneStaleIs DEF FamilyIsKept
    <3> QED BY <1>1, <3>3, <3>4, <3>5 DEF Family
  <2> QED BY <1>5, <2>1, PruneStaleIs
<1>6. CASE PruneApi
  BY <1>6, PruneApiIs
<1> QED BY <1>2, <1>3, <1>4, <1>5, <1>6, RegistryChanges

LEMMA NextIsAtHome == OneHome /\ InvO /\ InvR /\ AdmittedAtHome /\ [Next]_vars => AdmittedAtHome'
<1> SUFFICES ASSUME OneHome, InvO, InvR, AdmittedAtHome, [Next]_vars, NEW m \in Markets, registry'[m].eligible
             PROVE  Crossed(registry[m].event)' /\ MayList(registry'[m].event, m)
  BY DEF AdmittedAtHome
<1> DEFINE home == registry[m].event
           e    == registry'[m].event
<1>1. Extends /\ RowsAreRight
  BY NextExtends DEF InvR
<1>2. \A f : Crossed(f) => Crossed(f)'
  BY <1>1, CrossedStays
<1>3. registry[m].eligible => Crossed(home) /\ MayList(home, m) /\ home \in Events /\ m \notin Seeds
  BY <1>1, RowIs DEF AdmittedAtHome, RowIsRight
<1>4. CASE registry'[m] = registry[m]
  <2>1. PICK f : f = e
    OBVIOUS
  <2>2. Crossed(f) /\ MayList(f, m)
    BY <1>3, <1>4, <2>1
  <2>3. Crossed(f)'
    BY <1>2, <2>2
  <2> QED BY <2>1, <2>2, <2>3
<1>5. CASE ApiUpsert /\ registry'[m] # registry[m]
  <2>1. registry[m].eligible /\ e \in Events /\ MayList(e, m)
    BY <1>1, <1>3, <1>5, ApiUpsertIs DEF ApiUpsert
  <2>2. PICK f : f = e
    OBVIOUS
  <2>3. f = home
    BY <1>3, <2>1, <2>2 DEF OneHome
  <2>4. Crossed(f)'
    BY <1>2, <1>3, <2>1, <2>3
  <2> QED BY <2>1, <2>2, <2>4
<1>6. CASE Admit /\ registry'[m] # registry[m]
  <2>1. m \notin Seeds /\ Owned(m)
    <3>1. m \in Seeds => FALSE
      <4> SUFFICES ASSUME m \in Seeds PROVE FALSE
        OBVIOUS
      <4>1. registry'[m] = [event |-> registry[m].event, source |-> "seed", eligible |-> registry[m].eligible]
        BY <1>1, <1>6, AdmitIs
      <4> QED BY <1>3, <4>1
    <3> QED BY <1>1, <1>6, <3>1, AdmitIs
  <2>2. PICK f \in EligibleEvents :
          /\ IsEnclosing(f, m)
          /\ registry'[m] = [event |-> f, source |-> "event_catalog", eligible |-> TRUE]
    BY <1>1, <1>6, <2>1, AdmitIs
  <2>3. Crossed(f)
    <3>1. CASE Big(f)
      BY <3>1, LatestEventIs DEF Big, Crossed
    <3>2. CASE WasEligible(f)
      BY <3>2 DEF WasEligible, AdmittedAtHome
    <3> QED BY <2>2, <3>1, <3>2 DEF EligibleEvents
  <2>4. Crossed(f)' /\ MayList(f, m) /\ f = e
    BY <1>2, <2>2, <2>3, EnclosingIs, EverIs
  <2> QED BY <2>4
<1>7. CASE PruneStale /\ registry'[m] # registry[m]
  BY <1>7, PruneStaleIs, NoRowIs
<1>8. CASE PruneApi /\ registry'[m] # registry[m]
  BY <1>8, PruneApiIs, NoRowIs
<1> QED BY <1>4, <1>5, <1>6, <1>7, <1>8, RegistryChanges

(* The registry holds whole families and nothing else, and what it admits  *)
(* is served, whatever Gamma lists and wherever the jobs fail.             *)
THEOREM RegistryHoldsFamilies == Spec => [](TypeOK /\ FamilyIsWhole /\ NothingElse /\ AdmittedIsServed)
<1>1. InvO /\ InvR /\ [Next]_vars => (InvO /\ InvR)'
  BY NextObserves, NextRegisters
<1>2. Init => InvO /\ InvR
  BY InitObserves, InitRegisters
<1> QED BY <1>1, <1>2, RegistryHolds, PTL DEF Spec

(* And it admits no event that was not seen above the floor, where no      *)
(* market moves from one event to another.                                 *)
THEOREM RegistryStaysRight == OneHome => (Spec => []RegistryIsRight)
<1> SUFFICES ASSUME OneHome PROVE Spec => []RegistryIsRight
  OBVIOUS
<1> DEFINE I == InvO /\ InvR /\ AdmittedAtHome
<1>1. I /\ [Next]_vars => I'
  BY NextObserves, NextRegisters, NextIsAtHome
<1>2. Init => I
  BY InitObserves, InitRegisters
<1>3. I => RegistryIsRight
  <2>1. AdmittedAtHome => AdmittedCrossed
    BY DEF AdmittedAtHome, AdmittedCrossed, Admitted
  <2> QED BY <2>1, RegistryHolds DEF RegistryIsRight
<1> QED BY <1>1, <1>2, <1>3, PTL DEF Spec

(* A market once admitted stays admitted, provided that observations do    *)
(* not go back in time.                                                    *)
THEOREM AdmittedMarketsStay == ~Leftovers => (Spec => [][AdmittedMarkets \subseteq AdmittedMarkets']_vars)
<1> SUFFICES ASSUME ~Leftovers PROVE Spec => [][AdmittedMarkets \subseteq AdmittedMarkets']_vars
  OBVIOUS
<1> DEFINE I == InvO /\ Fresh /\ InvR
<1>1. I /\ [Next]_vars => I'
  BY NextObserves, NextIsFresh, NextRegisters
<1>2. Init => I
  BY InitObserves, InitRegisters
<1>3. I /\ [Next]_vars => [AdmittedMarkets \subseteq AdmittedMarkets']_vars
  BY EligibleRowStays DEF AdmittedMarkets, Fresh
<1> QED BY <1>1, <1>2, <1>3, PTL DEF Spec

(* So does an event with it, where no market moves from one to another.    *)
THEOREM EligibleEventsStay == ~Leftovers /\ OneHome => (Spec => EligibleStays)
<1> SUFFICES ASSUME ~Leftovers, OneHome PROVE Spec => EligibleStays
  OBVIOUS
<1> DEFINE I == InvO /\ Fresh /\ InvR /\ AdmittedAtHome
           A == Admitted \subseteq Admitted' /\ AdmittedMarkets \subseteq AdmittedMarkets'
<1>1. I /\ [Next]_vars => I'
  BY NextObserves, NextIsFresh, NextRegisters, NextIsAtHome
<1>2. Init => I
  BY InitObserves, InitRegisters
<1>3. I /\ [Next]_vars => [A]_vars
  <2> SUFFICES ASSUME I, [Next]_vars PROVE A
    OBVIOUS
  <2>1. \A m \in Markets : registry[m].eligible => registry'[m].eligible /\ registry'[m].event = registry[m].event
    <3> SUFFICES ASSUME NEW m \in Markets, registry[m].eligible
                 PROVE  registry'[m].eligible /\ registry'[m].event = registry[m].event
      OBVIOUS
    <3>1. m \notin Seeds /\ registry[m].event \in Events /\ MayList(registry[m].event, m)
      BY RowIs DEF InvR, RowIsRight, AdmittedAtHome
    <3> QED BY <3>1, EligibleRowStays DEF Fresh, OneHome
  <2>2. \A m \in Markets : registry[m].eligible => registry'[m].eligible
    BY <2>1
  <2> QED BY <2>1, <2>2 DEF Admitted, AdmittedMarkets
<1>4. (I /\ [][Next]_vars => []I) /\ ([]I /\ [][Next]_vars => [][A]_vars)
  BY <1>1, <1>3, PTL
<1> QED BY <1>2, <1>4, PTL DEF Spec, EligibleStays
=============================================================================
