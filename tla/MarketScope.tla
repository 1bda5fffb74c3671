------------------------------ MODULE MarketScope ------------------------------
(***************************************************************************)
(* The market scope of a job: raw markets collected from the events API,   *)
(* the event catalog, the registry that admits whole events by volume, the *)
(* raw markets and tokens materialised from the catalog, and the           *)
(* enrichment of what they lack.  The assets run in this order; every      *)
(* statement commits by itself and the job may fail between any two.       *)
(***************************************************************************)
EXTENDS EventCatalog

CONSTANTS
  Scope,         \* events with a tag of the scope's allowlist
  Seeds,         \* market_ids of the scope's configuration
  Tokenised      \* markets whose payload has clobTokenIds

ASSUME ScopeAssumption == Scope \subseteq Range(Listing) /\ Seeds \subseteq Markets /\ Tokenised \subseteq Markets

VARIABLES
  config,        \* root run -> [gated, forced]
  registry,      \* market_scope_registry: market -> row
  active,        \* the markets the refresh admits, until it has pruned
  collected,     \* the markets an asset has in hand to load
  rawMarkets,    \* markets with a row in the raw table
  tokens,        \* markets with a row in market_tokens
  checked        \* the ledger: metadata enrichment is fully checked

scope == <<config, registry, active, collected, rawMarkets, tokens, checked>>
vars  == <<gamma, pc, run, catalog, scope>>

NoRow == [event |-> None, source |-> None, eligible |-> FALSE]
Rows  == [event : Events \cup {None}, source : {"seed", "events_api", "event_catalog"},
          eligible : BOOLEAN]

------------------------------------------------------------------------------
(* The registry table *)

EligibleAnew(old, new) == new.eligible

(* The upsert of one row: what is known of the market is kept, the source is
   the last one, and eligibility is never taken back. *)
Eligible(old, new) == old.eligible \/ new.eligible

Upsert(table, rows) == [m \in Markets |->
  IF m \notin DOMAIN rows THEN table[m]
  ELSE [event    |-> IF rows[m].event = None THEN table[m].event ELSE rows[m].event,
        source   |-> rows[m].source,
        eligible |-> Eligible(table[m], rows[m])]]

SeedRows == [m \in Seeds |-> [event |-> None, source |-> "seed", eligible |-> FALSE]]

(* The row of a market in a scan of the events API is of the first event that
   lists it; it says nothing of eligibility. *)
Listed(events) == UNION {Content(e, Now).markets : e \in events}

FirstEvent(events, m) ==
  Listing[CHOOSE i \in DOMAIN Listing :
            /\ Listing[i] \in events /\ m \in Content(Listing[i], Now).markets
            /\ \A j \in 1..(i - 1) : ~(Listing[j] \in events /\ m \in Content(Listing[j], Now).markets)]

ApiRows(events) == [m \in Listed(events) |->
  [event |-> FirstEvent(events, m), source |-> "events_api", eligible |-> FALSE]]

(* The crawl of the events API: all events in scope, or those of the pages
   read before it was truncated. *)
Crawled == {Scope} \cup {Scope \cap {Listing[i] : i \in 1..n} : n \in DOMAIN Listing}

------------------------------------------------------------------------------
(* Raw markets *)

(* collect_market_scope_payload with refresh_registry: the registry is
   upserted before anything is landed. *)
CollectRaw ==
  /\ pc = "raw"
  /\ \E events \in Crawled :
       /\ registry' = Upsert(registry, Merge(SeedRows, ApiRows(events)))
       /\ collected' = Listed(events)
  /\ pc' = "rawLoad"
  /\ UNCHANGED <<gamma, run, catalog, config, active, rawMarkets, tokens, checked>>

Loaded == collected

(* The dlt run, then the tokens; of the raw asset and of the refresh. *)
Load(from, to) ==
  /\ pc = from
  /\ rawMarkets' = rawMarkets \cup collected
  /\ collected' = Loaded
  /\ pc' = to
  /\ UNCHANGED <<gamma, run, catalog, config, registry, active, tokens, checked>>

SaveTokens(from, to) ==
  /\ pc = from
  /\ tokens' = tokens \cup (collected \cap Tokenised)
  /\ collected' = {}
  /\ pc' = to /\ step' = to
  /\ UNCHANGED <<gamma, root, retries, roots, faults, began, catalog, config, registry, active,
                 rawMarkets, checked>>

------------------------------------------------------------------------------
(* The registry asset *)

(* The latest observation of an event, and of a market related to it. *)
LastOf(S) == IF S = {} THEN 0 ELSE Max(S)
LatestEvent(e)   == LastOf({i \in DOMAIN snapshots : e \in DOMAIN snapshots[i]})
LatestPair(r, m) == LastOf({i \in DOMAIN snapshots : Bridged(snapshots[i], r, m)})

Big(e) == LatestEvent(e) # 0 /\ Content(e, snapshots[LatestEvent(e)][e]).big

WasEligible(e) == \E m \in Markets : registry[m].event = e /\ registry[m].eligible

EligibleEvents == {e \in Events : LatestEvent(e) # 0 /\ (WasEligible(e) \/ Big(e))}

(* is_enclosing_event of a pair: the market was in that event's own payload. *)
IsEnclosing(e, m) == LatestPair(e, m) # 0 /\ Encloses(snapshots[LatestPair(e, m)], e, m)

Newest(pairs, m) == {e \in pairs : \A f \in pairs : LatestPair(f, m) <= LatestPair(e, m)}

VetoedByRelated(eligible, m) ==
  LET newest == Newest({e \in eligible : LatestPair(e, m) # 0}, m)
  IN IF \A e \in newest : IsEnclosing(e, m) THEN newest ELSE {}

(* The eligible events that enclose a market, of those the newest pair. *)
Enclosing(eligible, m) == Newest({e \in eligible : IsEnclosing(e, m)}, m)

(* refresh_registry_from_event_catalog: the rows of the eligible events, and
   the seeds, which come first where both name a market. *)
Admit ==
  /\ pc = "registry" /\ config[root].gated
  /\ LET eligible == EligibleEvents
         owners   == [m \in Markets |-> Enclosing(eligible, m)]
         enclosed == {m \in Markets : owners[m] # {}}
     IN \E owner \in {o \in [enclosed -> Events] : \A m \in enclosed : o[m] \in owners[m]} :
          /\ registry' = Upsert(registry, Merge(
               [m \in enclosed |-> [event |-> owner[m], source |-> "event_catalog", eligible |-> TRUE]],
               SeedRows))
          /\ active' = enclosed \ Seeds
  /\ pc' = "prune"
  /\ UNCHANGED <<gamma, run, catalog, config, collected, rawMarkets, tokens, checked>>

(* Without the volume gate the registry is refreshed from the events API. *)
RefreshUngated ==
  /\ pc = "registry" /\ ~config[root].gated
  /\ \E events \in Crawled : registry' = Upsert(registry, Merge(SeedRows, ApiRows(events)))
  /\ pc' = "enrich" /\ step' = "enrich"
  /\ UNCHANGED <<gamma, root, retries, roots, faults, began, catalog, config, active, collected,
                 rawMarkets, tokens, checked>>

Without(rows) == [m \in Markets |-> IF m \in rows THEN NoRow ELSE registry[m]]

PruneStale ==
  /\ pc = "prune"
  /\ registry' = Without({m \in Markets : registry[m].source = "event_catalog" /\ m \notin active})
  /\ active' = {}
  /\ pc' = "pruneApi"
  /\ UNCHANGED <<gamma, run, catalog, config, collected, rawMarkets, tokens, checked>>

IneligibleApi == {m \in Markets : registry[m].source = "events_api" /\ ~registry[m].eligible}

PruneApi ==
  /\ pc = "pruneApi"
  /\ registry' = Without(IneligibleApi)
  /\ pc' = "materialize"
  /\ UNCHANGED <<gamma, run, catalog, config, active, collected, rawMarkets, tokens, checked>>

(* The markets an observation has a payload of. *)
PayloadsOf(obs) == UNION {Content(e, obs[e]).markets : e \in DOMAIN obs}

Payloads == UNION {PayloadsOf(snapshots[i]) : i \in DOMAIN snapshots}

(* materialize_registry_markets_from_event_catalog: the eligible rows that
   have a payload, of their latest. *)
Materialize ==
  /\ pc = "materialize"
  /\ collected' = {m \in Payloads : registry[m].eligible}
  /\ pc' = "registryLoad"
  /\ UNCHANGED <<gamma, run, catalog, config, registry, active, rawMarkets, tokens, checked>>

------------------------------------------------------------------------------
(* Enrichment *)

Missing == {m \in rawMarkets : m \notin tokens /\ registry[m].source # None}

Failed(lost) == lost # {}

(* enrich_market_metadata: what Gamma answers with tokens is saved, what it
   does not return counts as processed; a batch that fails is lost and keeps
   the ledger open. *)
Enrich ==
  /\ pc = "enrich"
  /\ IF checked /\ ~config[root].forced
     THEN UNCHANGED <<tokens, checked>>
     ELSE \E lost \in {{}, Missing} :
            /\ tokens' = tokens \cup ((Missing \ lost) \cap Tokenised)
            /\ checked' = ~Failed(lost)
  /\ pc' = "orphans"
  /\ UNCHANGED <<gamma, run, catalog, config, registry, active, collected, rawMarkets>>

DeleteOrphans ==
  /\ pc = "orphans"
  /\ tokens' = tokens \cap rawMarkets
  /\ pc' = "idle"
  /\ UNCHANGED <<gamma, run, catalog, config, registry, active, collected, rawMarkets, checked>>

------------------------------------------------------------------------------
ScopeInit ==
  /\ config = <<>>
  /\ registry = [m \in Markets |-> NoRow] /\ active = {} /\ collected = {}
  /\ rawMarkets = {} /\ tokens = {} /\ checked = FALSE

Init == CatalogInit /\ ScopeInit

(* The full pipeline is gated and forces enrichment; the match-minute job is
   neither. *)
Begin == /\ StartRun
         /\ \E full \in BOOLEAN : config' = Append(config, [gated |-> full, forced |-> full])
         /\ UNCHANGED <<registry, active, collected, rawMarkets, tokens, checked>>

FailJob == Fail /\ active' = {} /\ collected' = {}
           /\ UNCHANGED <<config, registry, rawMarkets, tokens, checked>>

Job ==
  \/ CatalogNext /\ UNCHANGED scope
  \/ CollectRaw \/ Load("rawLoad", "rawTokens") \/ SaveTokens("rawTokens", "catalog")
  \/ Admit \/ RefreshUngated \/ PruneStale \/ PruneApi \/ Materialize
  \/ Load("registryLoad", "registryTokens") \/ SaveTokens("registryTokens", "enrich")
  \/ Enrich \/ DeleteOrphans
  \/ FailJob
  \/ (Retry \/ GiveUp) /\ UNCHANGED scope

Next ==
  \/ Job
  \/ Begin
  \/ (\E r \in 1..Roots : Reexecute(r)) /\ UNCHANGED scope
  \/ GammaMoves /\ UNCHANGED scope

Spec == Init /\ [][Next]_vars /\ WF_vars(Job)

------------------------------------------------------------------------------
TypeOK ==
  /\ registry \in [Markets -> Rows \cup {NoRow}]
  /\ active \cup collected \cup rawMarkets \cup tokens \subseteq Markets
  /\ checked \in BOOLEAN
  /\ \A k \in DOMAIN checkpoints : k \in (1..Roots) \X (1..Len(Partitions))
  /\ pc \in {"idle", "failed", "raw", "rawLoad", "rawTokens", "catalog", "scan", "fetch", "merge",
             "clear", "registry", "prune", "pruneApi", "materialize", "registryLoad",
             "registryTokens", "enrich", "orphans"}

Admitted == {registry[m].event : m \in {x \in Markets : registry[x].eligible}} \ {None}

Crossed(e) == \E i \in DOMAIN snapshots : e \in DOMAIN snapshots[i] /\ Content(e, snapshots[i][e]).big

(* An event is admitted only if an observation saw it cross the floor. *)
AdmittedCrossed == \A e \in Admitted : Crossed(e)

(* Once an event crosses the floor it remains admitted, with every market   *)
(* admitted under it, even if later snapshots report lower lifetime volume.  *)
AdmittedMarkets == {m \in Markets : registry[m].eligible}

EligibleStays == [][Admitted \subseteq Admitted' /\ AdmittedMarkets \subseteq AdmittedMarkets']_vars

(* After a gated refresh every market an admitted event encloses is admitted,
   whatever other events it is related to and whatever failed before; a seed
   is registered as one all the same. *)
FamilyIsWhole ==
  pc = "materialize" =>
    \A e \in Admitted : \A m \in Markets \ Seeds : IsEnclosing(e, m) => registry[m].eligible

(* After a gated refresh the registry admits nothing but markets with a
   payload and seeds: what the events API listed below the floor is gone. *)
NothingElse ==
  pc = "materialize" => \A m \in Markets :
    registry[m] = NoRow \/ m \in Seeds \/ (registry[m].eligible /\ m \in Payloads)

(* When the registry asset is done each admitted market is in the raw table
   and, if its payload has tokens, in the token table. *)
AdmittedIsServed ==
  pc = "enrich" /\ config[root].gated =>
    \A m \in Payloads : registry[m].eligible => m \in rawMarkets /\ (m \in Tokenised => m \in tokens)

(* Every job ends, whatever Gamma does while it is read. *)
JobEnds == []<>(pc = "idle")

(* The registry admits what it should and no more: events seen above the
   floor, with all they enclose, seeds, and every one of them with its data. *)
RegistryIsRight ==
  TypeOK /\ AdmittedCrossed /\ FamilyIsWhole /\ NothingElse /\ AdmittedIsServed
=============================================================================
