----------------------------- MODULE Enrichment -----------------------------
(***************************************************************************)
(* What Moralis tells of an EVM wallet (providers/moralis_client.go): its  *)
(* net worth, chains and holdings, kept in a Redis key for 15 minutes and  *)
(* in a Postgres row for good (moralis_enrichment.go,                      *)
(* wallet_enrichment_snapshot.go), and shown in the wallet's summary, which*)
(* is itself cached.  Requests for the summary, ingests and the refresh    *)
(* worker fetch it; nothing keeps them apart.                              *)
(*                                                                         *)
(* A fact is the version it was fetched at, 0 when it is missing.          *)
(***************************************************************************)
EXTENDS Naturals, FiniteSets

CONSTANTS
    Enrichers,              \* calls of EnrichWalletSummary
    Facts,                  \* net worth, chains, holdings
    NoEnrichment,           \* a model value: nil
    Uncached,               \* a model value: no summary in Redis
    MaxVersion,             \* bound: changes of the wallet
    MaxEnrichments,         \* bound
    MaxEnrichFailures       \* bound

ASSUME FactsAssumption == IsFiniteSet(Facts) /\ NoEnrichment \notin Enrichers
ASSUME EnrichBoundsAssumption ==
    MaxVersion \in Nat \ {0} /\ MaxEnrichments \in Nat /\ MaxEnrichFailures \in Nat

VARIABLES
    version,                \* of the wallet, at Moralis
    cachedFacts,            \* Redis: moralis-wallet-enrichment
    snapshot,               \* Postgres: wallet_enrichment_snapshots
    summary,                \* Redis: the enrichment in the cached wallet summary
    enricher,               \* each call: what it awaits, found and fetched
    enrichments, enrichFailures,    \* bounded counters
    clean,                  \* history: the call that writes with no other under way
    agreed,                 \* history: such a call ended, and none wrote since
    raced                   \* history: a summary was stored of an older row

enrichVars == <<version, cachedFacts, snapshot, summary, enricher, enrichments, enrichFailures, clean, agreed, raced>>

Fetched == [Facts -> 0..MaxVersion]
Nothing == [f \in Facts |-> 0]
NoCall == [at |-> "idle", worker |-> FALSE, has |-> NoEnrichment, got |-> Nothing, todo |-> {}]

Writing == {"set", "upsert", "invalidate"}
Others(e) == {d \in Enrichers \ {e} : enricher[d].at \in Writing}

EnrichInit ==
    /\ version = 1
    /\ cachedFacts = NoEnrichment /\ snapshot = NoEnrichment /\ summary = Uncached
    /\ enricher = [e \in Enrichers |-> NoCall]
    /\ enrichments = 0 /\ enrichFailures = 0
    /\ clean = NoEnrichment /\ agreed = TRUE /\ raced = FALSE

Awaits(e, label) == enricher' = [enricher EXCEPT ![e].at = label]
Ends(e) == enricher' = [enricher EXCEPT ![e] = NoCall]
-----------------------------------------------------------------------------
(* A worker asks with an empty summary (RunRefresh, refreshWalletEnrichment); a request
   with the one it reads. *)
Ask(e, worker) ==
    /\ enricher[e].at = "idle" /\ enrichments < MaxEnrichments
    /\ enrichments' = enrichments + 1
    /\ enricher' = [enricher EXCEPT ![e] =
                        [NoCall EXCEPT !.worker = worker, !.at = IF worker THEN "cache" ELSE "summary"]]
    /\ UNCHANGED <<version, cachedFacts, snapshot, summary, enrichFailures, clean, agreed, raced>>

GetSummary(e) ==
    /\ enricher[e].at = "summary"
    /\ enricher' = [enricher EXCEPT ![e].at = IF summary = Uncached THEN "row" ELSE "cache",
                                    ![e].has = IF summary = Uncached THEN @ ELSE summary]
    /\ UNCHANGED <<version, cachedFacts, snapshot, summary, enrichments, enrichFailures, clean, agreed, raced>>

ReadWalletEnrichmentSnapshot(e) ==
    /\ enricher[e].at = "row"
    /\ enricher' = [enricher EXCEPT ![e].at = "store", ![e].has = snapshot]
    /\ UNCHANGED <<version, cachedFacts, snapshot, summary, enrichments, enrichFailures, clean, agreed, raced>>

StoreSummary(e) ==
    /\ enricher[e].at = "store"
    /\ summary' = enricher[e].has
    /\ raced' = (raced \/ enricher[e].has # snapshot)
    /\ Awaits(e, "cache")
    /\ UNCHANGED <<version, cachedFacts, snapshot, enrichments, enrichFailures, clean, agreed>>

(* What is cached is shown; then what the summary has, however old. *)
GetWalletEnrichment(e) ==
    /\ enricher[e].at = "cache"
    /\ IF cachedFacts # NoEnrichment \/ enricher[e].has # NoEnrichment
       THEN Ends(e)
       ELSE enricher' = [enricher EXCEPT ![e].at = "fetch", ![e].todo = Facts]
    /\ UNCHANGED <<version, cachedFacts, snapshot, summary, enrichments, enrichFailures, clean, agreed, raced>>
-----------------------------------------------------------------------------
(* All three failed, or nothing was told: no enrichment (FetchWalletEnrichment, ToDomain). *)
Worth(got) == got # Nothing

FetchFact(e, f, got) ==
    /\ enricher[e].at = "fetch" /\ f \in enricher[e].todo
    /\ LET facts == [enricher[e].got EXCEPT ![f] = got]
           todo == enricher[e].todo \ {f}
       IN  IF todo = {} /\ ~Worth(facts) THEN Ends(e)
           ELSE enricher' = [enricher EXCEPT ![e].got = facts, ![e].todo = todo,
                                             ![e].at = IF todo = {} THEN "set" ELSE @]
    /\ UNCHANGED <<version, cachedFacts, snapshot, summary, enrichments, clean, agreed, raced>>

FetchSucceeds(e, f) == FetchFact(e, f, version) /\ UNCHANGED enrichFailures

FetchFails(e, f) ==
    /\ enrichFailures < MaxEnrichFailures
    /\ enrichFailures' = enrichFailures + 1
    /\ FetchFact(e, f, 0)

SetWalletEnrichment(e) ==
    /\ enricher[e].at = "set"
    /\ cachedFacts' = enricher[e].got
    /\ clean' = IF Others(e) = {} THEN e ELSE NoEnrichment
    /\ agreed' = FALSE
    /\ Awaits(e, "upsert")
    /\ UNCHANGED <<version, snapshot, summary, enrichments, enrichFailures, raced>>

(* Mutant of WriteRow: a row that is there is left. *)
WriteRowOnce(e) == snapshot' = IF snapshot = NoEnrichment THEN enricher[e].got ELSE snapshot

WriteRow(e) == snapshot' = enricher[e].got

UpsertWalletEnrichmentSnapshot(e) ==
    /\ enricher[e].at = "upsert"
    /\ WriteRow(e)
    /\ Awaits(e, "invalidate")
    /\ UNCHANGED <<version, cachedFacts, summary, enrichments, enrichFailures, clean, agreed, raced>>

(* InvalidateWalletSummaryCache *)
Invalidate(e) ==
    /\ enricher[e].at = "invalidate"
    /\ summary' = Uncached
    /\ raced' = FALSE
    /\ agreed' = (clean = e)
    /\ Ends(e)
    /\ UNCHANGED <<version, cachedFacts, snapshot, enrichments, enrichFailures, clean>>

(* A call fails; what it wrote stays. *)
EnricherFails(e) ==
    /\ enricher[e].at \in {"summary", "row", "store", "cache"} \cup Writing
    /\ enrichFailures < MaxEnrichFailures
    /\ enrichFailures' = enrichFailures + 1
    /\ Ends(e)
    /\ UNCHANGED <<version, cachedFacts, snapshot, summary, enrichments, clean, agreed, raced>>

FactsChange ==
    /\ version < MaxVersion
    /\ version' = version + 1
    /\ UNCHANGED <<cachedFacts, snapshot, summary, enricher, enrichments, enrichFailures, clean, agreed, raced>>

FactsExpire ==
    /\ cachedFacts' = NoEnrichment
    /\ UNCHANGED <<version, snapshot, summary, enricher, enrichments, enrichFailures, clean, agreed, raced>>

SummaryExpires ==
    /\ summary' = Uncached /\ raced' = FALSE
    /\ UNCHANGED <<version, cachedFacts, snapshot, enricher, enrichments, enrichFailures, clean, agreed>>
-----------------------------------------------------------------------------
EnricherStep(e) ==
    \/ GetSummary(e) \/ ReadWalletEnrichmentSnapshot(e) \/ StoreSummary(e) \/ GetWalletEnrichment(e)
    \/ \E f \in Facts : FetchSucceeds(e, f) \/ FetchFails(e, f)
    \/ SetWalletEnrichment(e) \/ UpsertWalletEnrichmentSnapshot(e) \/ Invalidate(e)

EnrichNext ==
    \/ \E e \in Enrichers : EnricherStep(e) \/ EnricherFails(e) \/ \E worker \in BOOLEAN : Ask(e, worker)
    \/ FactsChange \/ FactsExpire \/ SummaryExpires

EnrichSpec == EnrichInit /\ [][EnrichNext]_enrichVars
-----------------------------------------------------------------------------
EnrichTypeOK ==
    /\ version \in 1..MaxVersion
    /\ cachedFacts \in Fetched \cup {NoEnrichment} /\ snapshot \in Fetched \cup {NoEnrichment}
    /\ summary \in Fetched \cup {NoEnrichment, Uncached}
    /\ \A e \in Enrichers : enricher[e].got \in Fetched /\ enricher[e].todo \subseteq Facts
    /\ enrichments \in 0..MaxEnrichments /\ enrichFailures \in 0..MaxEnrichFailures

(* After a call that fetched and wrote with no other under way, and whatever failed before
   it, the row is what the key holds, and a cached summary is of that row, unless it was
   read before the row was written and stored after.  What is kept lacks a fact only
   because its request failed, and is never nothing. *)
EnrichmentAgrees ==
    /\ agreed => /\ cachedFacts \in {NoEnrichment, snapshot}
                 /\ raced \/ summary \in {Uncached, snapshot}
    /\ \A kept \in {cachedFacts, snapshot} \ {NoEnrichment} :
          kept # Nothing /\ Cardinality({f \in Facts : kept[f] = 0}) <= enrichFailures
=============================================================================
