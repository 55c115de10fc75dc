---------------------------- MODULE WalletCaches ----------------------------
(***************************************************************************)
(* What the API keeps of a wallet: its graph and its summary in Redis for  *)
(* a while, and the graph also in Postgres without an end                  *)
(* (wallet_graph_cache.go, wallet_graph_snapshot.go, wallet_summary.go).   *)
(* Readers fill them; whoever ingests transfers of the wallet, or scores   *)
(* it, deletes them after it has written, but for the graph that was asked *)
(* for with two hops.                                                      *)
(*                                                                         *)
(* The wallet's rows and relations are a number that grows with each       *)
(* write; an entry is the number its reader has seen.                      *)
(***************************************************************************)
EXTENDS Naturals

CONSTANTS
    Readers, Refreshers,    \* requests; ingests and signal runs
    MaxWrites,              \* bound: refreshes that write
    MaxCacheFailures        \* bound: failed calls

ASSUME CacheBoundsAssumption == MaxWrites \in Nat /\ MaxCacheFailures \in Nat

VARIABLES
    data,                   \* Postgres and Neo4j: the wallet's version
    cache,                  \* Redis: an entry or None for each key
    snapshot,               \* wallet_graph_snapshots: an entry or None
    reader,                 \* each request: its next call, its key, what it has loaded
    refresher,              \* each refresh: its next call
    cacheFailures,          \* bounded counter
    raced                   \* history: a request was filling while something was refreshed

cacheVars == <<data, cache, snapshot, reader, refresher, cacheFailures, raced>>

None == MaxWrites + 1
Versions == 0..MaxWrites
Entries == Versions \cup {None}

(* The keys of a wallet: its summary, and its graph asked for with one hop or two. *)
Keys == {"summary", "graph", "graph2"}

(* What is kept in Postgres is the graph that was resolved to one hop.  The API resolves *)
(* every request to one hop (repository/wallet_graph.go:42), so both keys' requests use  *)
(* the one row.                                                                          *)
IsCanonicalWalletGraphQuery(k) == k # "summary"

CachesInit ==
    /\ data = 0
    /\ cache = [k \in Keys |-> None] /\ snapshot = None
    /\ reader = [r \in Readers |-> [at |-> "idle", key |-> "graph", graph |-> None]]
    /\ refresher = [p \in Refreshers |-> "idle"]
    /\ cacheFailures = 0
    /\ raced = FALSE

Reads(r, label, graph) ==
    reader' = [reader EXCEPT ![r] = [@ EXCEPT !.at = label, !.graph = graph]]

Filling == \E r \in Readers : reader[r].at # "idle"
Refreshing == \E p \in Refreshers : refresher[p] # "idle"
-----------------------------------------------------------------------------
(* A request looks into Redis; an entry there is its answer. *)
Get(r, k) ==
    /\ reader[r].at = "idle" /\ cache[k] = None
    /\ reader' = [reader EXCEPT ![r] =
                     [at |-> IF IsCanonicalWalletGraphQuery(k) THEN "snapshot" ELSE "load",
                      key |-> k, graph |-> None]]
    /\ raced' = (raced \/ Refreshing)
    /\ UNCHANGED <<data, cache, snapshot, refresher, cacheFailures>>

(* ReadWalletGraphSnapshot: a row goes into Redis again, for another TTL. *)
ReadSnapshot(r) ==
    /\ reader[r].at = "snapshot"
    /\ IF snapshot = None THEN Reads(r, "load", None) ELSE Reads(r, "set", snapshot)
    /\ UNCHANGED <<data, cache, snapshot, refresher, cacheFailures, raced>>

(* The loaders below: Neo4j and Postgres. *)
Load(r) ==
    /\ reader[r].at = "load"
    /\ Reads(r, IF IsCanonicalWalletGraphQuery(reader[r].key) THEN "upsert" ELSE "set", data)
    /\ UNCHANGED <<data, cache, snapshot, refresher, cacheFailures, raced>>

UpsertSnapshot(r) ==
    /\ reader[r].at = "upsert"
    /\ snapshot' = reader[r].graph
    /\ Reads(r, "set", reader[r].graph)
    /\ UNCHANGED <<data, cache, refresher, cacheFailures, raced>>

SetCache(r) ==
    /\ reader[r].at = "set"
    /\ cache' = [cache EXCEPT ![reader[r].key] = reader[r].graph]
    /\ Reads(r, "idle", None)
    /\ UNCHANGED <<data, snapshot, refresher, cacheFailures, raced>>

ReaderFails(r) ==
    /\ reader[r].at # "idle" /\ cacheFailures < MaxCacheFailures
    /\ cacheFailures' = cacheFailures + 1
    /\ Reads(r, "idle", None)
    /\ UNCHANGED <<data, cache, snapshot, refresher, raced>>

(* A TTL ends. *)
Expire(k) ==
    /\ cache[k] # None
    /\ cache' = [cache EXCEPT ![k] = None]
    /\ UNCHANGED <<data, snapshot, reader, refresher, cacheFailures, raced>>
-----------------------------------------------------------------------------
(* Transfers of the wallet are written. *)
WriteTransfers(p) ==
    /\ refresher[p] = "idle" /\ data < MaxWrites
    /\ data' = data + 1
    /\ refresher' = [refresher EXCEPT ![p] = "summary"]
    /\ raced' = (raced \/ Filling)
    /\ UNCHANGED <<cache, snapshot, reader, cacheFailures>>

Deletes(p, k, label) ==
    /\ cache' = [cache EXCEPT ![k] = None]
    /\ refresher' = [refresher EXCEPT ![p] = label]

(* InvalidateWalletSummaryCache *)
DeleteSummary(p) ==
    /\ refresher[p] = "summary"
    /\ Deletes(p, "summary", "graph")
    /\ UNCHANGED <<data, snapshot, reader, cacheFailures, raced>>

(* Mutant of DeleteGraph: the row in Postgres is left. *)
DeleteGraphOnly(p) ==
    /\ refresher[p] = "graph"
    /\ Deletes(p, "graph", "idle")
    /\ UNCHANGED <<data, snapshot, reader, cacheFailures, raced>>

(* InvalidateWalletGraphSnapshot: the key of one hop, not that of two, and then the row. *)
DeleteGraph(p) ==
    /\ refresher[p] = "graph"
    /\ Deletes(p, "graph", "snapshot")
    /\ UNCHANGED <<data, snapshot, reader, cacheFailures, raced>>

DeleteSnapshot(p) ==
    /\ refresher[p] = "snapshot"
    /\ snapshot' = None
    /\ refresher' = [refresher EXCEPT ![p] = "idle"]
    /\ UNCHANGED <<data, cache, reader, cacheFailures, raced>>

(* A call fails: the ingest ends with an error, its writes stay. *)
RefreshFails(p) ==
    /\ refresher[p] # "idle" /\ cacheFailures < MaxCacheFailures
    /\ cacheFailures' = cacheFailures + 1
    /\ refresher' = [refresher EXCEPT ![p] = "idle"]
    /\ UNCHANGED <<data, cache, snapshot, reader, raced>>
-----------------------------------------------------------------------------
ReaderStep(r) == ReadSnapshot(r) \/ Load(r) \/ UpsertSnapshot(r) \/ SetCache(r)
RefreshStep(p) == DeleteSummary(p) \/ DeleteGraph(p) \/ DeleteSnapshot(p)

CachesNext ==
    \/ \E r \in Readers : (\E k \in Keys : Get(r, k)) \/ ReaderStep(r) \/ ReaderFails(r)
    \/ \E k \in Keys : Expire(k)
    \/ \E p \in Refreshers : WriteTransfers(p) \/ RefreshStep(p) \/ RefreshFails(p)

CachesSpec == CachesInit /\ [][CachesNext]_cacheVars

(* Requests and refreshes go on once begun and entries expire; nobody has to ask. *)
CachesFairness ==
    /\ \A r \in Readers : WF_cacheVars(ReaderStep(r))
    /\ \A p \in Refreshers : WF_cacheVars(RefreshStep(p))
    /\ \A k \in Keys : WF_cacheVars(Expire(k))

CachesFairSpec == CachesSpec /\ CachesFairness
-----------------------------------------------------------------------------
CachesTypeOK ==
    /\ data \in Versions
    /\ cache \in [Keys -> Entries] /\ snapshot \in Entries
    /\ reader \in [Readers -> [at : {"idle", "snapshot", "load", "upsert", "set"},
                               key : Keys, graph : Entries]]
    /\ refresher \in [Refreshers -> {"idle", "summary", "graph", "snapshot"}]
    /\ cacheFailures \in 0..MaxCacheFailures
    /\ raced \in BOOLEAN

Older(entry) == entry # None /\ entry # data

(* docs/runbooks/launch-gates.md:112, a refresh comes with the invalidation of both *)
(* caches.  It leaves no older summary, one-hop graph or snapshot, unless a call    *)
(* failed or a request was between its look into Redis and its entry there: that    *)
(* request may put back what it has loaded before.  The graph under the key of two  *)
(* hops stays as it was.                                                            *)
FreshUnlessRaced ==
    Older(cache["summary"]) \/ Older(cache["graph"]) \/ Older(snapshot)
       => Refreshing \/ raced \/ cacheFailures > 0

(* What no refresh deletes, or what a racing request puts back, is served no longer *)
(* than its TTL, but where the row in Postgres is older too: from there a graph is  *)
(* filled again with the older version under either key.                            *)
OthersCatchUp == <>[](\A k \in Keys : Older(cache[k]) => k # "summary" /\ Older(snapshot))
=============================================================================
