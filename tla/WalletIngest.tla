---------------------------- MODULE WalletIngest ----------------------------
(***************************************************************************)
(* How a wallet's transactions reach Postgres, its daily statistics and    *)
(* the Neo4j graph.  Provider webhooks (webhook_ingest_db.go) and backfill *)
(* jobs (runBatchIngest of backfill.go) carry the same transactions, run   *)
(* at the same time in different processes, and keep out of each other's   *)
(* way only by deduplication keys in Redis (ingest_dedup.go): a key is     *)
(* claimed before the first write and released when a later step fails.    *)
(*                                                                         *)
(* A transaction is one canonical key: chain, hash and wallet.             *)
(***************************************************************************)
EXTENDS Integers, Sequences, FiniteSets

CONSTANTS
    Txs,                \* transactions of one wallet
    Webhooks, Jobs,     \* webhook deliveries, queued backfill jobs
    Items,              \* the transactions each carries, in order
    Failures,           \* kinds of failure: "step", "redis", "cancel", "crash"
    MaxFailures,        \* bound: failures
    MaxRedeliveries     \* bound: repeated deliveries of an accepted webhook

Batches == Webhooks \cup Jobs

ASSUME BatchAssumption == /\ Webhooks \cap Jobs = {}
                          /\ Items \in [Batches -> Seq(Txs)]
                          /\ \A b \in Batches : Items[b] # <<>>
ASSUME FailureAssumption == Failures \subseteq {"step", "redis", "cancel", "crash"}
ASSUME BoundsAssumption == MaxFailures \in Nat /\ MaxRedeliveries \in Nat

VARIABLES
    claimed,            \* Redis: transactions whose key is set
    stored,             \* Postgres: rows of transactions
    stats,              \* Postgres: transactions that wallet_daily_stats counts
    graph,              \* Neo4j: how often a transaction is in interactionCount
    pc, at, mine,       \* each batch: awaited call, position, claimedKeys
    seen,               \* each batch: the rows that its refresh of the statistics read
    expired,            \* batches that release with a cancelled context
    failures, redeliveries, \* bounded counters
    abandoned,          \* history: transactions whose keys a batch left behind
    overwritten         \* history: transactions that an older refresh took out of stats

stores == <<claimed, stored, stats, graph, overwritten>>
counters == <<failures, redeliveries>>
vars == <<claimed, stored, stats, graph, pc, at, mine, seen, expired, failures,
          redeliveries, abandoned, overwritten>>
-----------------------------------------------------------------------------
Running == {"claim", "upsert", "stats", "overwrite", "graph", "expand", "finish", "release"}
Labels == {"waiting", "done", "dropped"} \cup Running

Carries(b) == {Items[b][i] : i \in DOMAIN Items[b]}

(* The transaction that b's call is about: of the payload, or of those it claimed. *)
Current(b) == IF pc[b] = "claim" THEN Items[b][at[b]] ELSE mine[b][at[b]]

(* The keys b has claimed and not yet released. *)
Holds(b) == {mine[b][i] : i \in {k \in DOMAIN mine[b] : pc[b] = "release" => k >= at[b]}}

(* What the call of b does to the stores.  An upsert is idempotent; the graph's
   counters are not.  The statistics are computed again from the rows that the
   statement saw when it began, and it updates the days that have such rows: of the
   transactions it did not see, those that share or follow these days are lost. *)
Applied(b) ==
    /\ claimed' = IF pc[b] = "claim" THEN claimed \cup {Current(b)}
                  ELSE IF pc[b] = "release" THEN claimed \ {Current(b)} ELSE claimed
    /\ stored' = IF pc[b] = "upsert" THEN stored \cup {Current(b)} ELSE stored
    /\ IF pc[b] = "overwrite"
       THEN \E lost \in SUBSET (stats \ seen[b]) :
               /\ stats' = (stats \cup seen[b]) \ lost
               /\ overwritten' = overwritten \cup lost
       ELSE UNCHANGED <<stats, overwritten>>
    /\ graph' = IF pc[b] = "graph" THEN [graph EXCEPT ![Current(b)] = @ + 1] ELSE graph

Goto(b, label) ==
    /\ pc' = [pc EXCEPT ![b] = label]
    /\ at' = [at EXCEPT ![b] = 1]

(* Mutant of Loop: the index runs past the last key. *)
LoopPast(b, length, label) ==
    IF at[b] <= length
    THEN at' = [at EXCEPT ![b] = @ + 1] /\ UNCHANGED pc
    ELSE Goto(b, label)

(* The loop goes on to its next element, or to what follows the loop. *)
Loop(b, length, label) ==
    IF at[b] < length
    THEN at' = [at EXCEPT ![b] = @ + 1] /\ UNCHANGED pc
    ELSE Goto(b, label)

(* What follows the claims: a webhook without a new transaction writes nothing. *)
AfterClaims(b, keys) ==
    IF keys # <<>> THEN "upsert" ELSE IF b \in Webhooks THEN "finish" ELSE "expand"
AfterGraph(b) == IF b \in Webhooks THEN "finish" ELSE "expand"
-----------------------------------------------------------------------------
Init ==
    /\ claimed = {} /\ stored = {} /\ stats = {}
    /\ graph = [x \in Txs |-> 0]
    /\ pc = [b \in Batches |-> "waiting"]
    /\ at = [b \in Batches |-> 1]
    /\ mine = [b \in Batches |-> <<>>]
    /\ seen = [b \in Batches |-> {}]
    /\ expired = {}
    /\ failures = 0 /\ redeliveries = 0
    /\ abandoned = {} /\ overwritten = {}

(* A webhook is delivered, or a worker takes the job; raw payloads, entities and
   labels are stored, and for a job the provider is asked, before the first claim. *)
Begin(b) ==
    /\ pc[b] = "waiting"
    /\ Goto(b, "claim")
    /\ UNCHANGED <<stores, mine, seen, expired, counters, abandoned>>

(* Mutant of Claim: the key's absence is not checked by the call that sets it. *)
ClaimUnchecked(b) ==
    /\ pc[b] = "claim"
    /\ Applied(b)
    /\ mine' = [mine EXCEPT ![b] = Append(@, Current(b))]
    /\ Loop(b, Len(Items[b]), AfterClaims(b, mine'[b]))
    /\ UNCHANGED <<seen, expired, counters, abandoned>>

(* SETNX: a transaction whose key is set is skipped as a duplicate. *)
Claim(b) ==
    /\ pc[b] = "claim"
    /\ Applied(b)
    /\ mine' = [mine EXCEPT ![b] =
                   IF Current(b) \in claimed THEN @ ELSE Append(@, Current(b))]
    /\ Loop(b, Len(Items[b]), AfterClaims(b, mine'[b]))
    /\ UNCHANGED <<seen, expired, counters, abandoned>>

Upsert(b) ==
    /\ pc[b] = "upsert"
    /\ Applied(b)
    /\ Loop(b, Len(mine[b]), "stats")
    /\ UNCHANGED <<seen, mine, expired, counters, abandoned>>

(* One statement reads the wallet's rows and then writes its statistics; another
   process's statement may run in between. *)
RefreshStats(b) ==
    /\ pc[b] = "stats"
    /\ seen' = [seen EXCEPT ![b] = stored]
    /\ Goto(b, "overwrite")
    /\ UNCHANGED <<stores, mine, expired, counters, abandoned>>

OverwriteStats(b) ==
    /\ pc[b] = "overwrite"
    /\ Applied(b)
    /\ seen' = [seen EXCEPT ![b] = {}]
    /\ Goto(b, "graph")
    /\ UNCHANGED <<mine, expired, counters, abandoned>>

Materialize(b) ==
    /\ pc[b] = "graph"
    /\ Applied(b)
    /\ Loop(b, Len(mine[b]), AfterGraph(b))
    /\ UNCHANGED <<seen, mine, expired, counters, abandoned>>

(* A job queues backfills of the counterparties of what it has claimed. *)
Expand(b) ==
    /\ pc[b] = "expand"
    /\ Goto(b, "finish")
    /\ UNCHANGED <<stores, mine, seen, expired, counters, abandoned>>

(* Caches are invalidated, the tracking status is updated, and the batch succeeds:
   the webhook is accepted, the job is finished. *)
Finish(b) ==
    /\ pc[b] = "finish"
    /\ Goto(b, "done")
    /\ mine' = [mine EXCEPT ![b] = <<>>]
    /\ UNCHANGED <<stores, seen, expired, counters, abandoned>>

(* Providers deliver at least once. *)
Redeliver(b) ==
    /\ b \in Webhooks /\ pc[b] = "done"
    /\ redeliveries < MaxRedeliveries
    /\ redeliveries' = redeliveries + 1
    /\ Goto(b, "waiting")
    /\ UNCHANGED <<stores, mine, seen, expired, failures, abandoned>>
-----------------------------------------------------------------------------
(* Failures *)

(* The error is returned.  The provider delivers a refused webhook again; a job is
   queued again if the error is retryable and the worker still runs. *)
GiveUp(b, stopped) ==
    /\ \E label \in IF b \in Webhooks THEN {"waiting"}
                    ELSE IF stopped THEN {"dropped"} ELSE {"waiting", "dropped"} :
          Goto(b, label)
    /\ mine' = [mine EXCEPT ![b] = <<>>]
    /\ expired' = expired \ {b}

(* The keys that b leaves claimed when it gives up: those it has not released, and
   one whose claim took effect although the call failed. *)
LeavesKeys(b) ==
    abandoned' = abandoned \cup (claimed' \cap (Holds(b) \cup (claimed' \ claimed)))

(* Mutant of Releases: a failure of the graph keeps the claims. *)
ReleasesNotGraph(b) ==
    \/ pc[b] \in {"upsert", "stats", "overwrite", "expand"}
    \/ b \in Webhooks /\ pc[b] = "finish"

(* Mutant of Releases: a failed upsert keeps the claims. *)
ReleasesNotUpsert(b) ==
    \/ pc[b] \in {"stats", "overwrite", "graph", "expand"}
    \/ b \in Webhooks /\ pc[b] = "finish"

(* The calls whose errors release the claims.  An error of the claims does not; a
   job's does not either once its expansion is done. *)
Releases(b) ==
    \/ pc[b] \in {"upsert", "stats", "overwrite", "graph", "expand"}
    \/ b \in Webhooks /\ pc[b] = "finish"

CountFailure ==
    /\ failures < MaxFailures
    /\ failures' = failures + 1

(* A call fails, before or after its effect. *)
StepFails(b) ==
    /\ "step" \in Failures
    /\ pc[b] \in {"waiting", "upsert", "stats", "overwrite", "graph", "expand", "finish"}
    /\ CountFailure
    /\ UNCHANGED stores \/ Applied(b)
    /\ seen' = [seen EXCEPT ![b] = {}]
    /\ IF Releases(b) /\ mine[b] # <<>>
       THEN Goto(b, "release") /\ UNCHANGED <<mine, expired>>
       ELSE GiveUp(b, FALSE)
    /\ UNCHANGED <<redeliveries, abandoned>>

(* EnsureWallet fails, which webhooks call for each transaction they claimed. *)
EnsureWalletFails(b) ==
    /\ "step" \in Failures
    /\ b \in Webhooks /\ pc[b] = "claim"
    /\ Current(b) \notin claimed
    /\ CountFailure
    /\ Applied(b)
    /\ mine' = [mine EXCEPT ![b] = Append(@, Current(b))]
    /\ Goto(b, "release")
    /\ UNCHANGED <<seen, expired, redeliveries, abandoned>>

(* NormalizeProviderActivity refuses an activity of the webhook, which is normalised
   just before its claim: the keys claimed before it are not released.  A job
   normalises all its activities before its first claim. *)
NormalizeFails(b) ==
    /\ "step" \in Failures
    /\ b \in Webhooks /\ pc[b] = "claim"
    /\ CountFailure
    /\ UNCHANGED stores
    /\ GiveUp(b, FALSE)
    /\ LeavesKeys(b)
    /\ UNCHANGED <<seen, redeliveries>>

(* Redis fails while b claims or releases: the keys are not released, or no more. *)
RedisFails(b) ==
    /\ "redis" \in Failures
    /\ pc[b] \in {"claim", "release"} /\ b \notin expired
    /\ CountFailure
    /\ UNCHANGED stores \/ Applied(b)
    /\ GiveUp(b, FALSE)
    /\ LeavesKeys(b)
    /\ UNCHANGED <<seen, redeliveries>>

(* The keys are deleted one by one. *)
Release(b) ==
    /\ pc[b] = "release" /\ b \notin expired
    /\ Applied(b)
    /\ IF at[b] < Len(mine[b])
       THEN at' = [at EXCEPT ![b] = @ + 1] /\ UNCHANGED <<pc, mine, expired>>
       ELSE GiveUp(b, FALSE)
    /\ UNCHANGED <<seen, counters, abandoned>>

(* The client of the webhook disconnects, or the worker is told to stop: the call
   of b fails, before or after its effect. *)
Cancel(b) ==
    /\ "cancel" \in Failures
    /\ pc[b] \in Running /\ b \notin expired
    /\ CountFailure
    /\ UNCHANGED stores \/ Applied(b)
    /\ seen' = [seen EXCEPT ![b] = {}]
    /\ IF Releases(b) /\ mine[b] # <<>>
       THEN /\ Goto(b, "release")
            /\ expired' = expired \cup {b}
            /\ UNCHANGED <<mine, abandoned>>
       ELSE GiveUp(b, TRUE) /\ LeavesKeys(b)
    /\ UNCHANGED redeliveries

(* The releases are made with the cancelled context: the first fails and ends them. *)
ReleaseCancelled(b) ==
    /\ pc[b] = "release" /\ b \in expired
    /\ UNCHANGED stores
    /\ GiveUp(b, TRUE)
    /\ LeavesKeys(b)
    /\ UNCHANGED <<seen, counters>>

(* The process dies.  A dequeued job is nowhere else. *)
Crash(b) ==
    /\ "crash" \in Failures
    /\ pc[b] \in Running
    /\ CountFailure
    /\ UNCHANGED stores \/ Applied(b)
    /\ Goto(b, IF b \in Webhooks THEN "waiting" ELSE "dropped")
    /\ mine' = [mine EXCEPT ![b] = <<>>]
    /\ seen' = [seen EXCEPT ![b] = {}]
    /\ expired' = expired \ {b}
    /\ LeavesKeys(b)
    /\ UNCHANGED redeliveries
-----------------------------------------------------------------------------
Step(b) ==
    \/ Begin(b) \/ Claim(b) \/ Upsert(b) \/ RefreshStats(b) \/ OverwriteStats(b)
    \/ Materialize(b) \/ Expand(b) \/ Finish(b) \/ Release(b) \/ ReleaseCancelled(b)

Next ==
    \E b \in Batches :
        Step(b) \/ Redeliver(b) \/ StepFails(b) \/ EnsureWalletFails(b)
        \/ NormalizeFails(b) \/ RedisFails(b) \/ Cancel(b) \/ Crash(b)

Spec == Init /\ [][Next]_vars

(* Handlers and workers go on, providers deliver and workers drain the queue. *)
FairSpec == Spec /\ \A b \in Batches : WF_vars(Step(b))
-----------------------------------------------------------------------------
(* Every variable keeps its type; positions stay inside their lists. *)
TypeOK ==
    /\ claimed \in SUBSET Txs /\ stored \in SUBSET Txs /\ stats \in SUBSET Txs
    /\ graph \in [Txs -> Nat]
    /\ pc \in [Batches -> Labels]
    /\ at \in [Batches -> Nat \ {0}]
    /\ mine \in [Batches -> Seq(Txs)] /\ seen \in [Batches -> SUBSET Txs]
    /\ \A b \in Batches :
          /\ pc[b] = "claim" => at[b] <= Len(Items[b])
          /\ pc[b] \in {"upsert", "graph", "release"} => at[b] <= Len(mine[b])
    /\ expired \in SUBSET Batches
    /\ failures \in 0..MaxFailures /\ redeliveries \in 0..MaxRedeliveries
    /\ abandoned \in SUBSET Txs /\ overwritten \in SUBSET Txs

(* A transaction is in the hands of one batch at a time, even when batches fail and
   release their claims one by one: the graph's counters are added to without
   looking, and only this keeps two batches from adding the same transaction. *)
ExclusiveClaim ==
    \A b, c \in Batches : b # c => Holds(b) \cap Holds(c) = {}

(* A key stays claimed only while a batch holds it or when its transaction is stored,
   unless its batch was cancelled, died, lost Redis or could not normalise what comes
   later in its payload: otherwise every later delivery of the transaction would be
   skipped until the key expires, after 90 days. *)
ClaimedIsKept ==
    \A x \in claimed \ abandoned : x \in stored \/ \E b \in Batches : x \in Holds(b)

Ingested(x) == x \in stored /\ x \in stats \cup overwritten /\ graph[x] > 0

(* A batch is accepted although it skipped what another batch had claimed and may
   still fail to write.  Once all batches that carry a transaction are accepted, it
   is in the rows and in the graph, and has been in the statistics, from which only
   an older refresh takes it out; unless its key was left behind. *)
AcceptedIsIngested ==
    \A x \in Txs \ abandoned :
        (\E b \in Batches : x \in Carries(b))
        /\ (\A b \in Batches : x \in Carries(b) => pc[b] = "done")
            => Ingested(x)

(* The graph counts a transaction once, and once more only for each failure: many
   deliveries alone, concurrent or repeated, never count it twice. *)
CountedPerFailure == \A x \in Txs : graph[x] <= 1 + failures

(* What one batch has begun to ingest is ingested in the end, by it or by another,
   unless a job that carries it is dropped or its key was left behind. *)
EventuallyIngested ==
    \A x \in Txs :
        (\E b \in Batches : x \in Carries(b) /\ pc[b] \in Running)
            ~> \/ Ingested(x) \/ x \in abandoned
               \/ \E b \in Jobs : x \in Carries(b) /\ pc[b] = "dropped"
=============================================================================
