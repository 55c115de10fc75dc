# Qorvi in TLA+

Qorvi indexes the on-chain life of wallets and explains it. This directory holds
TLA+ models of the parts of it whose correctness depends on the order in which
things happen, TLC configurations that check them, and TLAPS proofs.

Paths below are relative to the repository's root (written `src/` in `PROJECT.json`).

    tlc -workers 2 -config CopilotWorker.cfg MCCopilotJobs.tla      # a run
    tlapm LifetimeBackfillProofs.tla                                # the proofs

## 1. Inventory

The repository has two halves that share a Postgres database and a Redis: the
*wallet copilot* (TypeScript, inside the Next.js server in `apps/web`) and the
*signal pipeline* (Go: `apps/api`, `apps/workers`, `packages/*`).

### Wallet copilot (`apps/web/lib/wallet-copilot`, `apps/web/app/api/wallet`)

| component | state | operations | hard behaviours | what makes it correct |
|---|---|---|---|---|
| Analysis jobs (`jobs.ts`, routes) | job records and one list of identifiers in Redis; `activeJobIdsByCacheKey` and `runningJobIds` in each process | `createWalletAnalysisJob`, `getWalletAnalysisJob`, `processWalletAnalysisQueue`, `runWalletAnalysisJob`, `queueWalletAnalysisContinuation` | read-then-write claims over awaits, several processes, continuations queued by a job that already answered, crashes, lost replies, TTLs | a job is run once; none is forgotten but by a failure; a status moves only forward; the daily limit holds; a partial history goes on until it is whole |
| Cache (`cache.ts`) | an entry per address and window in Redis, a copy in each process | get, set, expiry | a process's own copy hides the shared one | what is answered is something that was computed |
| Quota (`quota.ts`) | a counter per identity and day | `consumePublicQuota` | concurrent increments at the limit | at most the limit of new analyses |
| Storage (`storage.ts`) | drivers over Redis, Upstash, memory and a file | get, set, increment, push, pop | lost replies; read-modify-write of the file driver | each call atomic on the shared drivers |
| Lifetime index (`lifetime-backfill.ts`, `index-repository.ts`, `agent.ts`) | row `wallet_copilot_index_status`, rows of transactions and receipts, snapshots | `advanceLifetimeBackfill`, `saveWalletIndexCoverage`, `persistWalletAnalysisSnapshot`, `computeWalletAnalysis` | analyses of one wallet that are not serialised and write back what they read minutes before; errors in the middle; crashes | the row never claims what is not stored; complete means from the first activity; the index becomes complete |
| Provider clients (`etherscan-*.ts`, `rpc-throttle.ts`, `receipt-reader.ts`, `provider.ts`) | throttle chains and a budget counter | paged queries, chain queries, receipts | page limits, retries, budget at its limit | a budget is not exceeded, a throttle spaces calls |
| Classification, PnL, reports (`classifier.ts`, `pnl.ts`, `llm.ts`, ...) | none | pure functions | - | labels agree with the data |

### Signal pipeline (`apps/workers`, `apps/api`, `packages`)

| component | state | operations | hard behaviours | what makes it correct |
|---|---|---|---|---|
| Backfill queue (`packages/db/backfill_queue.go`, `apps/workers/backfill.go`) | a default and a priority list in Redis, deduplication keys | enqueue, dequeue with rotation of delayed jobs, run, retry, expand | several workers rotating one list, crash with a job in memory, unlimited retries | every job is somewhere; a due job is not passed over; the queue drains |
| Wallet ingest (`webhook_ingest_db.go`, `runBatchIngest` in `backfill.go`, `ingest_dedup.go`) | claimed keys with a TTL; rows, daily statistics, graph counters | claim, upsert, refresh, materialize, release | two processes with the same transactions, failure between claim and write, additive counters, cancelled contexts | a key is in one batch's hands; what is accepted is ingested; a transfer is counted once per failure |
| Wallet tracking (`packages/db/wallet_tracking_*.go`, `apps/workers/tracking_*.go`) | status rows, subscription rows, the provider's webhook | promote, sync | each run replaces the provider's whole list by the one it read | what says active is watched; a wallet to watch is registered in the end |
| Alerts and delivery (`apps/workers/alerts.go`, `delivery*.go`, `packages/db/alert*.go`) | rules, events, delivery attempts | dispatch, deliver, retry | cooldown read before insert, attempt written before and after the send, backoff | an owner is told of what matters, not twice without a failure, and nothing is silently dropped |
| Signal workers (`cluster_score.go`, `shadow_exit.go`, `first_connection.go`, `findings.go`) | signal events, findings and bundles, statuses, job runs; entry features; evidence tables | runs of a dozen calls | overlapping runs of a wallet, a stop between any two calls, rows replaced without a transaction | rows of one finding are of one run; what is recorded is dispatched; outcomes are earned and final |
| Scoring engines (`packages/intelligence`, the evidence readers and graph readers of `packages/db`) | the counts of a report, the Neo4j relations | scores, calibration, sampling of large graphs | gates that a higher count moves behind, sampling over a Go map | evidence for a claim never lowers its score; the same input gives the same score |
| Billing (`service/billing.go`, `packages/db/billing.go`, `billing_sync.go`) | accounts, subscriptions, events | webhooks, sync | events out of order or repeated, also of an older subscription, overlapping writers | accounts agree with Stripe after enough syncs |
| Graph and summary caches (`wallet_graph_cache.go`, `wallet_graph_snapshot.go`, `wallet_summary.go`) | Redis entries, Postgres snapshots | read-through, invalidate | a fill racing an invalidation | nothing older is left by a refresh unless a reader raced it |
| Analyst explanations (`service/analyst_explanations.go`) | rows per prompt, audits | ask, generate now or in a goroutine | limit read before and written after the generation; pending rows of dead processes | the limit holds but for overlaps; nobody gets an empty answer |
| Alert rules (`api-boundary.ts`, `alert-center-screen.tsx`, `service/alert_rule.go`) | lists, items and rules of an owner; what each tab shows | track a wallet by five requests, mute, snooze, delete | rows read and written back whole, two tabs, failed requests, old pages | what a page is told is so; one list and rule per wallet tracked |
| Provider reads (`alchemy_client.go`, `helius_client.go`, `providers/backfill.go`, `alchemy-provider.ts`) | a cursor per direction | paged reads of a window, newest first | transfers arriving between pages, limits over two directions, retries | a read returns what one endless page would have |
| Enrichment (`moralis_*.go`, `wallet_enrichment_snapshot.go`, `enrichment_refresh.go`) | a key with a TTL, a row, the summary cache | enrich from a page or a worker | fetch of three scopes, writes to three stores, failures between | key, row and summary agree after an undisturbed call |
| Watchlists (`service/watchlist.go`, `repository/watchlist.go`) | lists and items of an owner | create, rename, add, change, delete | limits read before the write, whole lists written back | limits hold but for overlaps |
| Curated lists and the entity index (`repository/admin_console.go`, `db/curated_entity_index.go`, `admin_curated_wallet_import.go`) | lists, curated entities and assignments, cached graphs | change a list, rebuild, import | a rebuild of many statements in no transaction, heuristics writing the same column | the index is that of the lists |
| Seed discovery and imports | rows, enqueues | batch passes | partial batches | idempotent writes |
| API server, web interface otherwise | single statements; presentation | handlers; pages | - | - |

How they interact: the web server's copilot talks to Postgres and Redis directly;
its job queue is filled by `POST /api/wallet/analyze/jobs` and drained by the worker
and cron routes. The Go API enqueues backfill jobs and ingests provider webhooks;
the Go workers drain the backfill queue, whose results change tracking status,
which decides the webhooks that are subscribed; their rows feed the signal workers,
whose findings become alerts, which are delivered with retries. Ingests and signal
runs invalidate what the API has cached of a wallet; the admin console's lists decide
the entity names that the graphs show.

`PROJECT.json` lists each component with its status, and under "hazards" the
places where this code can go wrong in a way a test would hardly reach.

## 2. Modules

| module | models | form |
|---|---|---|
| `JobLifecycle` | what a client may see of a copilot job | abstract specification |
| `CopilotJobs` | `jobs.ts` with the calls of `cache.ts`, `quota.ts`, `storage.ts` | implements `JobLifecycle` |
| `MCCopilotJobs`, `CopilotJobsProofs` | instance: where each task runs, and fairness in both modes; proofs | |
| `LifetimeBackfill` | `lifetime-backfill.ts`, `index-repository.ts`, the part of `agent.ts` around them | |
| `MCLifetimeBackfill`, `LifetimeBackfillProofs` | instance: which wallets are indexed; proofs | |
| `WalletIngest` | `webhook_ingest_db.go`, `runBatchIngest` of `backfill.go`, `ingest_dedup.go` and the stores they write | |
| `ProviderReads` | the reads of a wallet's past from Alchemy, Helius and the copilot's provider | |
| `Enrichment` | what Moralis tells of a wallet: key, row, summary cache | |
| `MCWalletIngest`, `WalletIngestProofs` | the three for TLC: what each webhook and job carries, which transfers arrive; proofs about all three | |
| `WalletBacklog` | what the backfill queue promises | abstract specification |
| `WalletStatus` | the upserts of `wallet_tracking_state` | used by `BackfillQueue` |
| `BackfillQueue` | `backfill_queue.go`, the drain, retry and expansion of `backfill.go`, the bootstraps that enqueue | implements `WalletBacklog`; a batch is one step, of which `WalletIngest` is the detail |
| `WalletTracking` | the subscription sync and the webhook events that write the same rows | |
| `MCWorkers`, `WorkersProofs` | both for TLC; proofs about both | |
| `Billing` | webhook reconciliation and subscription sync | |
| `AlertDelivery` | dispatch, suppression, delivery and the retry batch | |
| `WalletCaches` | read-through and invalidation of graph and summary | |
| `MCServices`, `ServicesProofs` | the three for TLC; proofs about all three | |
| `Explanations` | the analyst's explanations, limit, cooldown and goroutine | |
| `Watchlists` | lists and items over both repositories | |
| `AlertRules` | tracked lists and alert rules as browser tabs make and change them | |
| `EntryFeatures` | the first-connection snapshots and their maturation | |
| `TransferEvidence` | how a shadow-exit run replaces its day's evidence | |
| `SignalRuns` | the calls of the three score workers | |
| `SignalScores` | `score.go`, `shadow_exit.go`, `first_connection.go` of `packages/intelligence` | functions over counts |
| `ClusterGraphs` | the Neo4j relations of a wallet, their reader, the sampling and the cluster score | extends `SignalScores` |
| `FlowEvidence` | the classification of transfers, the routes, the inputs of the shadow exit score | extends `SignalScores` |
| `CuratedLists` | curated lists, entity index, seed import, heuristic assignment | |
| `EvidenceProofs` | proofs about `SignalRuns`, `EntryFeatures`, `TransferEvidence`, `SignalScores`, `ClusterGraphs` and `CuratedLists` | |
| `MCRecords`, `RecordsProofs` | the ten for TLC; proofs about `Explanations`, `Watchlists`, `AlertRules`, `FlowEvidence`, that all the ten together behave as each alone, and of their types | |
| `FoldLemmas` | least numbers, folds and cardinalities: what the proofs of several modules cite | lemmas |

`MCWalletIngest`, `MCWorkers`, `MCServices` and `MCRecords` check several modules in one run. Their parts
share no state in the code either (or share it through steps that one of them has and
the other abstracts): a variable `part` picks one at first and the others stand still, so
the run is the union of the runs of its parts, and a property speaks of all of them.

### CopilotJobs

Every async function of the code is a *task*: a request handler (`Creators`), a
worker or cron invocation (`Workers`), or in inline mode a timer (`Timers`, one per
process and job: `runningJobIds`). `pc[t]` names the storage call that t awaits, and
an action is the effect of that call with the code up to the next await. So tasks
interleave exactly where Node interleaves them, on one process or on several.

| variables | code |
|---|---|
| `jobs`, `queue`, `cache`, `quotaUsed` | Redis: records, list, cache entries, the day's counter |
| `cov`, `snapshots` | Postgres, as far as the jobs see it: chunks left, wallets with a snapshot |
| `local`, `active` | a process's own cache entries and `activeJobIdsByCacheKey` |
| `pc`, `job`, `rec`, `got`, `cont`, `left` | a task's awaited call and its local variables |
| `starts` | history variable: how often a job's analysis was begun |

`createWalletAnalysisJob` is `Submit` up to `Push`; `processWalletAnalysisQueue` is
`Invoke`, `Pop`, `PopEmpty`; `runWalletAnalysisJob` is `ReadQueued` up to
`SaveSucceeded` or `SaveFailed`, with `ReportStage` for the progress callback, whose
write is not ordered with the analysis itself except through `await onStage`;
`queueWalletAnalysisContinuation` is `SaveContinuation`, `PushContinuation`; a
status poll is `Poll`, which matters in inline mode only, where it starts timers.

A result is its coverage: the number of chunks still to be indexed. When the
backfill fails, the analysis returns the stored checkpoint, whose bounds are
strings; their comparison may find nothing left to do, so `ChunkFailed` gives a
coverage that looks either like the stored one or like none
(`LifetimeBackfill` models the comparison itself).

`Disturbance` has what the code does not control: a storage call that throws before
or after its effect (`CallThrows`, `RunThrows`, `EffectOnly`), a lost reply of LPOP,
an RPUSH that fails, a crash of a process, a record that expires. Each costs one of
`MaxDisturbances`. Cache entries expire freely.

One address per key: two windows of one address share the row of the lifetime
index, which is the subject of `LifetimeBackfill`.

### LifetimeBackfill

One wallet. An analysis is a task again. The variables are the chain (`head`,
`activity`), the rows of Postgres (`row`, `stored`, `receipts`, `snapshot`) and each
analysis's copies (`seen`, `latest`, `first`, `cov`). A block stands for the wallet's
transactions in it; `stored` and `receipts` are the blocks whose transactions and
whose receipts are in the database.

`advanceLifetimeBackfill` is `ReadCheckpoint` up to `SaveEmpty`, `SaveFinal` or
`SaveChunk`; the ON CONFLICT clause of `saveWalletIndexCoverage` is `SaveCoverage`;
`advanceWalletIndexCheckpoint`'s catch block is `AdvanceFails`, `FallBack`,
`RowUnreadable`; the rest of `computeWalletAnalysis` is `PersistWindow`,
`PublishStatus` (the status write of `persistWalletAnalysisSnapshot`) and
`InsertSnapshot`. `Resume` is the continuation job. `NewBlock` is the chain.

Coverages carry a flag `text`: those read from the row have string bounds, since the
columns are BIGINT and the postgres client leaves BIGINT as text. Only the
comparison in `needsLifetimeContinuation` tells them apart (`TextGreater`);
`lifetime-backfill.ts` converts with `Number` before it computes.

### WalletIngest

One wallet. A *batch* is a webhook delivery (`Webhooks`; the Alchemy and Helius
handlers do the same) or a backfill job (`Jobs`); `Items` is what it carries, in order
and with the repetitions a payload can have, each element standing for a canonical
key of `BuildTransactionCanonicalKey`. `pc[b]` is the call the batch awaits.

| variables | code |
|---|---|
| `claimed` | Redis: the keys set by `Claim` |
| `stored`, `stats` | Postgres: rows of `transactions`; those that `wallet_daily_stats` counts |
| `graph` | Neo4j: how often a transaction was added to `interactionCount` |
| `mine`, `at` | a batch's `claimedKeys` (`writes` has the same elements) and its place in them or in the payload |
| `seen` | the rows that the running refresh of the statistics has read |
| `expired` | batches whose context is cancelled while they release |
| `abandoned`, `overwritten` | history variables: keys left behind; transactions that an older refresh took out of the statistics |

`Begin` stands for everything before the first claim, which writes nothing the
properties speak of (a job normalises there, a webhook in the claiming loop:
`NormalizeFails`); `Claim` is one turn of the claiming loop, `Upsert` and
`Materialize` one turn of theirs; `RefreshStats` and `OverwriteStats` are the one SQL
statement of the refresh, which reads a snapshot and writes later, so that a second
refresh fits in between; `Finish` is the invalidation of caches, the tracking status
and the answer.

Each call can fail before or after its effect. `StepFails` is an error of Postgres,
Neo4j or a provider; which errors release the claims is `Releases`: those of the
writes, for a webhook those after them too, for a job only up to its expansion.
`RedisFails` is an error of a claim or a release: a failed claim releases nothing
and a failed release ends the releasing. `Cancel` is a disconnected client
(`r.Context()`) or SIGTERM in a worker (`signal.NotifyContext`): the releases then use
the cancelled context and fail (`ReleaseCancelled`). `Crash` is the death of the
process; a dequeued job is nowhere else. Failures are bounded by `MaxFailures`, repeated
deliveries of accepted webhooks by `MaxRedeliveries`.

A refused webhook goes back to "waiting", since providers deliver again what was not
answered with success; a failed job does so if its error is retryable, which error
texts decide, so the model allows both. The queue between is abstracted to "waiting".

### ProviderReads, Enrichment

*ProviderReads.* `chain` is the wallet's transfers in order, to which one may be added at
any moment; a read of one of three kinds goes backwards from the newest. A page is an
action: the provider answers with the next positions before its cursor, and the code
filters, removes duplicates, counts against its limit and decides whether to go on. What a
read has kept is a set of positions in the chain, so "newest first" is their order. The EVM
read takes one direction after the other with what is left of the limit; the Solana read
takes the signatures of the window and then each transaction, and repeats both with the
other provider when one refuses; the copilot's takes a page of both directions at a time.

*Enrichment.* A page reads the summary through its cache and the row, a worker asks for
fresh facts; both then fetch three scopes, any of which may fail, set the key, write the row
and drop the cached summary, a call each.

### BackfillQueue, WalletBacklog, WalletStatus

`queue` holds the two Redis lists. `RequestStep` is a search, a watchlist entry or a
seed that sets its deduplication key and pushes a job; a worker's poll is `pc[w]`: it
counts a list (LLEN), pops as often as it counted, and puts back at the tail what is
not due (`DequeueWalletBackfillJob` and its priority twin), runs what is due, and on
success enqueues the wallet's counterparties one at a time, each with its key. A
retryable error pushes the job back with a delay that doubles from `RetryBase` to
`RetryMax`, without a limit of attempts. `Tick` is time. Every call can fail and a worker can
die at every step; a popped job is then in nobody's hands (`lost`). The keys of a
producer that fails are not released (`curated_wallet_bootstrap.go:63`): `abandoned`.

The history variable `owed` is what `NothingPassedOver` needs: the jobs a list
held, due, when this worker counted it.

### WalletTracking

`SyncStep` is a run of `wallet-tracking-subscription-sync`: list the tracked wallets up
to `Limit`, read or create the provider's webhook, replace its addresses, write one
row per wallet with the outcome. Events of the provider write rows too. `setup` is the
configuration: none, a configured webhook, or a callback for which the run creates
webhooks of its own. Histories say which addresses another run has taken off a list
(`displaced`) and which wallets a reported transfer has named (`counterparties`).

### Billing, AlertDelivery, WalletCaches

*Billing.* `stripe` and `sent` are Stripe: each owner's subscriptions, one after another,
and their events in order. A webhook request records its event, reads the account
(`existing`), and writes account and subscription as the event says, whichever of the owner's
subscriptions it is of; an event without a subscription's id keeps the one the account names. The
sync run lists the stalest accounts with the subscription each names, asks Stripe about each and writes
what it is told. `stalest` is the order of `updated_at`: a write puts its owner last. Either may stop between two writes.

*AlertDelivery.* A dispatch goes through the rules that watch the wallet; for each it
reads the last event (cooldown, snooze, severity), inserts an event under its
deduplication key, and sends it through the owner's channels, writing the attempt
before and after. The retry batch takes the attempts that failed and are due. Rules may be
deleted and channels switched off in between. One retry batch at a time, and its limit of 25
is left out.

*WalletCaches.* The rows of a wallet are a version that grows with each write, an entry
is the version its reader saw. A reader goes through Redis, the snapshot, the database
and back; a refresh writes and then deletes entry and snapshot, in two calls. A request for two
hops has a key of its own, which no refresh deletes and which lives its TTL, but the snapshot is
the same: the service resolves every request to one hop (`repository/wallet_graph.go:42`).
Graphs of another size have no snapshot and are left out.

### Explanations, Watchlists

*Explanations.* A request reads its row (cache, pending, failed, cooldown), counts the
audits of today, and then generates at once or marks the row pending and leaves the
rest to a goroutine, which any restart loses. The age of a row is its class of windows
(45 s, 5 min). It is assumed that the calls between the reads of one request take less than the
20 s that separate the model's timeout (25 s) from the pending window (45 s).

*Watchlists.* `service/watchlist.go` over `repository/watchlist.go`: the Postgres
repository only renames a list where the service hands it a list with other items.

### AlertRules

A tab's request is `tab[b]`: the label of the HTTP request it awaits and what it has read.
`Track` up to `CreateTrackedRule` is `trackWalletAlertRule`, one action per request with
what the Go handler does for it, except for the item, which a handler adds to the list it has
found (`AddTrackedItem`) and writes back whole (`WriteTrackedList`); `Toggle`, `ReadRule`, `PatchRule` is
`updateAlertRuleMutation` over the rule that the page *shows*, which may be old. Histories:
`active` what "Wallet tracking is active." was said of, `saidEnabled` and `saidSnooze`
what was last said of each rule, `crossed` that two tabs overlapped.

### EntryFeatures, TransferEvidence, SignalRuns

These are the writes of a score worker's run, in the order of the code: `EntryFeatures`
and `TransferEvidence` the ones before the signal of a first-connection and a
shadow-exit run, `SignalRuns` those from the signal on, which the three workers share. A
run of `EntryFeatures` looks at a moment, resolves the snapshot before it
(`matureEntryFeatures`), and replaces its own. Its time is in half hours, the least
that the query tells apart, whose `::int` rounds hours (`Hours`); one of `TransferEvidence` deletes the day's rows
table by table and inserts what it observed, where a row stored for another day keeps
that day. In `SignalRuns` a finding is two rows under the key of type, wallet and
moment, which two different workers share.

### SignalScores, ClusterGraphs, FlowEvidence

Integer arithmetic of the code with its clamps, caps and two calibration gates. In
`SignalScores` evidence arrives one observation at a time. `ClusterGraphs` writes
transfers to the relations of the graph as the materializer does (counts, first and last
day), reads peers and entity links, samples as `cluster_sampling.go` does, a pick at a
time over a map in any order, and scores the rest. `FlowEvidence` classifies transfers
by their counterparty's texts (a text may match several classes) and by what the
counterparty sent on, and counts what the score and the findings take.

### CuratedLists

An admin's change is one statement, then `rebuildCuratedEntityIndex` statement by
statement: clear, delete, write entities and assignments, drop cached graphs. The
import of seeds adds items and then rebuilds; the heuristics of ingest write
`wallets.entity_key` too. A reader of a graph takes what it finds (`ReadGraph`) and stores it later
(`StoreGraph`), under the key of one hop or two and as the snapshot; a drop (`Drop`) removes the key
of one hop and the snapshot. Histories: `trusted`, the last rebuild ran alone and to its end;
`overtaken`, wallets of which a reader stored what a drop had overtaken.

## 3. Runs

All runs are small instances; each bound has its reason. Deadlock checking is off
everywhere: once the bounded requests are used up the system may stop.

| run | question | bounds |
|---|---|---|
| `copilot_worker` | safety of the jobs in worker mode, and that they implement `JobLifecycle` | 2 processes with a handler and a worker invocation each: every pair of tasks, on one process or two, can interleave. 2 requests, 3 jobs: two fresh jobs and a continuation. 2 chunks: one partial result. Limit 1: the second request is at the limit. One disturbance: each single failure at each point. Batch of 2: an invocation goes on after a job |
| `copilot_fair` | queued jobs end, histories are finished, inline jobs begin once | worker mode: two handlers, so that requests for one wallet overlap, two invocations, 3 chunks (a continuation that queues a continuation), 5 jobs, no disturbance; inline mode: two handlers on one process, 2 jobs, polls, one disturbance |
| `lifetime` | the index never claims what is not stored, complete is complete, the index becomes so | 2 analyses, which is what overwriting takes; a chain of blocks 8..10 growing to 11, so that bounds have one and two digits and compare wrongly as text; chunks of 2 blocks: two of them; a page limit of one row, so that a chunk is truncated; both values of the deferral flag; one failure or crash; an unused wallet and one that acted first and last |
| `lifetime_receipts` | is a complete performance backed by receipts? | a busy wallet, no failures: violated |
| `lifetime_fallback` | is a continuation queued after a failure? | blocks 8..11, so that bounds have one and two digits: violated |
| `ingest` | claims are exclusive and kept, the accepted is ingested; a read is whole; an enrichment agrees | two webhooks and a job, so that both paths meet and a webhook meets another; two transactions, each carried by two batches, one of them twice in one payload; two failures of any kind: a failure, and one of its recovery or of the batch that skipped; one repeated delivery. Reads: pages of 2 and a limit of 3 for a chain of up to 3 transfers, which arrive at any moment: the end of a page and of the limit are met; days before, in and after the window; one failure. Enrichment: two callers of either kind, three calls, two facts that change once, one failed call |
| `workers` | no job is lost, passed over or left; the queue implements the backlog; subscriptions tell the truth and settle | queue: 2 workers, 2 wallets that are each other's counterparties, three requests in two scenarios (the same wallet named twice; a search meeting an expansion), delays 1 and 2, one failure or crash, jobs 1..4. Sync: 2 runs, 2 wallets, limit 2, all three configurations, one failed call |
| `services` | alerts, accounts and caches under overlap and failure | alerts: four scenarios (four signals without a channel; two signals with a channel switched off or the rule deleted; two channels; two rules), times 1..3, severities 1..2, 2 retries, one failure. Billing: 2 owners, 2 webhook requests, sync limit 1, one owner subscribed at first, then two events (the end of that subscription and another one, a change, or one of them and a repeat), one failure. Caches: one reader of any key, two refreshes, 2 writes, one failed call |
| `billing_duplicate` | does a repeated event activate nothing twice? | as `services`: violated |
| `records` | limits, answers, outcomes, evidence, findings, scores and the entity index | below |
| `watchlist_added` | is an added item in its list? | as `records`: violated |
| `shadow_exit_stops` | does a shadow-exit run reach the alerts? | as `records`: violated |

The bounds of `records`, by part: *explanations* one prompt, two goroutines, limit 1, four
requests, one failure: the limit met by one request and by two at once, a cached, a
pending and a failed row met again. *Watchlists* two names, two wallets, two requests at
a time, three in all, limits 1. *Entry features* two counterparties, two runs, a day of
two half hours, a persistence of one hour, a maturity of three half hours, time up to 5, transfers
late by up to 1: a snapshot, one that matures it, one that looks back, and an hour that is
rounded up. *Evidence* two transfers in two
tables, three runs over two moments, one downstream change. *Signals* two runs of any
worker over two moments, one failure. *Scores* four observations, which passes each gate
and cap. *Graph* three peers, three transfers on two days, two kinds of hubs and one label,
a limit of two peers. *Flows* two transfers in any direction and on any day, four sent on one
day (the bridge-only receiver aside), between eight receivers of which some match several classes and one is nothing but a bridge, and
what each sends on; three transfers where all are to or from bridges on one day.
*Rules* two tabs, two wallets, a limit of one rule, three requests, one failure, two days. *Curated* one admin, one import, two wallets, two entities, two initial sets of lists, one
change, one failed statement or a reader that reads twice (which says something only where nothing
failed), and one heuristic assignment. (With
two admins and four items, 2.9 million states, the property holds too; it takes longer than a run
of this project should.)

A page limit of 1, below the chunk size, truncates a chunk whose two blocks have rows, and the chunk
is claimed all the same: `ClaimedIsStored` excuses exactly the blocks of such chunks (`Crowded`).

### What they show

*Jobs.* An identifier is in the queue once or in one task's hands (`ExclusiveJob`),
which is what makes the read-then-write claim of `runWalletAnalysisJob` safe; in
inline mode `runningJobIds` has that part (`BegunOnce`). A job that says it succeeded can
be answered (`SuccessIsAnswerable`), but for expiries and failures; fresh jobs stay
within the day's quota (`FreshJobsWithinQuota`). Without failures queued jobs end, also those of requests
that overlapped and of which the active pointer names one (`QueuedJobsEnd`), and histories are finished (`HistoryEventuallyIndexed`); with them a job may be
forgotten, because LPOP removes the identifier before the job is claimed and nothing
requeues it. What a client sees follows `JobLifecycle`:
one begin, one end, and the one step back the code has, a success withdrawn when
its continuation cannot be queued.

*Lifetime index.* Although the analyses of one wallet overwrite each other's
checkpoints, the row never claims a block it has not stored, because a chunk is
stored first and both bounds are always written together from one copy, the blocks of a chunk
with more rows than the pages aside (`ClaimedIsStored`); what is called complete begins at the first
activity (`CompleteFromFirst`); and the index becomes complete (`BackfillConverges`), but for a
failure and for one case without any: a deferred analysis that read the row when it began at
block 10 publishes this over the completed row, which began at 8, and "10" > "8" is false as text
(`jobs.ts:389`), so that nothing is queued and the row stays partial (`LooksFinished`). The two safety
claims assume a wallet that had acted before it was first looked up (`InUse`): for an
unused one the two chain queries may straddle its first transaction.

*Wallet ingest.* Webhooks and jobs that carry the same transactions keep out of each
other's way: a key is in one batch's hands (`ExclusiveClaim`), however they fail and
release. A batch is accepted although it skipped what another still has to write;
that is sound because a failing batch releases its keys and is run again
(the first part of `ComesInWhole`, and `EventuallyIngested`). The exceptions are in the properties:
keys left behind by a cancellation, a crash, an error of Redis or, for a webhook, of the normalisation
(`abandoned`), dropped
jobs, and statistics that an older, slower refresh overwrites (`overwritten`), which stay
so until the wallet's next ingest. The graph counts a transaction again only when an
attempt failed (`CountedPerFailure`). What a read returns is what one page without end
would have returned when its last page was asked for, although transfers arrive between pages
(`ReadIsWhole`); an enrichment left alone leaves key, row and summary alike, and a fact is
missing only because its request failed (`EnrichmentAgrees`).

*Workers.* Every job is in one list, in one worker's hands, done, or lost to a failure,
and a failure loses one at most (`EveryJobAccounted`); a due job is passed over only when
another worker has just put it back (`NothingPassedOver`), so rotation starves nothing
and the lists drain (`WorkersSettle`); a counterparty is enqueued at most once
per failure (`ExpansionPerFailure`); a wallet whose backfill succeeded stays tracked, whoever discovers
it again (`DoneIsTracked`); all this is `WalletBacklog` seen from outside
(`ImplementsBacklog`). A subscription says active only for an address that the provider
watches, that another run took off, or that a reported transfer named
(`ActiveUnlessNamed`): the last is the one way a wallet looks tracked without being so.

*Services.* Suppression and deduplication never silence what the owner was not told of
recently, and racing dispatchers make two events per window at most (`CooldownKept`);
a second message, or none, is paid for by a failure, a switched channel or a deleted rule
(`DeliveredPerFailure`). If the sync is run again and again, accounts end with the plan of the
subscription they name, though events come out of order (`AccountsFollowStripe`); that it is the owner's
newest is not so. A refresh leaves nothing
older in the caches unless a reader was between its look and its entry (`FreshUnlessRaced`);
what a race puts back lasts its TTL, except the one-hop graph, whose snapshot has no end, and the
two-hop graph that is taken from it
(`ServicesSettle`, which also has the deliveries that failed).

*Records.* Limits are exceeded only by as many requests as overlap (`WithinLimits`);
nobody is answered with an empty explanation unless something failed, a wallet said to be tracked
has its rule, and, unless two tabs overlapped, stays in its list (with the repository that stores
items) and finds its rule as was last said of it (`AnswersHold`).
A tracked list and its rule are made once, however often a half-done tracking is repeated (in `WithinLimits`).
An entry outcome is earned by two counterparties, one met a day later, rounded (`SustainedIsEarned`), and
is final (`OutcomesStay`), but for runs that overlap or look back and for an outcome resolved on the day of
its snapshot, which the rounding allows. The evidence of a
day and the entity index are those of the last run that was left alone, the graphs served for
one hop with it unless a reader stored one that a drop had overtaken (`TablesFollow`).
A finding's rows are of one run, a recorded signal reaches the alerts, and a job run
that says succeeded has written everything (`SignalsArrive`). The sample of a large graph
does not depend on the order of a Go map (`EvidenceCounts`). Evidence for a claim never
lowers its score and a hub never raises it (`ScoresFollowEvidence`), nor does a transfer to a
bridge or an exchange lower the shadow exit score (`EvidenceCounts` too), except that one to a bridge
which the detector does not count costs the points of one returning route at most; and a treasury's redistribution stays one when more is sent
to an exchange, or to a market maker beside another receiver.

*Findings.* Five runs end in a counterexample, each listed in `PROJECT.json` with its
lines: a complete mark over missing receipts, a continuation that is not queued because
bounds are compared as text, a repeated Stripe event that activates a plan again, a watchlist
item that is answered and not stored, and shadow-exit runs that stop at their first finding.

### Seen while modelling

Disagreements and limits that no run has a property for; the models follow the code.

- *Jobs.* Inline mode, the default outside production (`jobs.ts:488`), counts on `runningJobIds`, which each
  process has for itself: with two processes, or a worker route invoked as well, two runners of one job
  both find it waiting and begin it. Hence one process in `copilot_fair`.
- *Jobs.* A pointer that names a job whose RPUSH failed (`jobs.ts:134`), and an LPOP whose job dies
  with its process (`jobs.ts:175`), leave a job that nobody runs until its record expires.
- *Lifetime index.* A deferred analysis that began with an older row may publish its start "10" over
  the completed row's 8 without any failure (`index-repository.ts:422`); the comparison as text
  (`jobs.ts:389`, the finding of `lifetime_fallback`) then queues nothing, and the row stays partial.
- *Tracking.* `webhook_ingest_db.go:195` marks every wallet of a reported transfer as
  tracked in realtime, which `qorvi-ai/datasets/wallet-tracking-state.md:123` reserves for
  subscribed ones; hence the exception in `ActiveUnlessNamed`.
- *Ingest.* A cancelled ingest releases its claims with the cancelled context
  (`webhook_ingest_db.go:636`), so the keys stay for 90 days
  (`docs/runbooks/launch-gates.md:111` expects a retry to recover). A webhook activity that cannot be
  normalised leaves the claims before it (`webhook_ingest_db.go:143`), which its redelivery then skips; as
  the error is the payload's own, the redelivery fails as well, which the model counts as a second failure.
  A statistics refresh
  may overwrite newer counts (`wallet_daily_stats.go:125`).
- *Billing.* A subscription that Stripe always refuses ends every sync run and starves those
  behind it (`billing_sync.go:68`). A webhook that writes back an account it read earlier may lose
  the subscription's identifier. A late event of an older subscription makes the account name that one again
  (`billing.go:369`), and so may a sync whose list was older (`billing_sync.go:55`): the account then
  follows a subscription that has ended, and is served the free plan, until another event of the newer
  one. Nothing in the repository starts the sync, which is one pass of a worker's mode: `AccountsFollowStripe`
  speaks of an operator who runs it again and again.
- *Caches.* A reader's late entry, or the gap between the deletion of entry and snapshot,
  can restore an old one-hop graph, and the snapshot never expires. Since every request counts as canonical
  (`wallet_graph_snapshot.go:92`, `repository/wallet_graph.go:42`), one for two hops is answered from the
  snapshot of whatever request came first, and its key is never deleted, so it is served old for its TTL.
- *Alerts.* Deleting one rule in the middle of a dispatch aborts it for the others; a run's
  job row says succeeded although its dispatch failed.
- *Alert rules.* Tracking answers "Wallet tracking is active." although the rule it found is muted
  or snoozed (`api-boundary.ts:5423`). With Postgres the tracked item is never stored (see
  `watchlist_added`), so the rule never matches. Two tabs that change one rule lose a change, since
  the whole row is written; two that track make two lists; two that track different wallets in one list
  lose one, with the repository that stores items, although both are told that it is tracked. `alert-center-screen.tsx` passes request headers that
  the two mutations ignore. Any error of `CreateAlertEvent` is reported as a duplicate.
- *Provider reads.* The EVM backfill ignores the window it is given and makes up the times
  of its transfers (`alchemy_client.go:414`); equal transfers of one transaction are dropped as
  duplicates; a transfer without a time counts as 1970 and ends the copilot's paging.
  Solana addresses, which are case-sensitive, are compared without case.
- *Enrichment.* The API never fetches again once a row exists; only workers do. A partial fetch
  overwrites a fuller row. A failed write of the row is not repeated until the key has expired. An empty
  result counts as a failed scope (`moralis_client.go:387`). The row is stored under the address
  as given and read under the normalised one.
- *Explanations.* Cached rows are read with 13 columns into 16 targets, so with Postgres
  no cached answer is ever returned. A fallback answer (the model failed) is neither stored nor audited
  in synchronous mode, and so not limited.
- *First pages.* The first pages of the shadow-exit feed, the first-connection feed and the alert
  inbox compare a uuid with `''`, which Postgres refuses; the findings feed casts and works.
- *Evidence.* A transfer stored yesterday without destination and seen again with one leaves
  two rows, and today's counts include transfers whose row keeps yesterday's day
  (`docs/runbooks/production-release-package.md:96` claims replays are idempotent); several token
  transfers of one transaction collapse into a row.
- *Entry features.* Hours are rounded by `::int` (`wallet_entry_features.go:107`): 23.5 h count as 24, so a
  snapshot of 00:10 may be resolved at 23:50 of its own day and written over by the day's next run.
  Only the latest earlier snapshot is ever matured; with runs less than 23.5 h apart
  nothing becomes sustained; maturing writes a historical count of 0; a backdated run
  wipes a resolved outcome.
- *Findings.* The handoff to a market maker is never emitted, because its path kind never survives
  (lemma `NoHandoff` of `RecordsProofs`), although `qorvi-ai/engine-hardening-roadmap.md:201` says that
  with an "inferred market_maker label + shadow-exit-like 흐름" the finding `suspected_mm_handoff` is made.
  No property claims it. A cluster score and a first connection of the
  same moment share a finding's key. The cluster score's finding lacks the sampling fields.
- *Scores.* The graph score depends on the order in which transfers arrive, since a relation's
  span can shrink; sampling drops the wallet's own entity link and mostly the hub peers,
  so penalties vanish in graphs over the limit. A raw score from 70 that the first gate stops skips the
  medium gate. A second bridge transfer may lower the shadow exit score of a wallet that
  received from another bridge: the count of bridges stays, and a route is subtracted; `EvidenceCounts`
  bounds the loss by the points of that route. Hubs are found by
  substring ("dex" in "index", "gate" in "stargate"). Each bridge counterparty counts as a
  transfer and as an escape; internal transfers count twice in a rebalance; the rebalance check and
  the breadth of the market are never used.
- *Curated lists.* A rebuild that fails leaves the index cleared or partial until the next
  change, although the change itself is kept and the admin is answered with an error. An import
  that fails after adding its items is not repaired when run again: nothing has changed then, and
  the run says succeeded. A wallet cleared by a failed rebuild is in no later rebuild's references,
  so its cached graph keeps the old entity. A reader that loaded a graph before a rebuild and stores it after the drop
  leaves the old entity in key and snapshot, without any failure. Two lists that name one entity: the newest decides the
  wallet, the oldest the entity's type.

### Fairness

Safety runs assume none. Liveness runs assume weak fairness of each task's steps:

- *Jobs*: Node runs a callback whose call has returned, and in worker mode the scheduler (Cloud Scheduler on
  the cron route) keeps invoking the worker; in inline mode, which has no worker, nothing is
  assumed of one.
- *Ingest*: handlers and workers go on, providers deliver refused webhooks again, and
  the worker's loop drains the queue.
- *Queue, sync*: the worker's loop polls and runs the synchronisation again (`main.go`), time
  passes, a request that has begun goes on.
- *Services*: the retry batches run again, time passes for the backoff and the TTL, a request or a sync run
  that has begun goes on. That sync runs are started, or events delivered, is not assumed:
  `AccountsFollowStripe` is of the behaviours in which an operator starts runs for ever.

Requests, polls of clients, new blocks, repeated deliveries, failures, crashes, switched
channels and deletions are never assumed to happen. Nothing is assumed of `records`:
its properties are of safety.

## 4. Proofs

`LifetimeBackfillProofs` proves for every number of analyses, every chain, chunk size
and number of failures:

- `TypesHold`: `Spec => []TypeOK`. What is not obvious is that a chunk is never empty
  or out of range; `TypeInv` adds that an analysis in the middle of a chunk has
  read both ends of the chain (`ChainRead`).
- `ClaimsAreStored`: `Spec => []ClaimedIsStored`, for any page limit: what may be missing is in a
  chunk with more rows than the pages, and such a chunk stays so (`MoreIsCrowded`).
- `CompletenessReachesBack`: `Spec => []CompleteFromFirst`, for any page limit too.

Neither property is inductive: a row that is right can be overwritten by any copy
an analysis still holds. `BackfillInv` therefore says of *every* coverage that may
still be written (the row, what each analysis has read, what it is about to publish,
what its snapshot would contain) that it is sound: what it claims is stored and, if
complete, reaches back to the first activity (`AllSound`); `ChainInv` says that the wallet
acts only in blocks that exist, and that an analysis's view of the chain is not newer
than the chain. One step per action;
the chunk step rests on `FetchedHeld`: a query returns every row of its chunk, or the chunk is crowded.

`WalletIngestProofs` proves for any webhooks and jobs, whatever they carry, and any
number of failures and repeated deliveries:

- `TypesHold`: `Spec => []TypeOK`; what it takes is that a batch reaches its writes only
  with something to write (`TypeInv`).
- `ClaimsExclusive`: `Spec => []ExclusiveClaim`. Sets of held keys are not enough for
  induction, since a payload may name a transaction twice: `ClaimInv` speaks of the
  *positions* a batch holds (`Held`), says that their keys are claimed, and that no key is
  held at two places. A step adds nothing to what a batch holds, or the key
  it claims, which no one held because it was not claimed (`HeldStep`); releasing one
  key leaves all others claimed (`OwnHeld`, `OthersHold`).
- `ClaimsKept`: `Spec => []ClaimedIsKept`, with `WrittenInv`, how far each batch has come
  with its rows: whoever lets go of a key without releasing it has stored its
  transaction, or leaves the key behind (`OwnKept`, `NewKept`).
- `CountsBounded`: `Spec => []CountedPerFailure`. `CountInv` adds that a transaction that
  is not claimed, or is held and not yet materialized (`Uncounted`), has been counted
  at most once per failure: a batch that releases what it has counted has failed.
- `AcceptedHolds`: `Spec => []AcceptedIsIngested`. `AcceptInv` says how far each batch has come
  with statistics and graph (`Come`), that a claimed transaction is ingested, in a hand or left
  behind (`Gained`), and that one which is neither claimed nor ingested has a carrier that is
  still to claim it (`Awaited`). What is ingested stays so (`IngestedStays`).

and, for any chain, page, limit and window, however many transfers arrive between two pages:

- `ReadsHold`: `ReadsSpec => [](ReadsTypeOK /\ ReadIsWhole)`. `ReadInv` says of each kind of read
  that what is kept of the pages so far is what one page of them would have kept: of each key the
  newest for the EVM read, the window's for the Solana read, everything for the copilot's; and why
  a direction that has ended may end. Positions make this provable without
  recursion over sequences: what is read is a stretch of positions, the newest `n` of a set are
  those with fewer than `n` above, and the days of a chain do not fall, so that a read may stop
  at the first transfer before its window.

and, for any callers and finitely many facts and failures:

- `EnrichmentTypes`, `EnrichmentHolds`: `EnrichSpec => []EnrichmentAgrees`. `EnrichInv` counts the
  facts a call was not told against the failures (`Fetches`, `WorthKept`), and says who has written
  the key and still has to write the row: a caller that wrote alone is the only one (`CleanHolds`).
- `ComesIn`, `ComingTypes`, `ComingKeeps`: `ComesInWhole`, `ComingTypeOK` and the properties above of
  `ComingSpec`, the specification that the run `ingest` checks: each part of it is one of the three,
  or stands still.

`WorkersProofs` proves of the synchronisation, for any wallets, any number of overlapping
runs, any limit and failures:

- `SyncTypeCorrect`: the variables keep their types.
- `ActiveRows`: `SyncSpec => []ActiveUnlessNamed`. A row that tells the truth can be overwritten by a
  run that still has to write "active" for an address another run has taken away. The
  inductive invariant `HonestInv` speaks of the runs that are writing: whatever such a run
  still has to call active is known (`Known`): registered, displaced, or named. Known addresses
  stay known, since a run that replaces the provider's list displaces what it drops.

and of the queue, for any workers, requests, wallets, delays and failures:

- `QueueTypes`, `QueueTypesHold`: a worker holds a job exactly when its label says so, and
  expands only one of depth 2. What the proof shows of due times is that they are a retry's delay
  after a moment (`Dues`); that these are natural numbers rests on powers of two, which
  the provers do not know: `QueueTypesHold` takes it as a hypothesis, and that there are wallets.
- `JobsAccounted`: `EveryJobAccounted`. `PlaceInv` says that a name is in one list once, in one hand,
  or has ended once, and that none is missing and none invented; `LossInv` that losses and the
  releases under way do not exceed the failures.
- `ExpansionsPaid`: `ExpansionPerFailure`. `KeysInv` says that one worker has a key, that it is set
  and that its counterparty was told before at most once per failure; `Explained` names for
  each key that is set a job, a worker or a failure.
- `NothingIsPassedOver`: `NothingPassedOver`. By `PassInv` the jobs a poll still owes in the
  list it reads are among those it has still to look at, while others take from the head.
- `TrackedStays`: `DoneIsTracked`, which is inductive.
- `QueueImplementsBacklog`: the refinement of `WalletBacklog`, while the names issued are among
  `JobIds`, the bound of the abstract specification.
- `WorkersTypes`, `WorkersKeep`: `WorkersTypeOK` and the safety properties of both hold of
  `WorkersSpec`, which the run `workers` checks; the first takes over the two hypotheses on types.

`CopilotJobsProofs` proves for any number of processes, handlers, workers, wallets and failures:

- `TypeCorrect`: `Spec => []TypeOK`. `TypeInv` adds what each task may await (`Kind`) and
  which of its local variables the awaited call uses and has therefore set (`Locals`).
- `AnswersHold`: `Spec => []SuccessIsAnswerable`. A job is saved from copies, and a result may
  come from either cache; `AnswerInv` says of all of them that their wallet has a snapshot.
- `QuotaHolds`: `Spec => []FreshJobsWithinQuota`. The counter runs ahead of the jobs, and a
  runner's copy may bring a charged job back that has expired; `QuotaInv` counts the jobs that are
  charged in the store or in a runner's copy (`Paid`) and the handlers that have paid and not yet
  saved (`Paying`).
- `JobsAreExclusive`, `JobsBeginOnce`: in worker mode `ExclusiveJob` and `BegunOnce`. `WorkerInv`
  says for each label how often the job in hand was begun and what its record may say (`Stage`).
- `FairJobsBeginOnce`: `BegunOnce` in both modes, of the specification that `copilot_fair` runs. In inline mode
  a job has no queue and a timer in each process, so the theorem is about one process without
  worker invocations (`OneProcess`, `WorkersRest`). `InlineInv`: a job whose record waits has not been begun,
  nor has one that its timer is about to begin, and no timer has read a job that was not issued.
- `JobsFollowLifecycle`: in worker mode the service implements `JobLifecycle`, each step
  a step of it or a stutter.

`ServicesProofs` proves for any rules, channels, dispatchers, signals, failures and switches:

- `CooldownHolds`: `CooldownKept`. Two dispatches may both find no recent event; what stops them
  is that no two events of a rule share a deduplication key (`ApartInv`): three events in a stretch of
  one cooldown would have two in one bucket (`TwoPerWindow`). `CoverInv` says the same of
  dispatches under way: what such a one has done with is covered.
- `DeliveryHolds`: `DeliveredPerFailure`. `PaidInv` speaks of rows that may be sent for again,
  `HandledInv` and `BatchInv` of who may write a row; `AnswerInv` leaves the channels behind a
  dispatch answered, and `SilentInv` counts the events that are not, one per failure.
- `AlertTypes`: `AlertTypeOK`. `TriesInv`: a row is given up after its last try and only then, and
  what a retry batch holds is a row that was not. `CountInv`: the events of a rule and the
  dispatches that may still record one are together no more than the signals (`SignalsCount`), so
  event numbers stay in bounds.

The proof changed the property. It allowed for one silent event per signal and switch
of a channel; but one signal records an event for every rule, so with enough rules one switch
silences more. Channels that were ever switched (`switched`, a history variable)
now count for nothing, and failures alone must pay for the rest.

Of billing and caches, for any owners, subscriptions, requests, refreshes and failures:

- `BillingTypes`: `BillingTypeOK`. In `BillingInv` the order of the sync is a sequence of all owners,
  each once, of which a write moves one to the end; what is named is a subscription that its owner has at Stripe
  (`NamesKnown`); a webhook request that has begun has its event, and a run that has begun has accounts left
  to ask for.
- `CachesTypeCorrect`: the variables keep their types.
- `RefreshesAreFresh`: `CachesSpec => []FreshUnlessRaced`. Entries alone say too little, since a
  request still has to write what it has loaded. `FreshInv` says that a request has met a refresh, or
  a call has failed, or all is `Orderly`: requests hold what the stores hold, and each
  older entry that may be deleted has a refresh before it that will delete it.
- `ServicesTypes`, `ServicesKeep`: `ServicesTypeOK` and the safety properties of the three parts hold of
  `ServicesSpec`, which the run `services` checks.

`EvidenceProofs` proves for any runs, counterparties and transfers:

- `SignalsHold`: `SnapshotsSpec => []SignalsArrive`. `SignalInv` says how far each run has come
  (`RunCame`) and that who is about to write a bundle has written the candidate last, or met
  another run there (`WritersMet`).
- `SustainedHolds`, `OutcomesHold`: `SustainedIsEarned` and the action property
  `OutcomesStay`. `EntryInv` says of the copies in hand what the first says of the rows
  (`EarnedAll`), and that while runs follow each other no run at work looks at a moment before one at which
  an outcome was resolved (`OutcomesKnown`).
- `EvidenceHolds`: `EvidenceSpec => []EvidenceOfLatestRun`. The rows of a settled day may lie in any
  day up to it; `AloneAtWork` says what a run that met no other has deleted and stored so far,
  `SettledHolds` that no run at work is of a settled day.
- `EvidenceMovesScores`: one observation for a claim never lowers the score of a shadow exit or first
  connection report, one against it never raises it, from any counts. Clamps and caps are monotone;
  the gates are where it could fail: `CalibrationFollows` says that a calibrated score follows
  the net score, given that what passes a gate has the sufficiency the gate asks for.
- `SampleHolds`: the sample of a large graph is in each place the best peer left (`BestPicked`),
  because a scan in any order ends with it (`BestOfScan`), for any peers, relations
  and labels, and any limit. Ties are broken by the smaller identifier, which is what makes it deterministic.
- `ActivityMovesScore`: of the whole graph, a transfer fed in order, without hubs around, never lowers the cluster
  score, and a hub never raises it. The score is a fold over the sampled peers; `WholeScoreIsParts` turns the fold into
  cardinalities and sums over sets of peers, which grow; `InTime` says that no relation ends before it
  begins.
- `IndexHolds`: `CuratedSpec => [](CuratedTypeOK /\ IndexFollowsLists)`. What a rebuild writes is a
  fold over the lists; `CuratedInv` says of a rebuild that meets no other (`AloneCame`) that what is
  written and what is left to write are together what the lists say, of the tables, once trusted,
  that they are so (`TrustIsSo`), and of cached graphs, snapshots and what readers have in hand that
  they agree, will be dropped, or are overtaken.

What a fold computes would be proved by induction over its length, which cannot be stated here. Instead
`FoldLemmas` has that a set of numbers that is not empty has a least one, and each lemma about a fold
looks at the least place where it would fail.

One proof failed at first for want of an assumption on constants that the code satisfies and
the model did not state: that "no type" is not the type of a finding.

`RecordsProofs` proves for any prompts, goroutines, clients, names, items and tabs:

- `DailyLimitHolds`: `WithinDailyLimit` and `EmptyPerFailure`. The quota is read before the
  generation and counted after it: `QuotaCount` counts the goroutines in between; `PendingIsServed` says
  that without a failure a pending row has a goroutine at work.
- `PlanLimitsHold`: `WithinPlanLimits`, for finitely many clients. `ListCount` counts lists and the
  requests about to create one; `AloneIsWithin` says what a request that overlapped no other
  will leave.
- `RulesHold`: `TrackedOnce` and `SaidIsSo`. `AloneTracks` says that the one tab at work has found
  missing what it makes, `ActiveIsSo` that the list it will write back holds what its owner was told is
  tracked, `SaidOfRules` that what a tab has read of a rule and will write back is so.
- `EvidenceHasWeight`, of flows: `MarketFlowsCount`, for any finite set of transfers. One transfer more to
  a bridge or an exchange changes each count that the score takes in a direction that the proof
  follows through sums and sets of receivers and routes; what one more route takes off is at most its
  points, also behind the calibration's gates (`CalibrationLoses`).
- `PartsBehave`: a behaviour of `RecordsSpec` is one of each part's specification. From
  it `LimitsHold`, `PagesAreToldSo`, `RecordsKeep`, `ScoresKeep`, `TablesAreFollowed` and
  `EvidenceHasWeight` state the properties of the run `records` as theorems of the specification it checks.
- `RecordsTypes`: `RecordsSpec => []RecordsTypeOK`, from the types of each part (`ExplanationTypes`,
  `WatchlistTypes`, `AlertRuleTypes`, `EntryFeatureTypes`, `EvidenceTablesTypes`, `SignalRunTypes` and those
  above). Two are not plain: lists are numbered within the requests because the lists made and the
  requests about to make one are no more than the requests begun (`WatchCount`), and what a snapshot
  has in hand is, by its next call, transfers, tables or observations (`SnapFits`).

Every assumption is on constants and named in the module that declares them: tasks of
different kinds and webhooks and jobs are different, no batch is empty, limits and bounds are natural
numbers, the sets that are counted (goroutines, clients, rules, owners, facts, admins) are finite, the
absent caller is not a caller and no peer has the number 0, seeds and lists are of the items
and wallets there are. TLC evaluates them on every run. Some theorems take a hypothesis: one process
for `FairJobsBeginOnce`, and for `QueueTypesHold` and `WorkersTypes` that powers of two are natural numbers and
that there are wallets.

Every invariant and every action property that a passing run checks is a theorem of the
specification it runs, under these hypotheses. Only model-checked:

- liveness under fairness, which is out of the prover's reach: `QueuedJobsEnd`,
  `HistoryEventuallyIndexed`, `BackfillConverges`, `EventuallyIngested`, `WorkersSettle`,
  `ServicesSettle`, `AccountsFollowStripe`;
- the counterexamples of the five runs that are violated.

## 5. Not modelled

- Chain reorganisations: the code does not handle them.
- The `revalidate` cache of Next.js in front of Etherscan: ranges that are asked for
  again are below the head and do not change.
- Contents of reports, prices and PnL; price coverage only as the choice in
  `InsertSnapshot` whether performance is complete. Amounts of transfers are taken equal.
- `getOrSetWalletAnalysisCache`: the synchronous analysis route; it shares the cache
  with the jobs and none of their queue.
- The counter's change of day.
- The memory and file storage drivers (development).
- Expiry of deduplication keys after 90 days, of job records, and the side tables of the ingest (raw
  payloads, entities, labels, usage logs), which the modelled state does not read.
- Edge cases that are wrong or surprising in one step and need no model: a transfer's index is its
  position in the array fetched (`index-repository.ts:85`), a 429 retried outside the
  throttle (`etherscan-provider.ts:411`), the file driver's read-modify-write (`storage.ts:177`).
- The web interface beyond what its requests do to the modelled state: `wallet-detail-screen.tsx`,
  `wallet-graph-visual.tsx` and the admin console render what the API answers.
- Single statements of the admin console (labels, suppressions, quotas), read-only feeds,
  the row parsing of provider clients.

## 6. Plan

What is left, in order of worth:

1. `getOrSetWalletAnalysisCache`, the synchronous route, which fills the copilot's cache beside the jobs.
2. `ProviderBudget` and the throttles, the feeds with cursors, the reports of the copilot, and the storage drivers, as far as they are
   worth a run.
