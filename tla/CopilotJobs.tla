----------------------------- MODULE CopilotJobs -----------------------------
(***************************************************************************)
(* The wallet copilot's analysis jobs (apps/web/lib/wallet-copilot/jobs.ts)*)
(* with the cache, quota and queue they use (cache.ts, quota.ts,           *)
(* storage.ts).  Several server processes run request handlers, worker     *)
(* invocations and, in inline mode, job timers.  Each is a task: an async  *)
(* function whose program counter names the storage call it awaits.  An    *)
(* action is the effect of that call with the code that runs until the     *)
(* next await, so tasks interleave exactly at the awaits.                  *)
(*                                                                         *)
(* A result is abstracted to its lifetime coverage: the number of chunks   *)
(* of history still to be indexed, Chunks when no checkpoint exists.       *)
(***************************************************************************)
EXTENDS Integers, Sequences, FiniteSets

CONSTANTS
    Procs,              \* server processes that share one Redis
    Creators,           \* request handlers of POST /analyze/jobs
    Workers,            \* invocations of the worker and cron routes
    Home,               \* the process each handler and invocation runs in
    Keys,               \* cache keys: one address and one window of days each
    Modes,              \* execution modes, of "worker" and "inline"
    Chunks,             \* block chunks of a wallet's lifetime history
    BatchLimit,         \* the limit= parameter of a worker invocation
    QuotaLimit,         \* daily analysis limit of the (one) identity
    MaxJobs,            \* bound: job identifiers
    MaxRequests,        \* bound: create requests
    MaxDisturbances     \* bound: crashes, storage and provider errors, expiries

(* An inline timer is named by its process and its job, and is no other task. *)
ASSUME ProcsAssumption ==
    /\ Creators \cap Workers = {}
    /\ (Creators \cup Workers) \cap (Procs \X (1..MaxJobs)) = {}
    /\ IsFiniteSet(Creators)
    /\ Home \in [Creators \cup Workers -> Procs]
ASSUME ModeAssumption == Modes \subseteq {"worker", "inline"}
ASSUME BoundsAssumption ==
    /\ Chunks \in Nat \ {0}
    /\ BatchLimit \in 1..10
    /\ QuotaLimit \in Nat \ {0}
    /\ MaxJobs \in Nat /\ MaxRequests \in Nat /\ MaxDisturbances \in Nat

VARIABLES
    mode,                           \* the deployment's execution mode
    jobs, queue, cache, quotaUsed,  \* Redis: records, list, cache entries, counter
    cov, snapshots,                 \* Postgres: chunks left, wallets with a snapshot
    local, active,                  \* each process: cache map, activeJobIdsByCacheKey
    pc, job, rec, got, cont, left,  \* each task: awaited call and local variables
    issued, requests, disturbances, \* identifiers used; bounded counters
    starts                          \* history: times each job was begun

redisVars == <<jobs, queue, cache, quotaUsed>>
indexVars == <<cov, snapshots>>
procVars  == <<local, active>>
taskVars  == <<pc, job, rec, got, cont, left>>
vars == <<mode, jobs, queue, cache, quotaUsed, cov, snapshots, local, active, pc, job,
          rec, got, cont, left, issued, requests, disturbances, starts>>
-----------------------------------------------------------------------------
JobIds == 1..MaxJobs
NoJob == 0
None == -1
Coverage == 0..Chunks
Statuses == {"queued", "running", "succeeded", "failed"}

(* A saved job; result is job.result's coverage, charged says quota # null. *)
Records == [status : Statuses, key : Keys, result : Coverage \cup {None},
            charged : BOOLEAN]
NoRecord == [status |-> "absent"]

(* In inline mode each process may have one timer per job: runningJobIds. *)
Timers == IF "inline" \in Modes THEN Procs \X JobIds ELSE {}
Runners == Workers \cup Timers
Tasks == Creators \cup Runners
ProcOf(t) == IF t \in Timers THEN t[1] ELSE Home[t]

CreatorLabels == {"readCache", "lookup", "recheck", "charge", "save", "push"}
RunLabels == {"read", "claim", "advance", "compute", "window", "setCache",
              "saveDone", "contSave", "contPush", "saveFailed"}
Labels == {"idle", "pop"} \cup CreatorLabels \cup RunLabels

(* Coverage with both bounds known and history left below the indexed one. *)
NeedsContinuation(c) == c \in 1..(Chunks - 1)

IsActive(r) == r.status \in {"queued", "running"}

(* This process's own unexpired entry wins over the shared one. *)
CachedResult(p, k) == IF local[p][k] # None THEN local[p][k] ELSE cache[k]

Goto(t, label) == pc' = [pc EXCEPT ![t] = label]

(* ensureWalletAnalysisJobStarted of job j on t's process, as t goes to label. *)
GotoStarting(t, label, j) ==
    pc' = [u \in Tasks |->
              IF u = t THEN label
              ELSE IF mode = "inline" /\ u = <<ProcOf(t), j>> /\ pc[u] = "idle" THEN "read"
              ELSE pc[u]]

(* The records that task t saves, all from the copy it read or built at its start. *)
Answer(t) == [rec[t] EXCEPT !.status = "succeeded"]
Running(t) == [rec[t] EXCEPT !.status = "running"]
Succeeded(t) == [rec[t] EXCEPT !.status = "succeeded", !.result = got[t]]
Failed(t) == [rec[t] EXCEPT !.status = "failed", !.result = None]
Continuation(t) == [rec[t] EXCEPT !.result = got[t], !.charged = FALSE]

(* Task t's function has returned: its local variables are gone. *)
Forget(t) ==
    /\ job' = [job EXCEPT ![t] = IF t \in Timers THEN @ ELSE NoJob]
    /\ rec' = [rec EXCEPT ![t] = NoRecord]
    /\ got' = [got EXCEPT ![t] = None]
    /\ cont' = [cont EXCEPT ![t] = NoJob]

(* A runner is done with its job: a worker invocation goes on to its next. *)
NextJob(t) ==
    /\ Forget(t)
    /\ IF t \in Workers /\ left[t] > 1
       THEN Goto(t, "pop") /\ left' = [left EXCEPT ![t] = @ - 1]
       ELSE Goto(t, "idle") /\ left' = [left EXCEPT ![t] = 0]

(* An exception left the function: a worker invocation gives up its batch. *)
Abandon(t) ==
    /\ Forget(t)
    /\ Goto(t, "idle")
    /\ left' = [left EXCEPT ![t] = 0]

(* The finally block: drop this process's pointer if it still names the job. *)
DropActive(t) ==
    active' = [active EXCEPT ![ProcOf(t)][rec[t].key] = IF @ = job[t] THEN NoJob ELSE @]

PointActive(t, j) ==
    active' = [active EXCEPT ![ProcOf(t)][rec[t].key] = j]
-----------------------------------------------------------------------------
Init ==
    /\ mode \in Modes
    /\ jobs = [j \in JobIds |-> NoRecord]
    /\ queue = <<>>
    /\ cache = [k \in Keys |-> None]
    /\ quotaUsed = 0
    /\ cov = [k \in Keys |-> Chunks]
    /\ snapshots = {}
    /\ local = [p \in Procs |-> [k \in Keys |-> None]]
    /\ active = [p \in Procs |-> [k \in Keys |-> NoJob]]
    /\ pc = [t \in Tasks |-> "idle"]
    /\ job = [t \in Tasks |-> IF t \in Timers THEN t[2] ELSE NoJob]
    /\ rec = [t \in Tasks |-> NoRecord]
    /\ got = [t \in Tasks |-> None]
    /\ cont = [t \in Tasks |-> NoJob]
    /\ left = [t \in Tasks |-> 0]
    /\ issued = 0 /\ requests = 0 /\ disturbances = 0
    /\ starts = [j \in JobIds |-> 0]
-----------------------------------------------------------------------------
(* createWalletAnalysisJob *)

Submit(c, k) ==
    /\ pc[c] = "idle"
    /\ requests < MaxRequests
    /\ requests' = requests + 1
    /\ rec' = [rec EXCEPT ![c] = [status |-> "queued", key |-> k, result |-> None,
                                  charged |-> FALSE]]
    /\ Goto(c, "readCache")
    /\ UNCHANGED <<redisVars, indexVars, procVars, job, got, cont, left, issued,
                   disturbances, starts>>

(* getWalletAnalysisCache fills the process's own map from the shared entry. *)
ReadCache(c) ==
    LET p == ProcOf(c)
        k == rec[c].key
    IN  /\ pc[c] = "readCache"
        /\ rec' = [rec EXCEPT ![c].result = CachedResult(p, k)]
        /\ local' = [local EXCEPT ![p][k] = CachedResult(p, k)]
        /\ Goto(c, "lookup")
        /\ UNCHANGED <<redisVars, indexVars, active, job, got, cont, left, issued,
                       requests, disturbances, starts>>

CacheSuffices(c) == rec[c].result # None /\ ~NeedsContinuation(rec[c].result)

AnswerFromCache(c) ==
    /\ pc[c] = "lookup"
    /\ CacheSuffices(c)
    /\ issued < MaxJobs
    /\ issued' = issued + 1
    /\ jobs' = [jobs EXCEPT ![issued + 1] = Answer(c)]
    /\ Abandon(c)
    /\ UNCHANGED <<queue, cache, quotaUsed, indexVars, procVars, requests,
                   disturbances, starts>>

LookupActive(c) ==
    LET j == active[ProcOf(c)][rec[c].key]
    IN  /\ pc[c] = "lookup"
        /\ ~CacheSuffices(c)
        /\ job' = [job EXCEPT ![c] = j]
        /\ Goto(c, IF j = NoJob THEN "charge" ELSE "recheck")
        /\ UNCHANGED <<redisVars, indexVars, procVars, rec, got, cont, left, issued,
                       requests, disturbances, starts>>

ReuseActive(c) ==
    /\ pc[c] = "recheck"
    /\ IsActive(jobs[job[c]])
    /\ Forget(c)
    /\ GotoStarting(c, "idle", job[c])
    /\ UNCHANGED <<redisVars, indexVars, procVars, left, issued, requests,
                   disturbances, starts>>

ActiveHasEnded(c) ==
    /\ pc[c] = "recheck"
    /\ ~IsActive(jobs[job[c]])
    /\ job' = [job EXCEPT ![c] = NoJob]
    /\ Goto(c, "charge")
    /\ UNCHANGED <<redisVars, indexVars, procVars, rec, got, cont, left, issued,
                   requests, disturbances, starts>>

(* A cached partial result continues without consuming quota. *)
ContinueCached(c) ==
    /\ pc[c] = "charge"
    /\ rec[c].result # None
    /\ Goto(c, "save")
    /\ UNCHANGED <<redisVars, indexVars, procVars, job, rec, got, cont, left, issued,
                   requests, disturbances, starts>>

(* Mutant of ConsumeQuota: the count is compared before it is incremented. *)
ConsumeQuotaOffByOne(c) ==
    /\ pc[c] = "charge"
    /\ rec[c].result = None
    /\ quotaUsed' = quotaUsed + 1
    /\ IF quotaUsed > QuotaLimit
       THEN Abandon(c)
       ELSE /\ rec' = [rec EXCEPT ![c].charged = TRUE]
            /\ Goto(c, "save")
            /\ UNCHANGED <<job, got, cont, left>>
    /\ UNCHANGED <<jobs, queue, cache, indexVars, procVars, issued, requests,
                   disturbances, starts>>

(* consumePublicQuota: one INCR, compared with the limit afterwards. *)
ConsumeQuota(c) ==
    /\ pc[c] = "charge"
    /\ rec[c].result = None
    /\ quotaUsed' = quotaUsed + 1
    /\ IF quotaUsed + 1 > QuotaLimit
       THEN Abandon(c)
       ELSE /\ rec' = [rec EXCEPT ![c].charged = TRUE]
            /\ Goto(c, "save")
            /\ UNCHANGED <<job, got, cont, left>>
    /\ UNCHANGED <<jobs, queue, cache, indexVars, procVars, issued, requests,
                   disturbances, starts>>

SaveQueued(c) ==
    /\ pc[c] = "save"
    /\ issued < MaxJobs
    /\ issued' = issued + 1
    /\ jobs' = [jobs EXCEPT ![issued + 1] = rec[c]]
    /\ job' = [job EXCEPT ![c] = issued + 1]
    /\ Goto(c, "push")
    /\ UNCHANGED <<queue, cache, quotaUsed, indexVars, procVars, rec, got, cont, left,
                   requests, disturbances, starts>>

(* Mutant of Push: the handler answers before it enqueues or starts the job. *)
PushForgotten(c) ==
    /\ pc[c] = "push"
    /\ PointActive(c, job[c])
    /\ Abandon(c)
    /\ UNCHANGED <<jobs, queue, cache, quotaUsed, indexVars, local, issued, requests,
                   disturbances, starts>>

(* activeJobIdsByCacheKey.set, then RPUSH; inline mode also starts a timer. *)
Push(c) ==
    /\ pc[c] = "push"
    /\ PointActive(c, job[c])
    /\ queue' = Append(queue, job[c])
    /\ Forget(c)
    /\ GotoStarting(c, "idle", job[c])
    /\ UNCHANGED <<jobs, cache, quotaUsed, indexVars, local, left, issued, requests,
                   disturbances, starts>>

(* A status poll on process p: in inline mode it starts an active job's timer. *)
Poll(p, j) ==
    /\ mode = "inline"
    /\ IsActive(jobs[j])
    /\ pc[<<p, j>>] = "idle"
    /\ Goto(<<p, j>>, "read")
    /\ UNCHANGED <<redisVars, indexVars, procVars, job, rec, got, cont, left, issued,
                   requests, disturbances, starts>>
-----------------------------------------------------------------------------
(* processWalletAnalysisQueue *)

(* Mutant of Invoke: the limit parameter is not clamped. *)
InvokeUnclamped(w) ==
    /\ pc[w] = "idle"
    /\ Goto(w, "pop")
    /\ left' = [left EXCEPT ![w] = BatchLimit + 1]
    /\ UNCHANGED <<redisVars, indexVars, procVars, job, rec, got, cont, issued,
                   requests, disturbances, starts>>

Invoke(w) ==
    /\ pc[w] = "idle"
    /\ Goto(w, "pop")
    /\ left' = [left EXCEPT ![w] = BatchLimit]
    /\ UNCHANGED <<redisVars, indexVars, procVars, job, rec, got, cont, issued,
                   requests, disturbances, starts>>

(* Mutant of Pop: the head is read first and removed by a later call. *)
PopReadsHead(w) ==
    /\ pc[w] = "pop"
    /\ queue # <<>>
    /\ job' = [job EXCEPT ![w] = Head(queue)]
    /\ Goto(w, "read")
    /\ UNCHANGED <<redisVars, indexVars, procVars, rec, got, cont, left, issued,
                   requests, disturbances, starts>>

Pop(w) ==
    /\ pc[w] = "pop"
    /\ queue # <<>>
    /\ job' = [job EXCEPT ![w] = Head(queue)]
    /\ queue' = Tail(queue)
    /\ Goto(w, "read")
    /\ UNCHANGED <<jobs, cache, quotaUsed, indexVars, procVars, rec, got, cont, left,
                   issued, requests, disturbances, starts>>

PopEmpty(w) ==
    /\ pc[w] = "pop"
    /\ queue = <<>>
    /\ Abandon(w)
    /\ UNCHANGED <<redisVars, indexVars, procVars, issued, requests, disturbances,
                   starts>>
-----------------------------------------------------------------------------
(* runWalletAnalysisJob and executeWalletAnalysisJob *)

(* Mutant of ReadQueued: the early return for a running job is dropped. *)
ReadActive(r) ==
    LET j == job[r]
    IN  /\ pc[r] = "read"
        /\ IsActive(jobs[j])
        /\ rec' = [rec EXCEPT ![r] = jobs[j]]
        /\ GotoStarting(r, "claim", j)
        /\ UNCHANGED <<redisVars, indexVars, procVars, job, got, cont, left, issued,
                       requests, disturbances, starts>>

ReadQueued(r) ==
    LET j == job[r]
    IN  /\ pc[r] = "read"
        /\ jobs[j].status = "queued"
        /\ rec' = [rec EXCEPT ![r] = jobs[j]]
        /\ GotoStarting(r, "claim", j)
        /\ UNCHANGED <<redisVars, indexVars, procVars, job, got, cont, left, issued,
                       requests, disturbances, starts>>

(* Expired, already running or already ended: nothing to run.  (The timer a worker
   starts for a running job in inline mode would only read the same and stop.) *)
SkipNotQueued(r) ==
    /\ pc[r] = "read"
    /\ jobs[job[r]].status # "queued"
    /\ NextJob(r)
    /\ UNCHANGED <<redisVars, indexVars, procVars, issued, requests, disturbances,
                   starts>>

(* Mutant of Claim: every job takes the continuation path. *)
ClaimAlwaysResumes(r) ==
    LET j == job[r]
    IN  /\ pc[r] = "claim"
        /\ jobs' = [jobs EXCEPT ![j] = Running(r)]
        /\ starts' = [starts EXCEPT ![j] = @ + 1]
        /\ Goto(r, "advance")
        /\ UNCHANGED <<queue, cache, quotaUsed, indexVars, procVars, job, rec, got, cont,
                       left, issued, requests, disturbances>>

(* The status is written from the record read before: not a compare-and-set. *)
Claim(r) ==
    LET j == job[r]
    IN  /\ pc[r] = "claim"
        /\ jobs' = [jobs EXCEPT ![j] = Running(r)]
        /\ starts' = [starts EXCEPT ![j] = @ + 1]
        /\ Goto(r, IF NeedsContinuation(rec[r].result) THEN "advance" ELSE "compute")
        /\ UNCHANGED <<queue, cache, quotaUsed, indexVars, procVars, job, rec, got, cont,
                       left, issued, requests, disturbances>>

(* advanceLifetimeBackfill indexes one more chunk, or finds none left. *)
ChunkIndexed(k) ==
    /\ cov' = [cov EXCEPT ![k] = IF @ = 0 THEN 0 ELSE @ - 1]
    /\ UNCHANGED disturbances

(* It failed, and the caller falls back on the stored checkpoint, if it can read it
   and if the bounds, BIGINTs that the driver returns as strings, compare as
   numbers do: else the result looks like one with no checkpoint. *)
ChunkFailed(k, result) ==
    /\ disturbances < MaxDisturbances
    /\ disturbances' = disturbances + 1
    /\ UNCHANGED cov
    /\ result \in {cov[k], Chunks}

(* A continuation: the cached report is kept while history remains. *)
AdvanceCheckpoint(r) ==
    LET k == rec[r].key
    IN  /\ pc[r] = "advance"
        /\ \/ /\ ChunkIndexed(k)
              /\ IF cov'[k] = 0
                 THEN Goto(r, "compute") /\ UNCHANGED got
                 ELSE Goto(r, "setCache") /\ got' = [got EXCEPT ![r] = cov'[k]]
           \/ \E result \in Coverage :
                 /\ ChunkFailed(k, result)
                 /\ Goto(r, "setCache")
                 /\ got' = [got EXCEPT ![r] = result]
        /\ UNCHANGED <<redisVars, snapshots, procVars, job, rec, cont, left, issued,
                       requests, starts>>

(* computeWalletAnalysis: the checkpoint first, then the selected window. *)
ComputeCheckpoint(r) ==
    LET k == rec[r].key
    IN  /\ pc[r] = "compute"
        /\ \E result \in Coverage :
              /\ (ChunkIndexed(k) /\ result = cov'[k]) \/ ChunkFailed(k, result)
              /\ got' = [got EXCEPT ![r] = result]
        /\ Goto(r, "window")
        /\ UNCHANGED <<redisVars, snapshots, procVars, job, rec, cont, left, issued,
                       requests, starts>>

(* Mutant of ReportStage: the callback is not awaited and may land late. *)
ReportStageLate(r) ==
    /\ pc[r] \in {"compute", "window", "setCache", "saveDone", "contSave", "contPush"}
    /\ jobs' = [jobs EXCEPT ![job[r]] = Running(r)]
    /\ UNCHANGED <<queue, cache, quotaUsed, indexVars, procVars, taskVars, issued,
                   requests, disturbances, starts>>

(* onStage: the record is written again, from the copy read at the start. *)
ReportStage(r) ==
    /\ pc[r] \in {"compute", "window"}
    /\ jobs' = [jobs EXCEPT ![job[r]] = Running(r)]
    /\ UNCHANGED <<queue, cache, quotaUsed, indexVars, procVars, taskVars, issued,
                   requests, disturbances, starts>>

PersistSnapshot(r) ==
    /\ pc[r] = "window"
    /\ snapshots' = snapshots \cup {rec[r].key}
    /\ Goto(r, "setCache")
    /\ UNCHANGED <<redisVars, cov, procVars, job, rec, got, cont, left, issued,
                   requests, disturbances, starts>>

(* Provider, model or database error: the catch block will record it. *)
AnalysisFails(r) ==
    /\ pc[r] \in {"compute", "window"}
    /\ Goto(r, "saveFailed")
    /\ UNCHANGED <<redisVars, indexVars, procVars, job, rec, got, cont, left, issued,
                   requests, disturbances, starts>>

SetCache(r) ==
    LET p == ProcOf(r)
        k == rec[r].key
    IN  /\ pc[r] = "setCache"
        /\ local' = [local EXCEPT ![p][k] = got[r]]
        /\ cache' = [cache EXCEPT ![k] = got[r]]
        /\ Goto(r, "saveDone")
        /\ UNCHANGED <<jobs, queue, quotaUsed, indexVars, active, job, rec, got, cont,
                       left, issued, requests, disturbances, starts>>

(* Mutant of SaveSucceeded: the old result decides on a continuation. *)
SaveSucceededStaleCheck(r) ==
    /\ pc[r] = "saveDone"
    /\ jobs' = [jobs EXCEPT ![job[r]] = Succeeded(r)]
    /\ IF mode = "worker" /\ rec[r].result # None /\ NeedsContinuation(rec[r].result)
       THEN Goto(r, "contSave") /\ UNCHANGED <<active, job, rec, got, cont, left>>
       ELSE DropActive(r) /\ NextJob(r)
    /\ UNCHANGED <<queue, cache, quotaUsed, indexVars, local, issued, requests,
                   disturbances, starts>>

SaveSucceeded(r) ==
    /\ pc[r] = "saveDone"
    /\ jobs' = [jobs EXCEPT ![job[r]] = Succeeded(r)]
    /\ IF mode = "worker" /\ NeedsContinuation(got[r])
       THEN Goto(r, "contSave") /\ UNCHANGED <<active, job, rec, got, cont, left>>
       ELSE DropActive(r) /\ NextJob(r)
    /\ UNCHANGED <<queue, cache, quotaUsed, indexVars, local, issued, requests,
                   disturbances, starts>>

(* enqueueLifetimeContinuation *)
SaveContinuation(r) ==
    /\ pc[r] = "contSave"
    /\ issued < MaxJobs
    /\ issued' = issued + 1
    /\ jobs' = [jobs EXCEPT ![issued + 1] = Continuation(r)]
    /\ cont' = [cont EXCEPT ![r] = issued + 1]
    /\ Goto(r, "contPush")
    /\ UNCHANGED <<queue, cache, quotaUsed, indexVars, procVars, job, rec, got, left,
                   requests, disturbances, starts>>

PushContinuation(r) ==
    /\ pc[r] = "contPush"
    /\ PointActive(r, cont[r])
    /\ queue' = Append(queue, cont[r])
    /\ NextJob(r)
    /\ UNCHANGED <<jobs, cache, quotaUsed, indexVars, local, issued, requests,
                   disturbances, starts>>

SaveFailed(r) ==
    /\ pc[r] = "saveFailed"
    /\ jobs' = [jobs EXCEPT ![job[r]] = Failed(r)]
    /\ DropActive(r)
    /\ NextJob(r)
    /\ UNCHANGED <<queue, cache, quotaUsed, indexVars, local, issued, requests,
                   disturbances, starts>>
-----------------------------------------------------------------------------
(* Disturbances: errors of Redis, crashes of a process, expired records *)

Disturb == /\ disturbances < MaxDisturbances
           /\ disturbances' = disturbances + 1

(* What the awaited write leaves in Redis when its reply is lost. *)
EffectOnly(t) ==
    \/ /\ pc[t] = "charge" /\ quotaUsed' = quotaUsed + 1
       /\ UNCHANGED <<jobs, queue, cache, issued, starts>>
    \/ /\ pc[t] \in {"lookup", "save", "contSave"} /\ issued < MaxJobs
       /\ issued' = issued + 1
       /\ jobs' = [jobs EXCEPT ![issued + 1] =
                      CASE pc[t] = "lookup" -> Answer(t)
                        [] pc[t] = "save" -> rec[t]
                        [] pc[t] = "contSave" -> Continuation(t)]
       /\ UNCHANGED <<queue, cache, quotaUsed, starts>>
    \/ /\ pc[t] = "claim"
       /\ jobs' = [jobs EXCEPT ![job[t]] = Running(t)]
       /\ starts' = [starts EXCEPT ![job[t]] = @ + 1]
       /\ UNCHANGED <<queue, cache, quotaUsed, issued>>
    \/ /\ pc[t] = "setCache" /\ cache' = [cache EXCEPT ![rec[t].key] = got[t]]
       /\ UNCHANGED <<jobs, queue, quotaUsed, issued, starts>>
    \/ /\ pc[t] \in {"saveDone", "saveFailed"}
       /\ jobs' = [jobs EXCEPT ![job[t]] =
                      IF pc[t] = "saveDone" THEN Succeeded(t) ELSE Failed(t)]
       /\ UNCHANGED <<queue, cache, quotaUsed, issued, starts>>

(* A storage call outside the try block throws, before or after its effect: the
   handler answers an error, the invocation ends.  A popped job is then in nobody's
   hands. *)
CallThrows(t) ==
    /\ \/ pc[t] \in {"readCache", "recheck", "save", "pop", "read", "claim"}
       \/ pc[t] = "lookup" /\ CacheSuffices(t)
       \/ pc[t] = "charge" /\ rec[t].result = None
    /\ Disturb
    /\ Abandon(t)
    /\ UNCHANGED <<redisVars, issued, starts>> \/ EffectOnly(t)
    /\ UNCHANGED <<indexVars, procVars, requests>>

(* The RPUSH of a new job fails, or only the EXPIRE after it does. *)
PushThrows(c) ==
    /\ pc[c] = "push"
    /\ Disturb
    /\ PointActive(c, job[c])
    /\ queue' \in {queue, Append(queue, job[c])}
    /\ Abandon(c)
    /\ UNCHANGED <<jobs, cache, quotaUsed, indexVars, local, issued, requests, starts>>

(* LPOP took the identifier but its reply was lost. *)
PopReplyLost(w) ==
    /\ pc[w] = "pop"
    /\ queue # <<>>
    /\ Disturb
    /\ queue' = Tail(queue)
    /\ Abandon(w)
    /\ UNCHANGED <<jobs, cache, quotaUsed, indexVars, procVars, issued, requests, starts>>

(* A storage call inside the try block throws, continuation included. *)
RunThrows(r) ==
    /\ pc[r] \in {"setCache", "saveDone", "contSave", "contPush"}
    /\ Disturb
    /\ Goto(r, "saveFailed")
    /\ IF pc[r] = "setCache"
       THEN local' = [local EXCEPT ![ProcOf(r)][rec[r].key] = got[r]]
       ELSE UNCHANGED local
    /\ IF pc[r] = "contPush"
       THEN /\ PointActive(r, cont[r])
            /\ queue' \in {queue, Append(queue, cont[r])}
            /\ UNCHANGED <<jobs, cache, quotaUsed, issued, starts>>
       ELSE /\ UNCHANGED <<redisVars, issued, starts>> \/ EffectOnly(r)
            /\ UNCHANGED active
    /\ cont' = [cont EXCEPT ![r] = NoJob]
    /\ UNCHANGED <<indexVars, job, rec, got, left, requests>>

(* Even the catch block's save throws; the finally block still runs. *)
FailureUnrecorded(r) ==
    /\ pc[r] = "saveFailed"
    /\ Disturb
    /\ DropActive(r)
    /\ Abandon(r)
    /\ UNCHANGED <<redisVars, issued, starts>> \/ EffectOnly(r)
    /\ UNCHANGED <<indexVars, local, requests>>

(* A process dies and restarts with empty maps; Redis and Postgres stay. *)
Crash(p) ==
    /\ Disturb
    /\ local' = [local EXCEPT ![p] = [k \in Keys |-> None]]
    /\ active' = [active EXCEPT ![p] = [k \in Keys |-> NoJob]]
    /\ pc' = [t \in Tasks |-> IF ProcOf(t) = p THEN "idle" ELSE pc[t]]
    /\ job' = [t \in Tasks |-> IF ProcOf(t) = p /\ t \notin Timers THEN NoJob ELSE job[t]]
    /\ rec' = [t \in Tasks |-> IF ProcOf(t) = p THEN NoRecord ELSE rec[t]]
    /\ got' = [t \in Tasks |-> IF ProcOf(t) = p THEN None ELSE got[t]]
    /\ cont' = [t \in Tasks |-> IF ProcOf(t) = p THEN NoJob ELSE cont[t]]
    /\ left' = [t \in Tasks |-> IF ProcOf(t) = p THEN 0 ELSE left[t]]
    /\ UNCHANGED <<redisVars, indexVars, issued, requests, starts>>

(* A record reaches its TTL; every save renews it. *)
ExpireRecord(j) ==
    /\ jobs[j] # NoRecord
    /\ Disturb
    /\ jobs' = [jobs EXCEPT ![j] = NoRecord]
    /\ UNCHANGED <<queue, cache, quotaUsed, indexVars, procVars, taskVars, issued,
                   requests, starts>>

(* The list's TTL is renewed by every push, later than the records it names. *)
ExpireQueue ==
    /\ queue # <<>>
    /\ \A i \in DOMAIN queue : jobs[queue[i]] = NoRecord
    /\ queue' = <<>>
    /\ UNCHANGED <<jobs, cache, quotaUsed, indexVars, procVars, taskVars, issued,
                   requests, disturbances, starts>>

ExpireCache(k) ==
    /\ cache[k] # None
    /\ cache' = [cache EXCEPT ![k] = None]
    /\ UNCHANGED <<jobs, queue, quotaUsed, indexVars, procVars, taskVars, issued,
                   requests, disturbances, starts>>

ExpireLocal(p, k) ==
    /\ local[p][k] # None
    /\ local' = [local EXCEPT ![p][k] = None]
    /\ UNCHANGED <<redisVars, indexVars, active, taskVars, issued, requests,
                   disturbances, starts>>
-----------------------------------------------------------------------------
CreatorStep(c) ==
    \/ ReadCache(c) \/ AnswerFromCache(c) \/ LookupActive(c) \/ ReuseActive(c)
    \/ ActiveHasEnded(c) \/ ContinueCached(c) \/ ConsumeQuota(c) \/ SaveQueued(c)
    \/ Push(c)

WorkerStep(w) == Invoke(w) \/ Pop(w) \/ PopEmpty(w)

RunStep(r) ==
    \/ ReadQueued(r) \/ SkipNotQueued(r) \/ Claim(r) \/ AdvanceCheckpoint(r)
    \/ ComputeCheckpoint(r) \/ PersistSnapshot(r) \/ AnalysisFails(r) \/ SetCache(r)
    \/ SaveSucceeded(r) \/ SaveContinuation(r) \/ PushContinuation(r) \/ SaveFailed(r)

Disturbance ==
    \/ \E t \in Tasks : CallThrows(t)
    \/ \E c \in Creators : PushThrows(c)
    \/ \E w \in Workers : PopReplyLost(w)
    \/ \E r \in Runners : RunThrows(r) \/ FailureUnrecorded(r)
    \/ \E p \in Procs : Crash(p)
    \/ \E j \in JobIds : ExpireRecord(j)

Expiry ==
    \/ ExpireQueue
    \/ \E k \in Keys : ExpireCache(k)
    \/ \E p \in Procs, k \in Keys : ExpireLocal(p, k)

TaskNext ==
    \/ \E c \in Creators, k \in Keys : Submit(c, k)
    \/ \E c \in Creators : CreatorStep(c)
    \/ \E p \in Procs, j \in JobIds : Poll(p, j)
    \/ \E w \in Workers : WorkerStep(w)
    \/ \E r \in Runners : RunStep(r) \/ ReportStage(r)
    \/ Disturbance
    \/ Expiry

Next == TaskNext /\ UNCHANGED mode

Spec == Init /\ [][Next]_vars

(* Node runs every callback whose storage call has returned, and where jobs are left to
   workers cron keeps invoking their route.  Clients, errors, crashes and expiry are free. *)
Fairness ==
    /\ \A c \in Creators : WF_vars(CreatorStep(c) /\ UNCHANGED mode)
    /\ \A w \in Workers : WF_vars(mode = "worker" /\ WorkerStep(w) /\ UNCHANGED mode)
    /\ \A r \in Runners : WF_vars(RunStep(r) /\ UNCHANGED mode)

FairSpec == Spec /\ Fairness
-----------------------------------------------------------------------------
(* Every variable keeps its type; the bounds of the model are respected. *)
TypeOK ==
    /\ mode \in Modes
    /\ jobs \in [JobIds -> Records \cup {NoRecord}]
    /\ queue \in Seq(JobIds)
    /\ cache \in [Keys -> Coverage \cup {None}]
    /\ quotaUsed \in Nat
    /\ cov \in [Keys -> Coverage]
    /\ snapshots \in SUBSET Keys
    /\ local \in [Procs -> [Keys -> Coverage \cup {None}]]
    /\ active \in [Procs -> [Keys -> JobIds \cup {NoJob}]]
    /\ pc \in [Tasks -> Labels]
    /\ job \in [Tasks -> JobIds \cup {NoJob}]
    /\ rec \in [Tasks -> Records \cup {NoRecord}]
    /\ got \in [Tasks -> Coverage \cup {None}]
    /\ cont \in [Tasks -> JobIds \cup {NoJob}]
    /\ left \in [Tasks -> 0..BatchLimit]
    /\ issued \in 0..MaxJobs
    /\ requests \in 0..MaxRequests
    /\ disturbances \in 0..MaxDisturbances
    /\ starts \in [JobIds -> Nat]

(* Task t is the one that will push or run job j. *)
Holds(t, j) ==
    \/ t \in Creators /\ pc[t] = "push" /\ job[t] = j
    \/ t \in Runners /\ pc[t] \in RunLabels /\ job[t] = j
    \/ t \in Runners /\ pc[t] = "contPush" /\ cont[t] = j

(* Whatever fails, a job is in at most one place: once in the queue, or with one
   task.  The claim in runWalletAnalysisJob reads the status and writes it in two
   calls, so two runners of one job would both begin it; what prevents that is
   that the identifier is pushed once and popped once. *)
ExclusiveJob ==
    /\ \A i, k \in DOMAIN queue : queue[i] = queue[k] => i = k
    /\ \A t \in Tasks, i \in DOMAIN queue : ~Holds(t, queue[i])
    /\ \A t, u \in Tasks, j \in JobIds : Holds(t, j) /\ Holds(u, j) => t = u

(* A client that sees a job succeed can ask questions about it at once, even when
   the cache entry has expired: the snapshot is stored before the status. *)
SuccessIsAnswerable ==
    \A j \in JobIds : jobs[j].status = "succeeded" => jobs[j].key \in snapshots

(* However requests interleave over the processes, and whatever fails, no more
   analyses are started from nothing than the identity's daily limit. *)
FreshJobsWithinQuota ==
    Cardinality({j \in JobIds : jobs[j] # NoRecord /\ jobs[j].charged}) <= QuotaLimit

(* No job's analysis is begun twice.  Inline mode relies on runningJobIds and on
   reading the record again when the timer fires. *)
BegunOnce == \A j \in JobIds : starts[j] <= 1

(* The abstract job service: begun once, ended once, failure final. *)
Lifecycle == INSTANCE JobLifecycle WITH
    known <- 1..issued,
    status <- [j \in JobIds |-> jobs[j].status],
    begun <- starts

ImplementsLifecycle == Lifecycle!Spec

(* Every queued job is eventually answered, unless something fails, crashes or
   expires: a lost identifier is never requeued.  In inline mode that is said of the jobs
   a request was charged for: the timer of a continuation waits for a client to poll it. *)
QueuedJobsEnd ==
    \A j \in JobIds :
        (jobs[j].status = "queued" /\ (mode = "worker" \/ jobs[j].charged))
            ~> (jobs[j].status \in {"succeeded", "failed"} \/ disturbances > 0)

(* One analysis is enough to index a wallet's whole history: in worker mode each
   partial success queues its continuation until no chunk is left, if nothing
   fails on the way. *)
HistoryEventuallyIndexed ==
    \A k \in Keys :
        (\E j \in JobIds : /\ mode = "worker"
                            /\ jobs[j].status = "succeeded"
                            /\ jobs[j].key = k
                            /\ NeedsContinuation(jobs[j].result))
            ~> (cov[k] = 0 \/ disturbances > 0)
=============================================================================
