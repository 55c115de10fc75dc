---------------------------- MODULE BackfillQueue ----------------------------
(***************************************************************************)
(* The Redis lists of wallet backfill jobs, those who enqueue and those    *)
(* who drain.  A job that is not due yet stays in its list: a worker that  *)
(* meets it takes it off the head and puts it back at the tail, so several *)
(* workers rotate the same list at once.  A job in a worker's memory is    *)
(* nowhere else.  A batch is one step here; WalletIngest is its detail.    *)
(***************************************************************************)
EXTENDS WalletStatus, Integers, Sequences, FiniteSets

CONSTANTS
    Workers,            \* processes that drain the queue
    Requests,           \* searches, watchlist entries and seeds
    RequestOf,          \* the wallet, source and depth each asks for
    Neighbors,          \* the counterparties of a wallet
    Evidence,           \* the status that a wallet's backfill finds: tracked, labeled
    RetryBase, RetryMax,\* walletBackfillRetryBaseDelay, ...MaxDelay
    MaxFailures,        \* bound: failed calls and crashes
    JobIds              \* the jobs that the properties follow

Sources == {"search", "watchlist", "seed_list", "expansion"}
Lists == {"priority", "default"}

ASSUME RequestAssumption ==
    RequestOf \in [Requests -> [wallet : Wallets, depth : {1, 2},
                                source : Sources \ {"expansion"}]]
ASSUME WalletAssumption == /\ Neighbors \in [Wallets -> SUBSET Wallets]
                           /\ Evidence \in [Wallets -> {"tracked", "labeled"}]
ASSUME DelayAssumption == RetryBase \in Nat /\ RetryMax \in Nat
ASSUME BoundsAssumption == MaxFailures \in Nat /\ JobIds \subseteq Nat \ {0}

VARIABLES
    queue,              \* Redis: the two lists
    keys,               \* Redis: deduplication keys that are set
    clock,              \* the time
    issued,             \* number of jobs that were ever enqueued
    asking,             \* what each request does next
    pc, hand,           \* each worker: its next call and the job it holds
    began,              \* each worker: the time its poll began
    reading, left,      \* each worker: the list it reads, how many pops it has left
    todo,               \* each worker: counterparties still to enqueue
    failures,           \* bounded counter
    done, lost,         \* history: jobs that succeeded, that failures ended
    backfilled,         \* history: wallets that a job has succeeded for
    abandoned,          \* history: keys that a failure left set without a job
    children,           \* history: jobs enqueued for each expansion key
    owed                \* history: each worker: jobs its poll has counted and not met

redis == <<queue, keys, issued>>
poll == <<began, reading, left, owed>>
ends == <<done, lost, backfilled>>
history == <<done, lost, backfilled, abandoned, children>>
queueVars == <<status, queue, keys, clock, issued, asking, pc, hand, began, reading,
               left, todo, failures, done, lost, backfilled, abandoned, children, owed>>

Labels == {"idle", "pop", "push", "ingest", "expand", "child", "release", "finish", "retry"}
Busy == Labels \ {"idle", "pop", "push"}

NoJob == [id |-> 0, wallet |-> CHOOSE w \in Wallets : TRUE, source |-> "search",
          seed |-> FALSE, depth |-> 1, tries |-> 0, due |-> 0]
Jobs == [id : Nat, wallet : Wallets, source : Sources, seed : BOOLEAN, depth : {1, 2},
         tries : Nat, due : Nat]

RequestKey(r) == <<RequestOf[r].source, RequestOf[r].wallet>>
ExpansionKey(job, w) == <<"expansion", w, job.wallet>>
ExpansionKeys == {"expansion"} \X Wallets \X Wallets
Keys == (Sources \X Wallets) \cup ExpansionKeys

maxQueuedExpansionCounterparties == 5
-----------------------------------------------------------------------------
(* Operations of the queue *)

(* Seeds and searches, and the retries and expansions of seeds, go first. *)
ListOf(job) == IF job.seed \/ job.source = "search" THEN "priority" ELSE "default"

(* Mutant of Following: a worker reads one list. *)
FollowingNone(list) == "none"

(* Workers read the default queue only after the priority queue. *)
ReadFirst == "priority"
Following(list) == IF list = "priority" THEN "default" ELSE "none"

(* Delays double from the base to the maximum; the first is the base in any case. *)
RetryDelay(tries) ==
    IF tries <= 1 \/ RetryBase * 2^(tries - 1) < RetryMax
    THEN RetryBase * 2^(tries - 1) ELSE RetryMax

(* The job is appended to its list; no poll that has begun counts it. *)
PutAt(list, job) ==
    /\ queue' = [queue EXCEPT ![list] = Append(@, job)]
    /\ owed' = [w \in Workers |-> owed[w] \ {job.id}]

(* A request or a batch enqueues a new job, due at once. *)
Issue(w, source, seed, depth, tries) ==
    LET job == [id |-> issued + 1, wallet |-> w, source |-> source, seed |-> seed,
                depth |-> depth, tries |-> tries, due |-> clock]
    IN PutAt(ListOf(job), job) /\ issued' = issued + 1

CountFailure ==
    /\ failures < MaxFailures
    /\ failures' = failures + 1
-----------------------------------------------------------------------------
QueueInit ==
    /\ StatusInit
    /\ queue = [l \in Lists |-> <<>>]
    /\ keys = {} /\ clock = 0 /\ issued = 0
    /\ asking \in [Requests -> {"start", "done"}]      \* some requests never come
    /\ pc = [w \in Workers |-> "idle"]
    /\ hand = [w \in Workers |-> NoJob]
    /\ began = [w \in Workers |-> 0]
    /\ reading = [w \in Workers |-> "priority"]
    /\ left = [w \in Workers |-> 0]
    /\ todo = [w \in Workers |-> <<>>]
    /\ failures = 0
    /\ done = {} /\ lost = {} /\ backfilled = {} /\ abandoned = {}
    /\ children = [k \in ExpansionKeys |-> 0]
    /\ owed = [w \in Workers |-> {}]
-----------------------------------------------------------------------------
(* Requests *)

Ask(r, label) == asking' = [asking EXCEPT ![r] = label]

requestFrame == <<clock, pc, hand, began, reading, left, todo, ends, children>>

(* Watchlist and seeds: a wallet whose key is set has been queued today. *)
ClaimRequest(r) ==
    /\ asking[r] = "start" /\ RequestOf[r].source # "search"
    /\ RequestKey(r) \notin keys
    /\ keys' = keys \cup {RequestKey(r)}
    /\ Ask(r, "enqueue")
    /\ UNCHANGED <<requestFrame, status, queue, issued, failures, abandoned, owed>>

MayEnqueue(r) ==
    asking[r] = IF RequestOf[r].source = "search" THEN "start" ELSE "enqueue"

IssueRequest(r) ==
    Issue(RequestOf[r].wallet, RequestOf[r].source, RequestOf[r].source = "seed_list",
          RequestOf[r].depth, 0)

(* The wallet becomes a candidate and its job is queued.  A search that refreshes an
   indexed wallet does not record it. *)
EnqueueRequest(r) ==
    /\ MayEnqueue(r)
    /\ \/ RecordWalletCandidate(RequestOf[r].wallet)
       \/ RequestOf[r].source = "search" /\ UNCHANGED status
    /\ IssueRequest(r)
    /\ Ask(r, "done")
    /\ UNCHANGED <<requestFrame, keys, failures, abandoned>>

(* Recording or enqueueing fails, before or after its effect.  A search goes on when
   recording fails, and answers that nothing is queued.  The others end their run and
   leave the key: the next run finds it set. *)
RequestFails(r) ==
    /\ MayEnqueue(r)
    /\ CountFailure
    /\ \/ RecordWalletCandidate(RequestOf[r].wallet) /\ IssueRequest(r)
       \/ /\ RecordWalletCandidate(RequestOf[r].wallet) \/ UNCHANGED status
          /\ UNCHANGED <<queue, issued, owed>>
    /\ IF RequestOf[r].source = "search" \/ issued' # issued
       THEN Ask(r, "done") /\ UNCHANGED abandoned
       ELSE Ask(r, "start") /\ abandoned' = abandoned \cup {RequestKey(r)}
    /\ UNCHANGED <<requestFrame, keys>>

(* Redis sets the key although the call fails. *)
ClaimRequestFails(r) ==
    /\ asking[r] = "start" /\ RequestOf[r].source # "search"
    /\ RequestKey(r) \notin keys
    /\ CountFailure
    /\ keys' = keys \cup {RequestKey(r)}
    /\ abandoned' = abandoned \cup {RequestKey(r)}
    /\ UNCHANGED <<requestFrame, status, queue, issued, asking, owed>>
-----------------------------------------------------------------------------
(* Polls *)

workerFrame == <<clock, status, asking, keys, issued, abandoned, children>>

Goto(w, label) == pc' = [pc EXCEPT ![w] = label]

(* The poll returns, and its variables with it. *)
EndPoll(w) ==
    /\ began' = [began EXCEPT ![w] = 0]
    /\ reading' = [reading EXCEPT ![w] = "priority"]
    /\ left' = [left EXCEPT ![w] = 0]
    /\ owed' = [owed EXCEPT ![w] = {}]

(* LLEN bounds the pops of a list. *)
Count(w, list) ==
    /\ reading' = [reading EXCEPT ![w] = list]
    /\ left' = [left EXCEPT ![w] = Len(queue[list])]
    /\ owed' = [owed EXCEPT ![w] = @ \cup {queue[list][i].id : i \in DOMAIN queue[list]}]

(* The time is read once, when the poll begins. *)
Poll(w) ==
    /\ pc[w] = "idle"
    /\ began' = [began EXCEPT ![w] = clock]
    /\ Count(w, ReadFirst)
    /\ Goto(w, "pop")
    /\ UNCHANGED <<workerFrame, queue, hand, todo, failures, ends>>

(* The list is empty or every job has been looked at: the next list, or no job. *)
NextList(w) ==
    /\ pc[w] = "pop"
    /\ left[w] = 0 \/ queue[reading[w]] = <<>>
    /\ IF Following(reading[w]) \in Lists
       THEN Count(w, Following(reading[w])) /\ UNCHANGED <<pc, began>>
       ELSE Goto(w, "idle") /\ EndPoll(w)
    /\ UNCHANGED <<workerFrame, queue, hand, todo, failures, ends>>

(* LPOP: the head is the job to run if it is due. *)
Pop(w) ==
    /\ pc[w] = "pop"
    /\ left[w] > 0 /\ queue[reading[w]] # <<>>
    /\ hand' = [hand EXCEPT ![w] = Head(queue[reading[w]])]
    /\ queue' = [queue EXCEPT ![reading[w]] = Tail(@)]
    /\ IF hand'[w].due > began[w]
       THEN /\ Goto(w, "push")
            /\ left' = [left EXCEPT ![w] = @ - 1]
            /\ UNCHANGED <<began, reading, owed>>
       ELSE Goto(w, "ingest") /\ EndPoll(w)
    /\ UNCHANGED <<workerFrame, todo, failures, ends>>

(* Mutant of PushBack: a job that is not due goes back to the head. *)
PushBackHead(w) ==
    /\ pc[w] = "push"
    /\ queue' = [queue EXCEPT ![reading[w]] = <<hand[w]>> \o @]
    /\ owed' = [v \in Workers |-> owed[v] \ {hand[w].id}]
    /\ hand' = [hand EXCEPT ![w] = NoJob]
    /\ Goto(w, "pop")
    /\ UNCHANGED <<workerFrame, began, reading, left, todo, failures, ends>>

(* Mutant of PushBack: the job that is not due is forgotten. *)
PushBackForgets(w) ==
    /\ pc[w] = "push"
    /\ hand' = [hand EXCEPT ![w] = NoJob]
    /\ Goto(w, "pop")
    /\ UNCHANGED <<workerFrame, poll, queue, todo, failures, ends>>

(* RPUSH to the list it came from. *)
PushBack(w) ==
    /\ pc[w] = "push"
    /\ PutAt(reading[w], hand[w])
    /\ hand' = [hand EXCEPT ![w] = NoJob]
    /\ Goto(w, "pop")
    /\ UNCHANGED <<workerFrame, began, reading, left, todo, failures, ends>>
-----------------------------------------------------------------------------
(* Batches *)

(* The worker is done with its job, and polls again after a pause. *)
Rest(w) ==
    /\ Goto(w, "idle")
    /\ hand' = [hand EXCEPT ![w] = NoJob]
    /\ todo' = [todo EXCEPT ![w] = <<>>]

AfterChild(rest) == IF rest = <<>> THEN "finish" ELSE "expand"

(* Some counterparties of the wallet, the most frequent of the batch first. *)
Ranked(wallet) ==
    {s \in UNION {[1..n -> Neighbors[wallet]] : n \in 0..maxQueuedExpansionCounterparties} :
        \A i, j \in DOMAIN s : s[i] = s[j] => i = j}

(* Mutant of Expansions: jobs expand at every depth. *)
ExpansionsDeep(job) == Ranked(job.wallet)

(* Jobs of depth 1 end at their wallet. *)
Expansions(job) == IF job.depth = 1 THEN {<<>>} ELSE Ranked(job.wallet)

(* The batch's transactions name some of the wallet's counterparties. *)
Ingest(w) ==
    /\ pc[w] = "ingest"
    /\ RecordWalletCandidate(hand[w].wallet)
    /\ \E found \in Expansions(hand[w]) : todo' = [todo EXCEPT ![w] = found]
    /\ Goto(w, AfterChild(todo'[w]))
    /\ UNCHANGED <<clock, asking, redis, hand, poll, failures, history>>

(* A counterparty is queued once a day for each wallet that names it. *)
ClaimChild(w) ==
    /\ pc[w] = "expand"
    /\ LET key == ExpansionKey(hand[w], Head(todo[w])) IN
       /\ keys' = keys \cup {key}
       /\ IF key \in keys
          THEN todo' = [todo EXCEPT ![w] = Tail(@)] /\ Goto(w, AfterChild(Tail(todo[w])))
          ELSE Goto(w, "child") /\ UNCHANGED todo
    /\ UNCHANGED <<clock, status, asking, queue, issued, hand, poll, failures, history>>

(* The new job inherits the metadata: the seed's priority, the number of retries. *)
IssueChild(w) ==
    LET key == ExpansionKey(hand[w], Head(todo[w])) IN
    /\ Issue(Head(todo[w]), "expansion", hand[w].seed, hand[w].depth - 1, hand[w].tries)
    /\ children' = [children EXCEPT ![key] = @ + 1]

EnqueueChild(w) ==
    /\ pc[w] = "child"
    /\ IssueChild(w)
    /\ todo' = [todo EXCEPT ![w] = Tail(@)]
    /\ Goto(w, AfterChild(Tail(todo[w])))
    /\ UNCHANGED <<clock, status, asking, keys, hand, began, reading, left, failures, ends,
                   abandoned>>

(* The wallet is tracked, or labeled when evidence was found. *)
Finish(w) ==
    /\ pc[w] = "finish"
    /\ MarkWalletTracked(hand[w].wallet, Evidence[hand[w].wallet])
    /\ done' = done \cup {hand[w].id}
    /\ backfilled' = backfilled \cup {hand[w].wallet}
    /\ Rest(w)
    /\ UNCHANGED <<clock, asking, redis, poll, failures, lost, abandoned, children>>

(* The job waits again, one retry older; the worker's loop goes on. *)
Requeue(w) ==
    /\ pc[w] = "retry"
    /\ LET again == [hand[w] EXCEPT !.tries = @ + 1,
                                    !.due = clock + RetryDelay(hand[w].tries + 1)]
       IN PutAt(ListOf(again), again)
    /\ Rest(w)
    /\ UNCHANGED <<workerFrame, began, reading, left, failures, ends>>
-----------------------------------------------------------------------------
(* Failures *)

(* An error that is not retryable, or no worker any more: nothing else has the job. *)
LoseJob(w) ==
    /\ Rest(w)
    /\ lost' = lost \cup {hand[w].id}

(* Redis fails in the poll: what was popped and not put back is lost. *)
PollFails(w) ==
    /\ pc[w] \in {"pop", "push"}
    /\ CountFailure
    /\ IF pc[w] = "push" THEN LoseJob(w)
       ELSE Goto(w, "idle") /\ UNCHANGED <<hand, todo, lost>>
    /\ EndPoll(w)
    /\ UNCHANGED <<workerFrame, queue, done, backfilled>>

(* LPOP takes the job off although the call fails. *)
PopFails(w) ==
    /\ pc[w] = "pop"
    /\ left[w] > 0 /\ queue[reading[w]] # <<>>
    /\ CountFailure
    /\ lost' = lost \cup {Head(queue[reading[w]]).id}
    /\ queue' = [queue EXCEPT ![reading[w]] = Tail(@)]
    /\ Goto(w, "idle") /\ EndPoll(w)
    /\ UNCHANGED <<workerFrame, hand, todo, done, backfilled>>

(* The batch fails: time-outs, rate limits and server errors are retried; other errors
   end the job. *)
BatchEnds(w) ==
    \/ Goto(w, "retry") /\ UNCHANGED <<hand, todo, lost>>
    \/ LoseJob(w)

(* The counterparty is not enqueued, or is and the call fails all the same. *)
ChildFails(w) ==
    /\ pc[w] = "child"
    /\ CountFailure
    /\ UNCHANGED <<queue, issued, owed, children>> \/ IssueChild(w)
    /\ Goto(w, "release")
    /\ UNCHANGED <<clock, status, asking, keys, hand, began, reading, left, todo, ends,
                   abandoned>>

(* Mutant of ReleaseChild: the failed enqueue keeps its key. *)
ReleaseChildNot(w) ==
    /\ pc[w] = "release"
    /\ BatchEnds(w)
    /\ UNCHANGED <<clock, status, asking, redis, poll, failures, done, backfilled,
                   abandoned, children>>

ReleaseChild(w) ==
    /\ pc[w] = "release"
    /\ keys' = keys \ {ExpansionKey(hand[w], Head(todo[w]))}
    /\ BatchEnds(w)
    /\ UNCHANGED <<clock, status, asking, queue, issued, poll, failures, done, backfilled,
                   abandoned, children>>

(* The error of the release is ignored. *)
ReleaseFails(w) ==
    /\ pc[w] = "release"
    /\ CountFailure
    /\ abandoned' = abandoned \cup {ExpansionKey(hand[w], Head(todo[w]))}
    /\ BatchEnds(w)
    /\ UNCHANGED <<clock, status, asking, redis, poll, done, backfilled, children>>

(* Redis sets the key although the call fails. *)
ClaimChildFails(w) ==
    /\ pc[w] = "expand"
    /\ LET key == ExpansionKey(hand[w], Head(todo[w])) IN
       /\ key \notin keys
       /\ keys' = keys \cup {key}
       /\ abandoned' = abandoned \cup {key}
    /\ CountFailure
    /\ BatchEnds(w)
    /\ UNCHANGED <<clock, status, asking, queue, issued, poll, done, backfilled, children>>

(* Another call of the batch fails, before or after its effect. *)
BatchFails(w) ==
    /\ pc[w] \in {"ingest", "expand", "finish"}
    /\ CountFailure
    /\ \/ UNCHANGED status
       \/ pc[w] = "ingest" /\ RecordWalletCandidate(hand[w].wallet)
       \/ pc[w] = "finish" /\ MarkWalletTracked(hand[w].wallet, Evidence[hand[w].wallet])
    /\ BatchEnds(w)
    /\ UNCHANGED <<clock, asking, redis, poll, done, backfilled, abandoned, children>>

(* The job cannot be queued again. *)
RequeueFails(w) ==
    /\ pc[w] = "retry"
    /\ CountFailure
    /\ LoseJob(w)
    /\ UNCHANGED <<workerFrame, queue, poll, done, backfilled>>

(* The process dies; a supervisor starts another. *)
Crash(w) ==
    /\ pc[w] # "idle"
    /\ CountFailure
    /\ IF hand[w] = NoJob THEN Goto(w, "idle") /\ UNCHANGED <<hand, todo, lost>>
       ELSE LoseJob(w)
    /\ abandoned' = IF pc[w] \notin {"child", "release"} THEN abandoned
                    ELSE abandoned \cup {ExpansionKey(hand[w], Head(todo[w]))}
    /\ EndPoll(w)
    /\ UNCHANGED <<clock, status, asking, redis, done, backfilled, children>>
-----------------------------------------------------------------------------
Queued == UNION {{queue[l][i] : i \in DOMAIN queue[l]} : l \in Lists}
Rotating == {hand[w] : w \in {v \in Workers : pc[v] = "push"}}

(* Time passes for the jobs that wait for it. *)
Tick ==
    /\ \E job \in Queued \cup Rotating : job.due > clock
    /\ clock' = clock + 1
    /\ UNCHANGED <<status, redis, asking, pc, hand, poll, todo, failures, history>>

RequestStep(r) == ClaimRequest(r) \/ EnqueueRequest(r)

WorkerStep(w) ==
    \/ Poll(w) \/ NextList(w) \/ Pop(w) \/ PushBack(w) \/ Ingest(w)
    \/ ClaimChild(w) \/ EnqueueChild(w) \/ ReleaseChild(w) \/ Finish(w)
    \/ Requeue(w)

QueueNext ==
    \/ \E r \in Requests : RequestStep(r) \/ RequestFails(r) \/ ClaimRequestFails(r)
    \/ \E w \in Workers :
          \/ WorkerStep(w) \/ PollFails(w) \/ PopFails(w) \/ ClaimChildFails(w) \/ ChildFails(w)
          \/ ReleaseFails(w) \/ BatchFails(w) \/ RequeueFails(w) \/ Crash(w)
    \/ Tick

QueueSpec == QueueInit /\ [][QueueNext]_queueVars

(* Runs of the producers, loops of the workers and time go on. *)
QueueFairness ==
    /\ \A r \in Requests : WF_queueVars(RequestStep(r))
    /\ \A w \in Workers : WF_queueVars(WorkerStep(w))
    /\ WF_queueVars(Tick)

QueueFairSpec == QueueSpec /\ QueueFairness
-----------------------------------------------------------------------------
Held(w) == IF hand[w] = NoJob THEN {} ELSE {hand[w].id}
QueuedIds == {job.id : job \in Queued}

(* Every variable keeps its type; a worker holds a job exactly when its label says so. *)
QueueTypeOK ==
    /\ status \in [Wallets -> Statuses]
    /\ queue \in [Lists -> Seq(Jobs)]
    /\ keys \in SUBSET Keys /\ abandoned \in SUBSET Keys
    /\ clock \in Nat /\ issued \in Nat
    /\ asking \in [Requests -> {"start", "enqueue", "done"}]
    /\ pc \in [Workers -> Labels]
    /\ hand \in [Workers -> Jobs]
    /\ \A w \in Workers : (hand[w] = NoJob) <=> pc[w] \in {"idle", "pop"}
    /\ began \in [Workers -> Nat] /\ left \in [Workers -> Nat]
    /\ reading \in [Workers -> Lists]
    /\ todo \in [Workers -> Seq(Wallets)]
    /\ \A w \in Workers : pc[w] \in {"expand", "child", "release"} => todo[w] # <<>> /\ hand[w].depth = 2
    /\ failures \in 0..MaxFailures
    /\ backfilled \in SUBSET Wallets
    /\ done \in SUBSET Nat /\ lost \in SUBSET Nat
    /\ children \in [ExpansionKeys -> Nat]
    /\ owed \in [Workers -> SUBSET Nat]

(* However workers rotate, retry and fail, each job that was ever enqueued is in one
   list, or in one worker's hands, or done, or was lost to a failure; and a failure
   loses no more than one job. *)
EveryJobAccounted ==
    /\ 1..issued = QueuedIds \cup done \cup lost \cup UNION {Held(w) : w \in Workers}
    /\ done \cap lost = {}
    /\ QueuedIds \cap (done \cup lost) = {}
    /\ \A w \in Workers : Held(w) \cap (QueuedIds \cup done \cup lost) = {}
    /\ Cardinality(lost) <= failures

(* The lists that w's poll has passed. *)
Passed(w) ==
    (IF reading[w] = "default" THEN {"priority"} ELSE {})
        \cup (IF pc[w] = "pop" /\ left[w] = 0 THEN {reading[w]} ELSE {})

(* A worker that goes on to the default list, or finds nothing to do, has met every job
   that the list held when it was counted: a due job is passed over only when another
   worker, whose poll began before the job was due, has put it back meanwhile. *)
NothingPassedOver ==
    \A w \in Workers : \A l \in Passed(w) : \A i \in DOMAIN queue[l] :
        pc[w] # "idle" => queue[l][i].id \notin owed[w]

(* A wallet whose backfill is done stays tracked, whoever discovers it again meanwhile. *)
DoneIsTracked == \A w \in backfilled : status[w] \in {"tracked", "labeled", "scored"}

(* Two jobs of one wallet, their retries and their failures enqueue a counterparty once,
   and once more only for a failure. *)
ExpandedPerFailure == \A k \in ExpansionKeys : children[k] <= 1 + failures

(* A key is set only while its job is on its way or once the job was enqueued, unless a
   failure left it behind: a failed expansion releases its key, and the counterparty is
   not kept out of the queue for a day. *)
KeyHasJob ==
    \A k \in keys \ abandoned :
        \/ k \in ExpansionKeys /\ children[k] > 0
        \/ \E w \in Workers : pc[w] \in {"child", "release"} /\ k = ExpansionKey(hand[w], Head(todo[w]))
        \/ \E r \in Requests : k = RequestKey(r) /\ asking[r] # "start"

(* What a backfill tells of its counterparties is told once, paid for by failures. *)
ExpansionPerFailure == ExpandedPerFailure /\ KeyHasJob

(* The queue is drained: rotation starves no job, and one that is retried comes back,
   until each is done or was lost to a failure. *)
Drained == <>[](done \cup lost = 1..issued)

(* The queue implements the backlog: polls and rotations are invisible to others. *)
Backlog == INSTANCE WalletBacklog WITH
    Ids <- JobIds,
    Takers <- Workers,
    waiting <- QueuedIds \cup {job.id : job \in Rotating},
    taken <- [w \in Workers |-> IF pc[w] \in Busy THEN Held(w) ELSE {}],
    ended <- done \cup lost

ImplementsBacklog == Backlog!Spec
=============================================================================
