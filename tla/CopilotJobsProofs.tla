-------------------------- MODULE CopilotJobsProofs --------------------------
(***************************************************************************)
(* Proofs about CopilotJobs, for any number of processes, handlers,        *)
(* workers, wallets, requests and failures.                                *)
(***************************************************************************)
EXTENDS MCCopilotJobs, FiniteSetTheorems, TLAPS

USE ProcsAssumption, ModeAssumption, BoundsAssumption

(* The calls that a task of each kind may await. *)
Kind(t) ==
    /\ t \in Creators => pc[t] \in CreatorLabels \cup {"idle"}
    /\ t \in Workers => pc[t] \in RunLabels \cup {"idle", "pop"}
    /\ t \in Timers => pc[t] \in RunLabels \cup {"idle"} /\ job[t] = t[2]

(* The local variables that the awaited call uses have been set. *)
Locals(t) ==
    /\ pc[t] \notin {"idle", "pop", "read"} => rec[t] \in Records
    /\ pc[t] \in RunLabels \cup {"recheck", "push"} => job[t] \in JobIds
    /\ pc[t] = "contPush" => cont[t] \in JobIds

TypeInv == TypeOK /\ \A t \in Tasks : Kind(t) /\ Locals(t)
-----------------------------------------------------------------------------
(* Tasks are of one kind each, and run in one process. *)
LEMMA Kinds ==
    /\ \A t \in Creators : t \in Tasks /\ t \notin Runners /\ t \notin Timers /\ t \notin Workers
    /\ \A t \in Workers : t \in Tasks /\ t \in Runners /\ t \notin Timers /\ t \notin Creators
    /\ \A t \in Timers : t \in Tasks /\ t \in Runners /\ t \notin Workers /\ t \notin Creators
    /\ \A t \in Tasks : ProcOf(t) \in Procs
    /\ \A t \in Timers : ProcOf(t) = t[1] /\ t = <<t[1], t[2]>> /\ t[2] \in JobIds
    /\ \A p \in Procs, j \in JobIds : <<p, j>> \in Tasks => <<p, j>> \in Timers
<1>1. Timers \subseteq Procs \X (1..MaxJobs)
  BY DEF Timers, JobIds
<1>2. \A t \in Timers : t \notin Creators /\ t \notin Workers /\ t[1] \in Procs /\ t[2] \in JobIds /\ t = <<t[1], t[2]>>
  BY <1>1 DEF JobIds
<1>3. \A t \in Tasks : ProcOf(t) \in Procs
  BY <1>2 DEF ProcOf, Tasks, Runners
<1>4. \A p \in Procs, j \in JobIds : <<p, j>> \in Tasks => <<p, j>> \in Timers
  BY DEF Tasks, Runners, JobIds
<1> QED
  BY <1>2, <1>3, <1>4 DEF Tasks, Runners, ProcOf

(* A saved copy of a record is a record, of the same key. *)
SavedAs(r, t, status, result, charged) ==
    /\ r \in Records /\ r # NoRecord
    /\ r.status = status /\ r.key = rec[t].key /\ r.result = result /\ r.charged = charged

(* What each saved copy holds. *)
LEMMA RecordTypes ==
    ASSUME NEW t, rec[t] \in Records, got[t] \in Coverage \cup {None}
    PROVE  /\ rec[t].key \in Keys /\ rec[t].result \in Coverage \cup {None}
           /\ rec[t].charged \in BOOLEAN /\ rec[t].status \in Statuses /\ rec[t] # NoRecord
           /\ SavedAs(Answer(t), t, "succeeded", rec[t].result, rec[t].charged)
           /\ SavedAs(Running(t), t, "running", rec[t].result, rec[t].charged)
           /\ SavedAs(Succeeded(t), t, "succeeded", got[t], rec[t].charged)
           /\ SavedAs(Failed(t), t, "failed", None, rec[t].charged)
           /\ SavedAs(Continuation(t), t, rec[t].status, got[t], FALSE)
<1>1. /\ None \in Coverage \cup {None}
      /\ "succeeded" \in Statuses /\ "running" \in Statuses /\ "failed" \in Statuses
  BY DEF Statuses
<1>2. \A r \in Records : r.status \in Statuses /\ r # NoRecord
  <2>1. NoRecord.status \notin Statuses
    BY DEF NoRecord, Statuses
  <2> QED
    BY <2>1 DEF Records
<1>3. /\ rec[t].key \in Keys /\ rec[t].result \in Coverage \cup {None}
      /\ rec[t].charged \in BOOLEAN /\ rec[t].status \in Statuses /\ rec[t] # NoRecord
  BY <1>2 DEF Records
<1>4. SavedAs(Answer(t), t, "succeeded", rec[t].result, rec[t].charged)
  <2>1. Answer(t) \in Records
    BY <1>1 DEF Records, Answer
  <2> QED
    BY <1>1, <1>2, <2>1 DEF Records, Answer, SavedAs
<1>5. SavedAs(Running(t), t, "running", rec[t].result, rec[t].charged)
  <2>1. Running(t) \in Records
    BY <1>1 DEF Records, Running
  <2> QED
    BY <1>1, <1>2, <2>1 DEF Records, Running, SavedAs
<1>6. SavedAs(Succeeded(t), t, "succeeded", got[t], rec[t].charged)
  <2>1. Succeeded(t) \in Records
    BY <1>1 DEF Records, Succeeded
  <2> QED
    BY <1>1, <1>2, <2>1 DEF Records, Succeeded, SavedAs
<1>7. SavedAs(Failed(t), t, "failed", None, rec[t].charged)
  <2>1. Failed(t) \in Records
    BY <1>1 DEF Records, Failed
  <2> QED
    BY <1>1, <1>2, <2>1 DEF Records, Failed, SavedAs
<1>8. SavedAs(Continuation(t), t, rec[t].status, got[t], FALSE)
  <2>1. Continuation(t) \in Records
    BY <1>1 DEF Records, Continuation
  <2> QED
    BY <1>1, <1>2, <2>1 DEF Records, Continuation, SavedAs
<1> QED
  BY <1>3, <1>4, <1>5, <1>6, <1>7, <1>8

TaskTypes ==
    /\ pc \in [Tasks -> Labels]
    /\ job \in [Tasks -> JobIds \cup {NoJob}]
    /\ rec \in [Tasks -> Records \cup {NoRecord}]
    /\ got \in [Tasks -> Coverage \cup {None}]
    /\ cont \in [Tasks -> JobIds \cup {NoJob}]
    /\ left \in [Tasks -> 0..BatchLimit]

(* A step of t leaves the others where they were, but in inline mode it may start timers. *)
Others(t) ==
    \A u \in Tasks \ {t} :
        /\ job'[u] = job[u] /\ rec'[u] = rec[u] /\ got'[u] = got[u] /\ cont'[u] = cont[u]
        /\ \/ pc'[u] = pc[u]
           \/ mode = "inline" /\ u \in Timers /\ pc[u] = "idle" /\ pc'[u] = "read"

TaskStep(t) == TaskTypes' /\ Others(t) /\ Kind(t)' /\ Locals(t)'

(* What the steps of a task are. *)
ActionOf(t) ==
    \/ t \in Creators /\ ((\E k \in Keys : Submit(t, k)) \/ CreatorStep(t) \/ PushThrows(t))
    \/ t \in Workers /\ (WorkerStep(t) \/ PopReplyLost(t))
    \/ t \in Runners /\ (RunStep(t) \/ ReportStage(t) \/ RunThrows(t) \/ FailureUnrecorded(t))
    \/ \E p \in Procs, j \in JobIds : t = <<p, j>> /\ Poll(p, j)
    \/ CallThrows(t)

(* The part of the type invariant about tasks. *)
LEMMA TaskTypesHold == TypeInv => TaskTypes
BY DEF TypeInv, TypeOK, TaskTypes

(* A task that goes to another call keeps its variables. *)
LEMMA GotoTypes ==
    ASSUME TypeInv, NEW t \in Tasks, NEW l \in Labels, Goto(t, l)
    PROVE  /\ pc' \in [Tasks -> Labels] /\ pc'[t] = l
           /\ \A u \in Tasks \ {t} : pc'[u] = pc[u]
BY DEF TypeInv, TypeOK, Goto

(* In inline mode it may start a timer on the way. *)
LEMMA GotoStartingTypes ==
    ASSUME TypeInv, NEW t \in Tasks, NEW l \in Labels, NEW j \in JobIds, GotoStarting(t, l, j)
    PROVE  /\ pc' \in [Tasks -> Labels] /\ pc'[t] = l
           /\ \A u \in Tasks \ {t} :
                 \/ pc'[u] = pc[u]
                 \/ mode = "inline" /\ u \in Timers /\ pc[u] = "idle" /\ pc'[u] = "read"
<1>1. "read" \in Labels
  BY DEF Labels, RunLabels
<1>2. pc \in [Tasks -> Labels]
  BY DEF TypeInv, TypeOK
<1>3. pc' \in [Tasks -> Labels] /\ pc'[t] = l
  BY <1>1, <1>2 DEF GotoStarting
<1>4. ASSUME NEW u \in Tasks, u # t, pc'[u] # pc[u]
      PROVE  mode = "inline" /\ u \in Timers /\ pc[u] = "idle" /\ pc'[u] = "read"
  <2>1. mode = "inline" /\ u = <<ProcOf(t), j>> /\ pc[u] = "idle" /\ pc'[u] = "read"
    BY <1>4 DEF GotoStarting
  <2>2. u \in Timers
    BY <2>1, Kinds
  <2> QED
    BY <2>1, <2>2
<1> QED
  BY <1>3, <1>4

(* A function that returns forgets its variables. *)
LEMMA ForgetTypes ==
    ASSUME TypeInv, NEW t \in Tasks, Forget(t)
    PROVE  /\ job' \in [Tasks -> JobIds \cup {NoJob}]
           /\ rec' \in [Tasks -> Records \cup {NoRecord}]
           /\ got' \in [Tasks -> Coverage \cup {None}]
           /\ cont' \in [Tasks -> JobIds \cup {NoJob}]
           /\ t \in Timers => job'[t] = job[t]
           /\ \A u \in Tasks \ {t} : job'[u] = job[u] /\ rec'[u] = rec[u] /\ got'[u] = got[u] /\ cont'[u] = cont[u]
BY DEF TypeInv, TypeOK, Forget

(* So does a task that has ended, or goes on to its next job. *)
LEMMA EndTypes ==
    ASSUME TypeInv, NEW t \in Tasks, NextJob(t) \/ Abandon(t)
    PROVE  TaskStep(t) /\ pc'[t] \in {"idle", "pop"} /\ \A u \in Tasks \ {t} : pc'[u] = pc[u]
<1>1. PICK l \in {"idle", "pop"} : Goto(t, l) /\ (l = "pop" => t \in Workers)
  BY DEF NextJob, Abandon
<1>2. Forget(t)
  BY DEF NextJob, Abandon
<1>3. left' \in [Tasks -> 0..BatchLimit]
  BY DEF NextJob, Abandon, TypeInv, TypeOK
<1>4. l \in Labels /\ l \notin RunLabels \cup {"recheck", "push"}
  BY DEF Labels, RunLabels
<1>5. /\ pc' \in [Tasks -> Labels] /\ pc'[t] = l
      /\ \A u \in Tasks \ {t} : pc'[u] = pc[u]
  BY <1>1, <1>4, GotoTypes
<1>6. Kind(t)
  BY DEF TypeInv
<1>7. Kind(t)' /\ Locals(t)'
  BY <1>1, <1>2, <1>4, <1>5, <1>6, ForgetTypes, Kinds DEF Kind, Locals, RunLabels
<1> QED
  BY <1>1, <1>2, <1>3, <1>5, <1>7, ForgetTypes DEF TaskStep, TaskTypes, Others

(* What the variables of one task are. *)
LEMMA OwnTypes ==
    ASSUME TypeInv, NEW t \in Tasks
    PROVE  /\ Kind(t) /\ Locals(t) /\ pc[t] \in Labels
           /\ job[t] \in JobIds \cup {NoJob} /\ rec[t] \in Records \cup {NoRecord}
           /\ got[t] \in Coverage \cup {None} /\ cont[t] \in JobIds \cup {NoJob}
           /\ left[t] \in 0..BatchLimit /\ ProcOf(t) \in Procs
BY Kinds DEF TypeInv, TypeOK

(* A cached result is a coverage, or none. *)
LEMMA CachedTypes ==
    ASSUME TypeInv, NEW p \in Procs, NEW k \in Keys
    PROVE  CachedResult(p, k) \in Coverage \cup {None}
BY DEF TypeInv, TypeOK, CachedResult

(* There is an identifier for one more job. *)
LEMMA NextJobId == TypeInv /\ issued < MaxJobs => issued + 1 \in JobIds
BY DEF TypeInv, TypeOK, JobIds

(* A handler's step keeps its variables well typed. *)
LEMMA CreatorTypes ==
    ASSUME TypeInv, NEW c \in Creators, NEW k \in Keys, Submit(c, k) \/ CreatorStep(c) \/ PushThrows(c)
    PROVE  TaskStep(c)
<1> USE DEF taskVars
<1>0. /\ c \in Tasks /\ c \notin Timers /\ c \notin Workers
      /\ pc[c] \notin {"idle", "pop"} => rec[c] \in Records
      /\ pc[c] \in {"push", "recheck"} => job[c] \in JobIds
      /\ TaskTypes
  BY Kinds, OwnTypes, TaskTypesHold DEF Kind, Locals, CreatorLabels, RunLabels
<1>1. CASE Submit(c, k)
  BY <1>0, <1>1, GotoTypes DEF Submit, TaskStep, Others, TaskTypes, Kind, Locals, Labels,
     CreatorLabels, RunLabels, Records, Statuses
<1>2. CASE ReadCache(c)
  <2>1. rec[c] \in Records /\ rec[c].key \in Keys
    BY <1>0, <1>2 DEF ReadCache, Records
  <2>2. CachedResult(ProcOf(c), rec[c].key) \in Coverage \cup {None}
    BY <2>1, CachedTypes, OwnTypes, Kinds
  <2>3. [rec[c] EXCEPT !.result = CachedResult(ProcOf(c), rec[c].key)] \in Records
    BY <2>1, <2>2 DEF Records
  <2>4. /\ rec' \in [Tasks -> Records \cup {NoRecord}] /\ rec'[c] \in Records
        /\ \A u \in Tasks \ {c} : rec'[u] = rec[u]
    BY <1>0, <1>2, <2>3 DEF ReadCache, TaskTypes
  <2> QED
    BY <1>0, <1>2, <2>4, GotoTypes DEF ReadCache, TaskStep, Others, TaskTypes, Kind, Locals, Labels,
       CreatorLabels, RunLabels
<1>3. CASE AnswerFromCache(c)
  BY <1>0, <1>3, EndTypes DEF AnswerFromCache
<1>4. CASE LookupActive(c)
  <2>1. active[ProcOf(c)][rec[c].key] \in JobIds \cup {NoJob}
    BY <1>0, <1>4, OwnTypes DEF LookupActive, Records, TypeInv, TypeOK
  <2> QED
    BY <1>0, <1>4, <2>1, GotoTypes DEF LookupActive, TaskStep, Others, TaskTypes, Kind, Locals, Labels,
       CreatorLabels, RunLabels
<1>5. CASE ReuseActive(c)
  BY <1>0, <1>5, GotoStartingTypes, ForgetTypes DEF ReuseActive, TaskStep, Others, TaskTypes, Kind,
     Locals, Labels, CreatorLabels, RunLabels
<1>6. CASE ActiveHasEnded(c)
  BY <1>0, <1>6, GotoTypes DEF ActiveHasEnded, TaskStep, Others, TaskTypes, Kind, Locals, Labels,
     CreatorLabels, RunLabels
<1>7. CASE ContinueCached(c)
  BY <1>0, <1>7, GotoTypes DEF ContinueCached, TaskStep, Others, TaskTypes, Kind, Locals, Labels,
     CreatorLabels, RunLabels
<1>8. CASE ConsumeQuota(c)
  <2>1. CASE quotaUsed + 1 > QuotaLimit
    BY <1>0, <1>8, <2>1, EndTypes DEF ConsumeQuota
  <2>2. CASE ~(quotaUsed + 1 > QuotaLimit)
    <3>1. [rec[c] EXCEPT !.charged = TRUE] \in Records
      BY <1>0, <1>8 DEF ConsumeQuota, Records
    <3>2. /\ rec' = [rec EXCEPT ![c].charged = TRUE] /\ Goto(c, "save") /\ pc[c] = "charge"
          /\ UNCHANGED <<job, got, cont, left>>
      BY <1>8, <2>2 DEF ConsumeQuota
    <3>3. /\ rec' \in [Tasks -> Records \cup {NoRecord}] /\ rec'[c] \in Records
          /\ \A u \in Tasks \ {c} : rec'[u] = rec[u]
      BY <1>0, <3>1, <3>2 DEF TaskTypes
    <3> QED
      BY <1>0, <3>2, <3>3, GotoTypes DEF TaskStep, Others, TaskTypes, Kind, Locals, Labels,
         CreatorLabels, RunLabels
  <2> QED
    BY <2>1, <2>2
<1>9. CASE SaveQueued(c)
  <2>1. issued + 1 \in JobIds
    BY <1>9, NextJobId DEF SaveQueued
  <2> QED
    BY <1>0, <1>9, <2>1, GotoTypes DEF SaveQueued, TaskStep, Others, TaskTypes, Kind, Locals, Labels,
       CreatorLabels, RunLabels
<1>10. CASE Push(c)
  BY <1>0, <1>10, GotoStartingTypes, ForgetTypes DEF Push, TaskStep, Others, TaskTypes, Kind, Locals,
     Labels, CreatorLabels, RunLabels
<1>11. CASE PushThrows(c)
  BY <1>0, <1>11, EndTypes DEF PushThrows
<1> QED
  BY <1>1, <1>2, <1>3, <1>4, <1>5, <1>6, <1>7, <1>8, <1>9, <1>10, <1>11 DEF CreatorStep

(* So does a step of a worker invocation outside its jobs. *)
LEMMA WorkerTypes ==
    ASSUME TypeInv, NEW w \in Workers, WorkerStep(w) \/ PopReplyLost(w)
    PROVE  TaskStep(w)
<1>0. /\ w \in Tasks /\ w \notin Timers /\ w \notin Creators /\ TaskTypes /\ queue \in Seq(JobIds)
  BY Kinds, TaskTypesHold DEF TypeInv, TypeOK
<1>1. CASE Invoke(w)
  BY <1>0, <1>1, GotoTypes DEF Invoke, TaskStep, Others, TaskTypes, Kind, Locals, Labels,
     CreatorLabels, RunLabels
<1>2. CASE Pop(w)
  <2>1. Head(queue) \in JobIds
    BY <1>0, <1>2 DEF Pop
  <2> QED
    BY <1>0, <1>2, <2>1, GotoTypes DEF Pop, TaskStep, Others, TaskTypes, Kind, Locals, Labels,
       CreatorLabels, RunLabels
<1>3. CASE PopEmpty(w) \/ PopReplyLost(w)
  BY <1>0, <1>3, EndTypes DEF PopEmpty, PopReplyLost
<1> QED
  BY <1>1, <1>2, <1>3 DEF WorkerStep

(* So does the next call of a job. *)
LEMMA RunTypes ==
    ASSUME TypeInv, NEW r \in Runners, RunStep(r)
    PROVE  TaskStep(r)
<1>0. /\ r \in Tasks /\ r \notin Creators /\ TaskTypes
      /\ pc[r] \in RunLabels => job[r] \in JobIds
      /\ pc[r] \in RunLabels \ {"read"} => rec[r] \in Records
      /\ r \in Timers => r \notin Workers /\ job[r] = r[2]
      /\ jobs \in [JobIds -> Records \cup {NoRecord}]
      /\ cov \in [Keys -> Coverage]
  BY Kinds, OwnTypes, TaskTypesHold DEF Kind, Locals, RunLabels, TypeInv, TypeOK, Runners
<1>1. CASE ReadQueued(r)
  <2>1. jobs[job[r]] \in Records
    BY <1>0, <1>1 DEF ReadQueued, RunLabels, NoRecord
  <2> QED
    BY <1>0, <1>1, <2>1, GotoStartingTypes DEF ReadQueued, TaskStep, Others, TaskTypes, Kind, Locals,
       Labels, CreatorLabels, RunLabels
<1>2. CASE SkipNotQueued(r)
  BY <1>0, <1>2, EndTypes DEF SkipNotQueued
<1>3. CASE Claim(r)
  BY <1>0, <1>3, GotoTypes DEF Claim, TaskStep, Others, TaskTypes, Kind, Locals, Labels, CreatorLabels,
     RunLabels
<1>4. CASE AdvanceCheckpoint(r)
  <2>1. rec[r].key \in Keys
    BY <1>0, <1>4 DEF AdvanceCheckpoint, RunLabels, Records
  <2>2. cov'[rec[r].key] \in Coverage
    BY <1>0, <1>4, <2>1 DEF AdvanceCheckpoint, ChunkIndexed, ChunkFailed, Coverage
  <2>3. \E l \in {"compute", "setCache"}, v \in Coverage \cup {None} :
            Goto(r, l) /\ got' = [got EXCEPT ![r] = v]
    BY <1>0, <1>4, <2>2 DEF AdvanceCheckpoint, TaskTypes
  <2> QED
    BY <1>0, <1>4, <2>3, GotoTypes DEF AdvanceCheckpoint, TaskStep, Others, TaskTypes, Kind, Locals,
       Labels, CreatorLabels, RunLabels
<1>5. CASE ComputeCheckpoint(r)
  BY <1>0, <1>5, GotoTypes DEF ComputeCheckpoint, TaskStep, Others, TaskTypes, Kind, Locals, Labels,
     CreatorLabels, RunLabels
<1>6. CASE PersistSnapshot(r)
  BY <1>0, <1>6, GotoTypes DEF PersistSnapshot, TaskStep, Others, TaskTypes, Kind, Locals, Labels,
     CreatorLabels, RunLabels
<1>7. CASE AnalysisFails(r)
  BY <1>0, <1>7, GotoTypes DEF AnalysisFails, TaskStep, Others, TaskTypes, Kind, Locals, Labels,
     CreatorLabels, RunLabels
<1>8. CASE SetCache(r)
  BY <1>0, <1>8, GotoTypes DEF SetCache, TaskStep, Others, TaskTypes, Kind, Locals, Labels,
     CreatorLabels, RunLabels
<1>9. CASE SaveSucceeded(r)
  BY <1>0, <1>9, GotoTypes, EndTypes DEF SaveSucceeded, TaskStep, Others, TaskTypes, Kind, Locals,
     Labels, CreatorLabels, RunLabels
<1>10. CASE SaveContinuation(r)
  <2>1. issued + 1 \in JobIds
    BY <1>10, NextJobId DEF SaveContinuation
  <2> QED
    BY <1>0, <1>10, <2>1, GotoTypes DEF SaveContinuation, TaskStep, Others, TaskTypes, Kind, Locals,
       Labels, CreatorLabels, RunLabels
<1>11. CASE PushContinuation(r)
  BY <1>0, <1>11, EndTypes DEF PushContinuation
<1>12. CASE SaveFailed(r)
  BY <1>0, <1>12, EndTypes DEF SaveFailed
<1> QED
  BY <1>1, <1>2, <1>3, <1>4, <1>5, <1>6, <1>7, <1>8, <1>9, <1>10, <1>11, <1>12 DEF RunStep

(* And the rest: reports of progress, polls, and calls that throw. *)
LEMMA TaskTypesKept ==
    ASSUME TypeInv, NEW t \in Tasks, ActionOf(t)
    PROVE  TaskStep(t)
<1>0. /\ TaskTypes /\ Kind(t) /\ Locals(t)
  BY OwnTypes, TaskTypesHold
<1>1. CASE t \in Creators /\ ((\E k \in Keys : Submit(t, k)) \/ CreatorStep(t) \/ PushThrows(t))
  <2>1. CASE \E k \in Keys : Submit(t, k)
    BY <1>1, <2>1, CreatorTypes
  <2>2. CASE CreatorStep(t) \/ PushThrows(t)
    <3>1. rec[t].key \in Keys
      BY <1>0, <1>1, <2>2 DEF Locals, Records, CreatorStep, PushThrows, ReadCache, AnswerFromCache,
         LookupActive,
         ReuseActive, ActiveHasEnded, ContinueCached, ConsumeQuota, SaveQueued, Push
    <3> QED
      BY <1>1, <2>2, <3>1, CreatorTypes
  <2> QED
    BY <1>1, <2>1, <2>2
<1>2. CASE t \in Workers /\ (WorkerStep(t) \/ PopReplyLost(t))
  BY <1>2, WorkerTypes
<1>3. CASE t \in Runners /\ RunStep(t)
  BY <1>3, RunTypes
<1>4. CASE t \in Runners /\ ReportStage(t)
  BY <1>0, <1>4 DEF ReportStage, taskVars, TaskStep, Others, TaskTypes, Kind, Locals
<1>5. CASE t \in Runners /\ RunThrows(t)
  <2>1. /\ Goto(t, "saveFailed") /\ cont' = [cont EXCEPT ![t] = NoJob] /\ UNCHANGED <<job, rec, got, left>>
        /\ pc[t] \in RunLabels \ {"read"}
    BY <1>5 DEF RunThrows, RunLabels
  <2>2. t \notin Creators /\ (t \in Timers => t \notin Workers)
    BY <1>5, Kinds DEF Runners
  <2> QED
    BY <1>0, <2>1, <2>2, GotoTypes DEF TaskStep, Others, TaskTypes, Kind, Locals, Labels,
       CreatorLabels, RunLabels
<1>6. CASE t \in Runners /\ FailureUnrecorded(t)
  BY <1>6, EndTypes DEF FailureUnrecorded
<1>7. CASE \E p \in Procs, j \in JobIds : t = <<p, j>> /\ Poll(p, j)
  <2>1. t \in Timers /\ t \notin Workers /\ t \notin Creators
    BY <1>7, Kinds
  <2>2. Goto(t, "read") /\ UNCHANGED <<job, rec, got, cont, left>>
    BY <1>7 DEF Poll
  <2>3. job[t] \in JobIds
    BY <1>0, <2>1, Kinds DEF Kind
  <2> QED
    BY <1>0, <2>1, <2>2, <2>3, GotoTypes DEF TaskStep, Others, TaskTypes, Kind, Locals, Labels,
       CreatorLabels, RunLabels
<1>8. CASE CallThrows(t)
  BY <1>8, EndTypes DEF CallThrows
<1> QED
  BY <1>1, <1>2, <1>3, <1>4, <1>5, <1>6, <1>7, <1>8 DEF ActionOf
-----------------------------------------------------------------------------
StoreTypes ==
    /\ jobs \in [JobIds -> Records \cup {NoRecord}]
    /\ queue \in Seq(JobIds)
    /\ cache \in [Keys -> Coverage \cup {None}]
    /\ quotaUsed \in Nat
    /\ issued \in 0..MaxJobs
    /\ starts \in [JobIds -> Nat]

OtherTypes ==
    /\ cov \in [Keys -> Coverage]
    /\ snapshots \in SUBSET Keys
    /\ local \in [Procs -> [Keys -> Coverage \cup {None}]]
    /\ active \in [Procs -> [Keys -> JobIds \cup {NoJob}]]
    /\ requests \in 0..MaxRequests
    /\ disturbances \in 0..MaxDisturbances

(* The part of the type invariant about stores and processes. *)
LEMMA SharedTypesHold == TypeInv => StoreTypes /\ OtherTypes
BY DEF TypeInv, TypeOK, StoreTypes, OtherTypes

(* A process's pointer to a job is set, or dropped. *)
LEMMA ActiveTypes ==
    ASSUME TypeInv, NEW t \in Tasks, rec[t].key \in Keys, NEW j \in JobIds,
           DropActive(t) \/ PointActive(t, j)
    PROVE  active' \in [Procs -> [Keys -> JobIds \cup {NoJob}]]
<1>1. active \in [Procs -> [Keys -> JobIds \cup {NoJob}]] /\ ProcOf(t) \in Procs
  BY OwnTypes DEF TypeInv, TypeOK
<1>2. PICK v : /\ v \in JobIds \cup {NoJob, active[ProcOf(t)][rec[t].key]}
               /\ active' = [active EXCEPT ![ProcOf(t)][rec[t].key] = v]
  BY DEF DropActive, PointActive
<1> QED
  BY <1>1, <1>2

(* A job is begun once more; a process's entry changes. *)
LEMMA StartsTypes ==
    ASSUME TypeInv, NEW j \in JobIds
    PROVE  [starts EXCEPT ![j] = @ + 1] \in [JobIds -> Nat]
BY DEF TypeInv, TypeOK

(* One entry of a process changes. *)
LEMMA LocalTypes ==
    ASSUME TypeInv, NEW p \in Procs, NEW k \in Keys, NEW v \in Coverage \cup {None},
           local' = [local EXCEPT ![p][k] = v]
    PROVE  local' \in [Procs -> [Keys -> Coverage \cup {None}]]
BY DEF TypeInv, TypeOK

(* What a call leaves in Redis is well typed. *)
LEMMA EffectTypes ==
    ASSUME TypeInv, NEW t \in Tasks, EffectOnly(t)
    PROVE  StoreTypes'
<1>0. /\ StoreTypes /\ Locals(t) /\ got[t] \in Coverage \cup {None}
  BY OwnTypes, SharedTypesHold
<1>1. rec[t] \in Records
  BY <1>0 DEF EffectOnly, Locals
<1>2. /\ rec[t].key \in Keys /\ Answer(t) \in Records /\ Running(t) \in Records
      /\ Succeeded(t) \in Records /\ Failed(t) \in Records /\ Continuation(t) \in Records
  BY <1>0, <1>1, RecordTypes DEF SavedAs
<1>3. CASE pc[t] = "charge" /\ quotaUsed' = quotaUsed + 1
  BY <1>0, <1>3 DEF EffectOnly, StoreTypes
<1>4. CASE pc[t] \in {"lookup", "save", "contSave"}
  <2>1. issued + 1 \in JobIds /\ issued' = issued + 1 /\ UNCHANGED <<queue, cache, quotaUsed, starts>>
    BY <1>4, NextJobId DEF EffectOnly
  <2>2. \E r \in Records : jobs' = [jobs EXCEPT ![issued + 1] = r]
    BY <1>1, <1>2, <1>4 DEF EffectOnly
  <2>3. jobs' \in [JobIds -> Records \cup {NoRecord}]
    BY <1>0, <2>1, <2>2 DEF StoreTypes
  <2>4. issued' \in 0..MaxJobs
    BY <2>1 DEF JobIds
  <2> QED
    BY <1>0, <2>1, <2>3, <2>4 DEF StoreTypes
<1>5. CASE pc[t] = "claim"
  <2>1. /\ jobs' = [jobs EXCEPT ![job[t]] = Running(t)] /\ job[t] \in JobIds
        /\ starts' = [starts EXCEPT ![job[t]] = @ + 1] /\ UNCHANGED <<queue, cache, quotaUsed, issued>>
    BY <1>0, <1>5 DEF EffectOnly, Locals, RunLabels
  <2> QED
    BY <1>0, <1>2, <2>1, StartsTypes DEF StoreTypes
<1>6. CASE pc[t] = "setCache"
  BY <1>0, <1>2, <1>6 DEF EffectOnly, StoreTypes
<1>7. CASE pc[t] \in {"saveDone", "saveFailed"}
  <2>1. /\ jobs' = [jobs EXCEPT ![job[t]] = Succeeded(t)] \/ jobs' = [jobs EXCEPT ![job[t]] = Failed(t)]
        /\ job[t] \in JobIds /\ UNCHANGED <<queue, cache, quotaUsed, issued, starts>>
    BY <1>0, <1>7 DEF EffectOnly, Locals, RunLabels
  <2>2. jobs' \in [JobIds -> Records \cup {NoRecord}]
    BY <1>0, <1>2, <2>1 DEF StoreTypes
  <2> QED
    BY <1>0, <2>1, <2>2 DEF StoreTypes
<1> QED
  BY <1>3, <1>4, <1>5, <1>6, <1>7 DEF EffectOnly

(* Appending to the queue and taking its head keep its type. *)
LEMMA QueueTypes ==
    ASSUME TypeInv
    PROVE  /\ \A j \in JobIds : Append(queue, j) \in Seq(JobIds)
           /\ queue # <<>> => Tail(queue) \in Seq(JobIds) /\ Head(queue) \in JobIds
BY DEF TypeInv, TypeOK

(* A handler's step keeps the stores and the processes' maps well typed. *)
LEMMA CreatorShared ==
    ASSUME TypeInv, NEW c \in Creators, NEW k \in Keys, Submit(c, k) \/ CreatorStep(c) \/ PushThrows(c)
    PROVE  StoreTypes' /\ OtherTypes'
<1> USE DEF redisVars, indexVars, procVars
<1>0. /\ c \in Tasks /\ StoreTypes /\ OtherTypes
      /\ pc[c] \notin {"idle", "pop"} => rec[c] \in Records
      /\ pc[c] = "push" => job[c] \in JobIds
      /\ got[c] \in Coverage \cup {None} /\ ProcOf(c) \in Procs
  BY Kinds, OwnTypes, SharedTypesHold DEF Kind, Locals, CreatorLabels, RunLabels
<1>1. CASE Submit(c, k)
  BY <1>0, <1>1 DEF Submit, StoreTypes, OtherTypes
<1>2. CASE ReadCache(c)
  <2>1. rec[c].key \in Keys
    BY <1>0, <1>2 DEF ReadCache, Records
  <2>2. CachedResult(ProcOf(c), rec[c].key) \in Coverage \cup {None}
    BY <2>1, CachedTypes, OwnTypes, Kinds
  <2> QED
    BY <1>0, <1>2, <2>1, <2>2 DEF ReadCache, StoreTypes, OtherTypes
<1>3. CASE AnswerFromCache(c)
  <2>1. Answer(c) \in Records /\ issued + 1 \in JobIds
    BY <1>0, <1>3, RecordTypes, NextJobId DEF AnswerFromCache, SavedAs
  <2> QED
    BY <1>0, <1>3, <2>1 DEF AnswerFromCache, StoreTypes, OtherTypes, JobIds
<1>4. CASE LookupActive(c) \/ ReuseActive(c) \/ ActiveHasEnded(c) \/ ContinueCached(c)
  BY <1>0, <1>4 DEF LookupActive, ReuseActive, ActiveHasEnded, ContinueCached, StoreTypes, OtherTypes
<1>5. CASE ConsumeQuota(c)
  BY <1>0, <1>5 DEF ConsumeQuota, StoreTypes, OtherTypes
<1>6. CASE SaveQueued(c)
  <2>1. rec[c] \in Records /\ issued + 1 \in JobIds
    BY <1>0, <1>6, NextJobId DEF SaveQueued
  <2> QED
    BY <1>0, <1>6, <2>1 DEF SaveQueued, StoreTypes, OtherTypes, JobIds
<1>7. CASE Push(c)
  <2>1. rec[c].key \in Keys
    BY <1>0, <1>7 DEF Push, Records
  <2> QED
    BY <1>0, <1>7, <2>1, ActiveTypes, QueueTypes DEF Push, StoreTypes, OtherTypes
<1>8. CASE PushThrows(c)
  <2>1. /\ UNCHANGED <<jobs, cache, quotaUsed, indexVars, local, issued, requests, starts>>
        /\ PointActive(c, job[c]) /\ job[c] \in JobIds
        /\ queue' \in {queue, Append(queue, job[c])} /\ disturbances' \in 0..MaxDisturbances
    BY <1>0, <1>8 DEF PushThrows, Disturb, OtherTypes
  <2>2. rec[c].key \in Keys
    BY <1>0, <1>8 DEF PushThrows, Records
  <2> QED
    BY <1>0, <2>1, <2>2, ActiveTypes, QueueTypes DEF StoreTypes, OtherTypes
<1> QED
  BY <1>1, <1>2, <1>3, <1>4, <1>5, <1>6, <1>7, <1>8 DEF CreatorStep

(* So does a runner's. *)
LEMMA RunShared ==
    ASSUME TypeInv, NEW r \in Runners, RunStep(r) \/ ReportStage(r) \/ RunThrows(r) \/ FailureUnrecorded(r)
    PROVE  StoreTypes' /\ OtherTypes'
<1> USE DEF redisVars, indexVars, procVars
<1>0. /\ r \in Tasks /\ StoreTypes /\ OtherTypes
      /\ pc[r] \in RunLabels => job[r] \in JobIds
      /\ pc[r] \in RunLabels \ {"read"} => rec[r] \in Records
      /\ pc[r] = "contPush" => cont[r] \in JobIds
      /\ got[r] \in Coverage \cup {None} /\ ProcOf(r) \in Procs
  BY Kinds, OwnTypes, SharedTypesHold DEF Kind, Locals, RunLabels, Runners
<1>a. pc[r] \in RunLabels \ {"read"} =>
        /\ rec[r].key \in Keys /\ Running(r) \in Records
        /\ Succeeded(r) \in Records /\ Failed(r) \in Records /\ Continuation(r) \in Records
  BY <1>0, RecordTypes DEF SavedAs
<1>1. CASE ReadQueued(r) \/ SkipNotQueued(r) \/ AnalysisFails(r)
  BY <1>0, <1>1 DEF ReadQueued, SkipNotQueued, AnalysisFails, StoreTypes, OtherTypes
<1>2. CASE Claim(r) \/ ReportStage(r)
  <2>1. /\ jobs' = [jobs EXCEPT ![job[r]] = Running(r)] /\ job[r] \in JobIds /\ Running(r) \in Records
        /\ starts' = [starts EXCEPT ![job[r]] = @ + 1] \/ UNCHANGED starts
        /\ UNCHANGED <<queue, cache, quotaUsed, indexVars, procVars, issued, requests, disturbances>>
    BY <1>0, <1>2, <1>a DEF Claim, ReportStage, RunLabels
  <2>2. jobs' \in [JobIds -> Records \cup {NoRecord}] /\ starts' \in [JobIds -> Nat]
    BY <1>0, <2>1, StartsTypes DEF StoreTypes
  <2>3. StoreTypes'
    BY <1>0, <2>1, <2>2 DEF StoreTypes
  <2>4. OtherTypes'
    BY <1>0, <2>1 DEF OtherTypes
  <2> QED
    BY <2>3, <2>4
<1>3. CASE AdvanceCheckpoint(r) \/ ComputeCheckpoint(r)
  <2>1. rec[r].key \in Keys
    BY <1>0, <1>3, <1>a DEF AdvanceCheckpoint, ComputeCheckpoint, RunLabels
  <2>2. /\ UNCHANGED <<redisVars, snapshots, procVars, issued, requests, starts>>
        /\ ChunkIndexed(rec[r].key) \/ \E result \in Coverage : ChunkFailed(rec[r].key, result)
    BY <1>3 DEF AdvanceCheckpoint, ComputeCheckpoint
  <2>3. cov' \in [Keys -> Coverage] /\ disturbances' \in 0..MaxDisturbances
    BY <1>0, <2>1, <2>2 DEF ChunkIndexed, ChunkFailed, OtherTypes, Coverage
  <2> QED
    BY <1>0, <2>2, <2>3 DEF StoreTypes, OtherTypes
<1>4. CASE PersistSnapshot(r)
  BY <1>0, <1>4, <1>a DEF PersistSnapshot, StoreTypes, OtherTypes, RunLabels
<1>5. CASE SetCache(r)
  BY <1>0, <1>5, <1>a DEF SetCache, StoreTypes, OtherTypes, RunLabels
<1>6. CASE SaveSucceeded(r) \/ SaveFailed(r)
  <2>1. pc[r] \in RunLabels \ {"read"}
    BY <1>6 DEF SaveSucceeded, SaveFailed, RunLabels
  <2>2. /\ UNCHANGED <<queue, cache, quotaUsed, indexVars, local, issued, requests, disturbances, starts>>
        /\ DropActive(r) \/ UNCHANGED active
        /\ jobs' = [jobs EXCEPT ![job[r]] = Succeeded(r)] \/ jobs' = [jobs EXCEPT ![job[r]] = Failed(r)]
    BY <1>6 DEF SaveSucceeded, SaveFailed
  <2>3. jobs' \in [JobIds -> Records \cup {NoRecord}]
    BY <1>0, <1>a, <2>1, <2>2 DEF StoreTypes
  <2>4. active' \in [Procs -> [Keys -> JobIds \cup {NoJob}]]
    BY <1>0, <1>a, <2>1, <2>2, ActiveTypes DEF OtherTypes
  <2> QED
    BY <1>0, <2>2, <2>3, <2>4 DEF StoreTypes, OtherTypes
<1>7. CASE SaveContinuation(r)
  <2>1. issued + 1 \in JobIds
    BY <1>7, NextJobId DEF SaveContinuation
  <2> QED
    BY <1>0, <1>7, <1>a, <2>1 DEF SaveContinuation, StoreTypes, OtherTypes, JobIds, RunLabels
<1>8. CASE PushContinuation(r)
  BY <1>0, <1>8, <1>a, ActiveTypes, QueueTypes DEF PushContinuation, RunLabels, StoreTypes, OtherTypes
<1>9. CASE RunThrows(r)
  <2>1. /\ UNCHANGED <<indexVars, requests>> /\ disturbances' \in 0..MaxDisturbances
        /\ rec[r].key \in Keys
    BY <1>0, <1>9, <1>a DEF RunThrows, Disturb, OtherTypes, RunLabels
  <2>2. local' \in [Procs -> [Keys -> Coverage \cup {None}]]
    <3>1. UNCHANGED local \/ local' = [local EXCEPT ![ProcOf(r)][rec[r].key] = got[r]]
      BY <1>9 DEF RunThrows
    <3>2. CASE local' = [local EXCEPT ![ProcOf(r)][rec[r].key] = got[r]]
      BY <1>0, <2>1, <3>2, LocalTypes
    <3> QED
      BY <1>0, <3>1, <3>2 DEF OtherTypes
  <2>3. CASE pc[r] = "contPush"
    BY <1>0, <1>9, <2>1, <2>2, <2>3, ActiveTypes, QueueTypes DEF RunThrows, StoreTypes, OtherTypes
  <2>4. CASE pc[r] # "contPush"
    BY <1>0, <1>9, <2>1, <2>2, <2>4, EffectTypes DEF RunThrows, StoreTypes, OtherTypes
  <2> QED
    BY <2>3, <2>4
<1>10. CASE FailureUnrecorded(r)
  <2>1. /\ UNCHANGED <<indexVars, local, requests>> /\ disturbances' \in 0..MaxDisturbances
        /\ DropActive(r) /\ job[r] \in JobIds
        /\ UNCHANGED <<redisVars, issued, starts>> \/ EffectOnly(r)
    BY <1>0, <1>10 DEF FailureUnrecorded, Disturb, OtherTypes, RunLabels
  <2>2. active' \in [Procs -> [Keys -> JobIds \cup {NoJob}]]
    BY <1>0, <1>10, <1>a, <2>1, ActiveTypes DEF FailureUnrecorded, RunLabels
  <2> QED
    BY <1>0, <2>1, <2>2, EffectTypes DEF StoreTypes, OtherTypes
<1> QED
  BY <1>1, <1>2, <1>3, <1>4, <1>5, <1>6, <1>7, <1>8, <1>9, <1>10 DEF RunStep

(* So does any task's. *)
LEMMA TaskShared ==
    ASSUME TypeInv, NEW t \in Tasks, ActionOf(t)
    PROVE  StoreTypes' /\ OtherTypes'
<1> USE DEF redisVars, indexVars, procVars
<1>0. StoreTypes /\ OtherTypes /\ Locals(t) /\ Kind(t)
  BY OwnTypes, SharedTypesHold
<1>1. CASE t \in Creators /\ ((\E k \in Keys : Submit(t, k)) \/ CreatorStep(t) \/ PushThrows(t))
  <2>1. CASE \E k \in Keys : Submit(t, k)
    BY <1>1, <2>1, CreatorShared
  <2>2. CASE CreatorStep(t) \/ PushThrows(t)
    <3>1. rec[t].key \in Keys
      BY <1>0, <1>1, <2>2 DEF Locals, Records, CreatorStep, PushThrows, ReadCache, AnswerFromCache,
         LookupActive,
         ReuseActive, ActiveHasEnded, ContinueCached, ConsumeQuota, SaveQueued, Push
    <3> QED
      BY <1>1, <2>2, <3>1, CreatorShared
  <2> QED
    BY <1>1, <2>1, <2>2
<1>2. CASE t \in Workers /\ (WorkerStep(t) \/ PopReplyLost(t))
  <2>1. /\ UNCHANGED <<jobs, cache, quotaUsed, indexVars, procVars, issued, requests, starts>>
        /\ UNCHANGED queue \/ (queue # <<>> /\ queue' = Tail(queue))
        /\ UNCHANGED disturbances \/ Disturb
    BY <1>2 DEF WorkerStep, Invoke, Pop, PopEmpty, PopReplyLost
  <2>2. queue' \in Seq(JobIds)
    BY <1>0, <2>1, QueueTypes DEF StoreTypes
  <2> QED
    BY <1>0, <2>1, <2>2 DEF Disturb, StoreTypes, OtherTypes
<1>3. CASE t \in Runners /\ (RunStep(t) \/ ReportStage(t) \/ RunThrows(t) \/ FailureUnrecorded(t))
  BY <1>3, RunShared
<1>4. CASE \E p \in Procs, j \in JobIds : t = <<p, j>> /\ Poll(p, j)
  BY <1>0, <1>4 DEF Poll, StoreTypes, OtherTypes
<1>5. CASE CallThrows(t)
  <2>1. /\ UNCHANGED <<redisVars, issued, starts>> \/ EffectOnly(t)
        /\ UNCHANGED <<indexVars, procVars, requests>> /\ disturbances' \in 0..MaxDisturbances
    BY <1>0, <1>5 DEF CallThrows, Disturb, OtherTypes
  <2> QED
    BY <1>0, <2>1, EffectTypes DEF StoreTypes, OtherTypes
<1> QED
  BY <1>1, <1>2, <1>3, <1>4, <1>5 DEF ActionOf

(* What is not the step of a task: a crash, or something expires. *)
Environment ==
    \/ \E p \in Procs : Crash(p)
    \/ \E j \in JobIds : ExpireRecord(j)
    \/ Expiry

(* Every step is of a task or of its environment. *)
LEMMA StepKinds ==
    ASSUME TypeInv, TaskNext
    PROVE  Environment \/ \E t \in Tasks : ActionOf(t)
<1>1. CASE \E c \in Creators, k \in Keys : Submit(c, k)
  BY <1>1, Kinds DEF ActionOf
<1>2. CASE \E c \in Creators : CreatorStep(c)
  BY <1>2, Kinds DEF ActionOf
<1>3. CASE \E p \in Procs, j \in JobIds : Poll(p, j)
  <2>1. PICK p \in Procs, j \in JobIds : Poll(p, j)
    BY <1>3
  <2>2. <<p, j>> \in Tasks
    BY <2>1 DEF TypeInv, TypeOK, Tasks, Runners, Timers, Poll
  <2> QED
    BY <2>1, <2>2 DEF ActionOf
<1>4. CASE \E w \in Workers : WorkerStep(w)
  BY <1>4, Kinds DEF ActionOf
<1>5. CASE \E r \in Runners : RunStep(r) \/ ReportStage(r)
  BY <1>5 DEF ActionOf, Tasks
<1>6. CASE Disturbance
  <2>1. CASE \E t \in Tasks : CallThrows(t)
    BY <2>1 DEF ActionOf
  <2>2. CASE \E c \in Creators : PushThrows(c)
    BY <2>2, Kinds DEF ActionOf
  <2>3. CASE \E w \in Workers : PopReplyLost(w)
    BY <2>3, Kinds DEF ActionOf
  <2>4. CASE \E r \in Runners : RunThrows(r) \/ FailureUnrecorded(r)
    BY <2>4 DEF ActionOf, Tasks
  <2> QED
    BY <1>6, <2>1, <2>2, <2>3, <2>4 DEF Disturbance, Environment
<1>7. CASE Expiry
  BY <1>7 DEF Environment
<1> QED
  BY <1>1, <1>2, <1>3, <1>4, <1>5, <1>6, <1>7 DEF TaskNext

(* A crash and an expiry keep types too. *)
LEMMA EnvironmentTypes ==
    ASSUME TypeInv, Environment
    PROVE  StoreTypes' /\ OtherTypes' /\ TaskTypes' /\ \A t \in Tasks : Kind(t)' /\ Locals(t)'
<1> USE DEF redisVars, indexVars, procVars, taskVars
<1>0. StoreTypes /\ OtherTypes /\ TaskTypes /\ \A t \in Tasks : Kind(t) /\ Locals(t)
  BY SharedTypesHold, TaskTypesHold DEF TypeInv
<1>1. ASSUME NEW p \in Procs, Crash(p)
      PROVE  StoreTypes' /\ OtherTypes' /\ TaskTypes' /\ \A t \in Tasks : Kind(t)' /\ Locals(t)'
  <2>1. StoreTypes' /\ OtherTypes'
    BY <1>0, <1>1 DEF Crash, Disturb, StoreTypes, OtherTypes
  <2>2. TaskTypes'
    BY <1>0, <1>1 DEF Crash, TaskTypes, Labels
  <2>3. ASSUME NEW t \in Tasks PROVE Kind(t)' /\ Locals(t)'
    BY <1>0, <1>1, <2>3, Kinds DEF Crash, Kind, Locals, RunLabels
  <2> QED
    BY <2>1, <2>2, <2>3
<1>2. ASSUME NEW j \in JobIds, ExpireRecord(j)
      PROVE  StoreTypes' /\ OtherTypes' /\ TaskTypes' /\ \A t \in Tasks : Kind(t)' /\ Locals(t)'
  BY <1>0, <1>2 DEF ExpireRecord, Disturb, StoreTypes, OtherTypes, TaskTypes, Kind, Locals
<1>3. ASSUME Expiry
      PROVE  StoreTypes' /\ OtherTypes' /\ TaskTypes' /\ \A t \in Tasks : Kind(t)' /\ Locals(t)'
  <2>1. /\ UNCHANGED <<jobs, quotaUsed, issued, starts, indexVars, active, taskVars, requests, disturbances>>
    BY <1>3 DEF Expiry, ExpireQueue, ExpireCache, ExpireLocal
  <2>2. queue' = <<>> \/ UNCHANGED queue
    BY <1>3 DEF Expiry, ExpireQueue, ExpireCache, ExpireLocal
  <2>3. UNCHANGED cache \/ \E k \in Keys : cache' = [cache EXCEPT ![k] = None]
    BY <1>3 DEF Expiry, ExpireQueue, ExpireCache, ExpireLocal
  <2>4. UNCHANGED local \/ \E p \in Procs, k \in Keys : local' = [local EXCEPT ![p][k] = None]
    BY <1>3 DEF Expiry, ExpireQueue, ExpireCache, ExpireLocal
  <2>5. queue' \in Seq(JobIds) /\ cache' \in [Keys -> Coverage \cup {None}]
    <3>1. queue' \in Seq(JobIds)
      <4>1. queue \in Seq(JobIds) /\ <<>> \in Seq(JobIds)
        BY <1>0 DEF StoreTypes
      <4> QED
        BY <2>2, <4>1
    <3>2. cache' \in [Keys -> Coverage \cup {None}]
      BY <1>0, <2>3 DEF StoreTypes
    <3> QED
      BY <3>1, <3>2
  <2>6. local' \in [Procs -> [Keys -> Coverage \cup {None}]]
    BY <1>0, <2>4, LocalTypes DEF OtherTypes
  <2> QED
    BY <1>0, <2>1, <2>5, <2>6 DEF StoreTypes, OtherTypes, TaskTypes, Kind, Locals
<1> QED
  BY <1>1, <1>2, <1>3 DEF Environment

(* The first state is well typed. *)
LEMMA InitTypes == Init => TypeInv
<1> SUFFICES ASSUME Init PROVE TypeInv
  OBVIOUS
<1>1. TypeOK
  BY Kinds DEF Init, TypeOK, Coverage, Labels, Records, NoRecord
<1>2. \A t \in Tasks : Kind(t) /\ Locals(t)
  BY Kinds DEF Init, Kind, Locals, RunLabels
<1> QED
  BY <1>1, <1>2 DEF TypeInv

(* And every step keeps the types. *)
LEMMA StepTypes == TypeInv /\ [Next]_vars => TypeInv'
<1> SUFFICES ASSUME TypeInv, [Next]_vars PROVE TypeInv'
  OBVIOUS
<1>1. CASE UNCHANGED vars
  BY <1>1 DEF vars, TypeInv, TypeOK, Kind, Locals
<1>2. ASSUME TaskNext, UNCHANGED mode
      PROVE  TypeInv'
  <2>1. StoreTypes' /\ OtherTypes' /\ TaskTypes' /\ \A t \in Tasks : Kind(t)' /\ Locals(t)'
    <3>1. CASE Environment
      BY <3>1, EnvironmentTypes
    <3>2. ASSUME NEW t \in Tasks, ActionOf(t)
          PROVE  StoreTypes' /\ OtherTypes' /\ TaskTypes' /\ \A u \in Tasks : Kind(u)' /\ Locals(u)'
      <4>1. TaskStep(t) /\ StoreTypes' /\ OtherTypes'
        BY <3>2, TaskTypesKept, TaskShared
      <4>2. ASSUME NEW u \in Tasks, u # t PROVE Kind(u)' /\ Locals(u)'
        <5>1. Kind(u) /\ Locals(u)
          BY DEF TypeInv
        <5>2. /\ job'[u] = job[u] /\ rec'[u] = rec[u] /\ cont'[u] = cont[u]
              /\ pc'[u] = pc[u] \/ (u \in Timers /\ pc'[u] = "read")
          BY <4>1, <4>2 DEF TaskStep, Others
        <5> QED
          BY <5>1, <5>2, Kinds DEF Kind, Locals, RunLabels
      <4> QED
        BY <4>1, <4>2 DEF TaskStep
    <3> QED
      BY <1>2, <3>1, <3>2, StepKinds
  <2>2. mode' \in Modes
    BY <1>2 DEF TypeInv, TypeOK
  <2> QED
    BY <2>1, <2>2 DEF TypeInv, TypeOK, StoreTypes, OtherTypes, TaskTypes
<1> QED
  BY <1>1, <1>2 DEF Next

(* Every reachable state is well typed, whatever fails: a task never uses a variable
   that it has not set. *)
THEOREM TypesHold == Spec => []TypeInv
BY InitTypes, StepTypes, PTL DEF Spec

(* In particular the types that the run checks. *)
THEOREM TypeCorrect == Spec => []TypeOK
<1>1. TypeInv => TypeOK
  BY DEF TypeInv
<1> QED
  BY <1>1, TypesHold, PTL
-----------------------------------------------------------------------------
(* What a step of t may write to the record of job j: a new record, or that of the job
   which t runs. *)
Writes(t, j) ==
    \/ jobs'[j] = jobs[j]
    \/ /\ j = issued + 1 /\ issued' = issued + 1
       /\ \/ pc[t] = "lookup" /\ CacheSuffices(t) /\ jobs'[j] = Answer(t)
          \/ pc[t] = "save" /\ jobs'[j] = rec[t]
          \/ pc[t] = "contSave" /\ jobs'[j] = Continuation(t)
    \/ /\ j = job[t] /\ t \in Runners
       /\ \/ pc[t] \in {"claim", "compute", "window"} /\ jobs'[j] = Running(t)
          \/ pc[t] = "saveDone" /\ jobs'[j] = Succeeded(t)
          \/ pc[t] = "saveFailed" /\ jobs'[j] = Failed(t)

(* So for a call that throws after its effect. *)
LEMMA EffectWrites ==
    ASSUME TypeInv, NEW t \in Tasks, EffectOnly(t), NEW j \in JobIds,
           pc[t] = "lookup" => CacheSuffices(t)
    PROVE  Writes(t, j)
<1>1. Kind(t) /\ jobs \in [JobIds -> Records \cup {NoRecord}]
  BY DEF TypeInv, TypeOK
<1>2. t \in Creators \/ t \in Runners
  BY DEF Tasks
<1>3. pc[t] \in {"claim", "saveDone", "saveFailed"} => t \in Runners
  BY <1>1, <1>2 DEF Kind, CreatorLabels
<1> QED
  BY <1>1, <1>3 DEF EffectOnly, Writes

(* What every step of a task may write to a job's record. *)
LEMMA JobWrites ==
    ASSUME TypeInv, NEW t \in Tasks, ActionOf(t), NEW j \in JobIds
    PROVE  Writes(t, j)
<1> USE DEF redisVars
<1>0. jobs \in [JobIds -> Records \cup {NoRecord}]
  BY DEF TypeInv, TypeOK
<1>1. CASE t \in Creators /\ ((\E k \in Keys : Submit(t, k)) \/ CreatorStep(t) \/ PushThrows(t))
  BY <1>0, <1>1 DEF Writes, CreatorStep, Submit, PushThrows, ReadCache, AnswerFromCache, LookupActive,
     ReuseActive, ActiveHasEnded, ContinueCached, ConsumeQuota, SaveQueued, Push
<1>2. CASE t \in Workers /\ (WorkerStep(t) \/ PopReplyLost(t))
  BY <1>2 DEF Writes, WorkerStep, Invoke, Pop, PopEmpty, PopReplyLost
<1>3. CASE t \in Runners /\ (RunStep(t) \/ ReportStage(t))
  BY <1>0, <1>3 DEF Writes, RunStep, ReportStage, ReadQueued, SkipNotQueued, Claim, AdvanceCheckpoint,
     ComputeCheckpoint, PersistSnapshot, AnalysisFails, SetCache, SaveSucceeded, SaveContinuation,
     PushContinuation, SaveFailed
<1>4. CASE t \in Runners /\ RunThrows(t)
  BY <1>4, EffectWrites DEF Writes, RunThrows
<1>5. CASE t \in Runners /\ FailureUnrecorded(t)
  BY <1>5, EffectWrites DEF Writes, FailureUnrecorded
<1>6. CASE \E p \in Procs, i \in JobIds : t = <<p, i>> /\ Poll(p, i)
  BY <1>6 DEF Writes, Poll
<1>7. CASE CallThrows(t)
  BY <1>7, EffectWrites DEF Writes, CallThrows
<1> QED
  BY <1>1, <1>2, <1>3, <1>4, <1>5, <1>6, <1>7 DEF ActionOf

(* What becomes of the copy that t works with. *)
Copies(t) ==
    \/ rec'[t] = rec[t] \/ rec'[t] = NoRecord
    \/ /\ t \in Creators /\ pc[t] = "idle" /\ pc'[t] = "readCache"
       /\ \E k \in Keys : rec'[t] = [status |-> "queued", key |-> k, result |-> None, charged |-> FALSE]
    \/ /\ t \in Creators /\ pc[t] = "readCache" /\ pc'[t] = "lookup" /\ rec[t] \in Records
       /\ rec'[t] = [rec[t] EXCEPT !.result = CachedResult(ProcOf(t), rec[t].key)]
    \/ /\ t \in Creators /\ pc[t] = "charge" /\ pc'[t] = "save" /\ rec[t] \in Records
       /\ rec'[t] = [rec[t] EXCEPT !.charged = TRUE]
       /\ quotaUsed' = quotaUsed + 1 /\ quotaUsed' <= QuotaLimit
    \/ /\ t \in Runners /\ pc[t] = "read" /\ pc'[t] = "claim"
       /\ jobs[job[t]].status = "queued" /\ rec'[t] = jobs[job[t]]

(* A function that returns drops its copy. *)
LEMMA EndCopies ==
    ASSUME TypeInv, NEW t \in Tasks, Forget(t) \/ NextJob(t) \/ Abandon(t)
    PROVE  rec'[t] = NoRecord
BY DEF TypeInv, TypeOK, Forget, NextJob, Abandon

(* What becomes of the copy in every step of its task. *)
LEMMA JobCopies ==
    ASSUME TypeInv, NEW t \in Tasks, ActionOf(t)
    PROVE  Copies(t)
<1>0. /\ rec \in [Tasks -> Records \cup {NoRecord}] /\ pc \in [Tasks -> Labels] /\ Kind(t) /\ Locals(t)
      /\ quotaUsed \in Nat
  BY DEF TypeInv, TypeOK
<1>1. CASE t \in Creators /\ ((\E k \in Keys : Submit(t, k)) \/ CreatorStep(t) \/ PushThrows(t))
  <2>1. CASE \E k \in Keys : Submit(t, k)
    BY <1>0, <1>1, <2>1 DEF Submit, Copies, Goto
  <2>2. CASE ReadCache(t)
    BY <1>0, <1>1, <2>2 DEF ReadCache, Copies, Goto, Locals
  <2>3. CASE ConsumeQuota(t)
    <3>1. CASE quotaUsed + 1 > QuotaLimit
      BY <2>3, <3>1, EndCopies DEF ConsumeQuota, Copies
    <3>2. CASE ~(quotaUsed + 1 > QuotaLimit)
      BY <1>0, <1>1, <2>3, <3>2 DEF ConsumeQuota, Copies, Goto, Locals
    <3> QED
      BY <3>1, <3>2
  <2>4. CASE AnswerFromCache(t) \/ ReuseActive(t) \/ Push(t) \/ PushThrows(t)
    BY <2>4, EndCopies DEF AnswerFromCache, ReuseActive, Push, PushThrows, Copies
  <2>5. CASE LookupActive(t) \/ ActiveHasEnded(t) \/ ContinueCached(t) \/ SaveQueued(t)
    BY <2>5 DEF LookupActive, ActiveHasEnded, ContinueCached, SaveQueued, Copies
  <2> QED
    BY <1>1, <2>1, <2>2, <2>3, <2>4, <2>5 DEF CreatorStep
<1>2. CASE t \in Workers /\ (WorkerStep(t) \/ PopReplyLost(t))
  BY <1>2, EndCopies DEF Copies, WorkerStep, Invoke, Pop, PopEmpty, PopReplyLost
<1>3. CASE t \in Runners /\ ReadQueued(t)
  <2>1. pc'[t] = "claim" /\ rec'[t] = jobs[job[t]] /\ pc[t] = "read" /\ jobs[job[t]].status = "queued"
    BY <1>0, <1>3 DEF ReadQueued, GotoStarting
  <2> QED
    BY <1>3, <2>1 DEF Copies
<1>4. CASE t \in Runners /\ (RunStep(t) \/ ReportStage(t)) /\ ~ReadQueued(t)
  BY <1>4, EndCopies DEF Copies, RunStep, ReportStage, SkipNotQueued, Claim, AdvanceCheckpoint,
     ComputeCheckpoint, PersistSnapshot, AnalysisFails, SetCache, SaveSucceeded, SaveContinuation,
     PushContinuation, SaveFailed, taskVars
<1>5. CASE t \in Runners /\ (RunThrows(t) \/ FailureUnrecorded(t))
  BY <1>5, EndCopies DEF Copies, RunThrows, FailureUnrecorded
<1>6. CASE \E p \in Procs, i \in JobIds : t = <<p, i>> /\ Poll(p, i)
  BY <1>6 DEF Copies, Poll
<1>7. CASE CallThrows(t)
  BY <1>7, EndCopies DEF Copies, CallThrows
<1> QED
  BY <1>1, <1>2, <1>3, <1>4, <1>5, <1>6, <1>7 DEF ActionOf
-----------------------------------------------------------------------------
(* A result, and a success, are only found where the wallet has a snapshot. *)
Answerable(r, wallets) ==
    r # NoRecord /\ (r.result # None \/ r.status = "succeeded") => r.key \in wallets

(* The calls between the snapshot, or the result it left, and the end of the job. *)
AnsweredLabels == {"advance", "setCache", "saveDone", "contSave", "contPush"}

AnswerInv ==
    /\ \A j \in JobIds : Answerable(jobs[j], snapshots)
    /\ \A t \in Tasks :
          /\ Answerable(rec[t], snapshots)
          /\ pc[t] \in AnsweredLabels => rec[t].key \in snapshots
    /\ \A k \in Keys : cache[k] # None => k \in snapshots
    /\ \A p \in Procs, k \in Keys : local[p][k] # None => k \in snapshots

(* What a step of t does to the snapshots and to the cached results. *)
Fills(t) ==
    /\ snapshots \subseteq snapshots'
    /\ \A k \in Keys : cache'[k] = cache[k] \/ (pc[t] = "setCache" /\ k = rec[t].key)
    /\ \A p \in Procs, k \in Keys :
          \/ local'[p][k] = local[p][k]
          \/ pc[t] = "setCache" /\ k = rec[t].key
          \/ local'[p][k] = cache[k]

(* A process's entry changes in one place. *)
LEMMA LocalPlaces ==
    ASSUME TypeInv, NEW p \in Procs, NEW k \in Keys, NEW v \in Coverage \cup {None},
           local' = [local EXCEPT ![p][k] = v]
    PROVE  /\ local'[p][k] = v
           /\ \A q \in Procs, m \in Keys : local'[q][m] = local[q][m] \/ (q = p /\ m = k)
BY DEF TypeInv, TypeOK

(* A call that throws fills the shared cache only where it meant to. *)
LEMMA CacheEffects ==
    ASSUME TypeInv, NEW t \in Tasks, (UNCHANGED <<redisVars, issued, starts>>) \/ EffectOnly(t)
    PROVE  \A k \in Keys : cache'[k] = cache[k] \/ (pc[t] = "setCache" /\ k = rec[t].key)
BY DEF TypeInv, TypeOK, EffectOnly, redisVars

(* What every step of a task does to snapshots and caches. *)
LEMMA TaskFills ==
    ASSUME TypeInv, NEW t \in Tasks, ActionOf(t)
    PROVE  Fills(t)
<1> USE DEF redisVars, indexVars, procVars, taskVars
<1>0. /\ cache \in [Keys -> Coverage \cup {None}] /\ Locals(t) /\ ProcOf(t) \in Procs
      /\ got[t] \in Coverage \cup {None}
  BY OwnTypes DEF TypeInv, TypeOK
<1>a. rec[t] \in Records => rec[t].key \in Keys
  BY DEF Records
<1>1. CASE t \in Creators /\ ((\E k \in Keys : Submit(t, k)) \/ CreatorStep(t) \/ PushThrows(t))
  <2>1. CASE ReadCache(t)
    <3>1. /\ rec[t].key \in Keys /\ UNCHANGED <<cache, snapshots>>
          /\ local' = [local EXCEPT ![ProcOf(t)][rec[t].key] = CachedResult(ProcOf(t), rec[t].key)]
      BY <1>0, <1>a, <2>1 DEF ReadCache, Locals
    <3>2. PICK p \in Procs, k \in Keys, v \in Coverage \cup {None} :
             /\ p = ProcOf(t) /\ k = rec[t].key /\ v = CachedResult(p, k)
             /\ local' = [local EXCEPT ![p][k] = v]
      BY <1>0, <3>1, CachedTypes
    <3>3. local'[p][k] = v
      BY <3>2 DEF TypeInv, TypeOK
    <3>4. \A q \in Procs, m \in Keys : local'[q][m] = local[q][m] \/ (q = p /\ m = k)
      BY <3>2, LocalPlaces
    <3> QED
      BY <3>1, <3>2, <3>3, <3>4 DEF Fills, CachedResult
  <2>2. CASE ~ReadCache(t)
    BY <1>1, <2>2 DEF Fills, CreatorStep, Submit, PushThrows, AnswerFromCache, LookupActive,
       ReuseActive, ActiveHasEnded, ContinueCached, ConsumeQuota, SaveQueued, Push
  <2> QED
    BY <2>1, <2>2
<1>2. CASE t \in Workers /\ (WorkerStep(t) \/ PopReplyLost(t))
  BY <1>2 DEF Fills, WorkerStep, Invoke, Pop, PopEmpty, PopReplyLost
<1>3. CASE t \in Runners /\ SetCache(t)
  <2>1. /\ rec[t].key \in Keys /\ UNCHANGED snapshots /\ pc[t] = "setCache"
        /\ cache' = [cache EXCEPT ![rec[t].key] = got[t]]
        /\ local' = [local EXCEPT ![ProcOf(t)][rec[t].key] = got[t]]
    BY <1>0, <1>a, <1>3 DEF SetCache, Locals
  <2> QED
    BY <1>0, <2>1, LocalPlaces DEF Fills
<1>4. CASE t \in Runners /\ (RunStep(t) \/ ReportStage(t)) /\ ~SetCache(t)
  BY <1>4 DEF Fills, RunStep, ReportStage, ReadQueued, SkipNotQueued, Claim, AdvanceCheckpoint,
     ComputeCheckpoint, PersistSnapshot, AnalysisFails, SaveSucceeded, SaveContinuation,
     PushContinuation, SaveFailed
<1>5. CASE t \in Runners /\ RunThrows(t)
  <2>1. /\ UNCHANGED snapshots /\ pc[t] \notin {"idle", "pop", "read"}
        /\ UNCHANGED <<redisVars, issued, starts>> \/ EffectOnly(t) \/ UNCHANGED cache
        /\ UNCHANGED local \/ (pc[t] = "setCache" /\ local' = [local EXCEPT ![ProcOf(t)][rec[t].key] = got[t]])
    BY <1>5 DEF RunThrows
  <2>2. rec[t].key \in Keys
    BY <1>0, <1>a, <2>1 DEF Locals
  <2>3. \A k \in Keys : cache'[k] = cache[k] \/ (pc[t] = "setCache" /\ k = rec[t].key)
    BY <2>1, CacheEffects
  <2>4. \A p \in Procs, k \in Keys : local'[p][k] = local[p][k] \/ (pc[t] = "setCache" /\ k = rec[t].key)
    <3>1. CASE UNCHANGED local
      BY <3>1
    <3>2. CASE pc[t] = "setCache" /\ local' = [local EXCEPT ![ProcOf(t)][rec[t].key] = got[t]]
      BY <1>0, <2>2, <3>2, LocalPlaces
    <3> QED
      BY <2>1, <3>1, <3>2
  <2> QED
    BY <2>1, <2>3, <2>4 DEF Fills
<1>6. CASE t \in Runners /\ FailureUnrecorded(t)
  BY <1>6, CacheEffects DEF Fills, FailureUnrecorded
<1>7. CASE \E p \in Procs, i \in JobIds : t = <<p, i>> /\ Poll(p, i)
  BY <1>7 DEF Fills, Poll
<1>8. CASE CallThrows(t)
  BY <1>8, CacheEffects DEF Fills, CallThrows
<1> QED
  BY <1>1, <1>2, <1>3, <1>4, <1>5, <1>6, <1>7, <1>8 DEF ActionOf

(* How t comes to a call that answers. *)
LEMMA AnswersFrom ==
    ASSUME TypeInv, NEW t \in Tasks, ActionOf(t), pc'[t] \in AnsweredLabels
    PROVE  /\ rec'[t] = rec[t]
           /\ \/ pc[t] \in AnsweredLabels
              \/ pc[t] = "claim" /\ rec[t].result # None
              \/ rec[t].key \in snapshots'
<1> USE DEF AnsweredLabels
<1>0. pc \in [Tasks -> Labels] /\ Kind(t)
  BY DEF TypeInv, TypeOK
<1>1. CASE t \in Creators
  <2>1. pc'[t] \notin AnsweredLabels
    BY <1>1, TaskTypesKept DEF TaskStep, Kind, CreatorLabels
  <2> QED
    BY <2>1
<1>2. CASE t \in Workers /\ (WorkerStep(t) \/ PopReplyLost(t))
  BY <1>0, <1>2 DEF WorkerStep, Invoke, Pop, PopEmpty, PopReplyLost, Goto, Abandon
<1>3. CASE t \in Runners /\ (RunStep(t) \/ ReportStage(t))
  <2>1. CASE ReadQueued(t)
    BY <1>0, <2>1 DEF ReadQueued, GotoStarting
  <2>2. CASE Claim(t)
    BY <1>0, <2>2 DEF Claim, Goto, NeedsContinuation, None
  <2>3. CASE AdvanceCheckpoint(t) \/ ComputeCheckpoint(t) \/ PersistSnapshot(t) \/ AnalysisFails(t) \/ SetCache(t)
             \/ SaveContinuation(t) \/ ReportStage(t)
    BY <1>0, <2>3 DEF AdvanceCheckpoint, ComputeCheckpoint, PersistSnapshot, AnalysisFails, SetCache,
       SaveContinuation, ReportStage, Goto, taskVars
  <2>4. CASE SkipNotQueued(t) \/ PushContinuation(t) \/ SaveFailed(t)
    BY <1>0, <2>4, EndTypes DEF SkipNotQueued, PushContinuation, SaveFailed
  <2>5. CASE SaveSucceeded(t)
    BY <1>0, <2>5, EndTypes DEF SaveSucceeded, Goto
  <2> QED
    BY <1>3, <2>1, <2>2, <2>3, <2>4, <2>5 DEF RunStep
<1>4. CASE t \in Runners /\ RunThrows(t)
  BY <1>0, <1>4 DEF RunThrows, Goto
<1>5. CASE t \in Runners /\ FailureUnrecorded(t)
  BY <1>0, <1>5, EndTypes DEF FailureUnrecorded
<1>6. CASE \E p \in Procs, i \in JobIds : t = <<p, i>> /\ Poll(p, i)
  BY <1>0, <1>6 DEF Poll, Goto
<1>7. CASE CallThrows(t)
  BY <1>0, <1>7, EndTypes DEF CallThrows
<1> QED
  BY <1>1, <1>2, <1>3, <1>4, <1>5, <1>6, <1>7 DEF ActionOf

(* The step of a task keeps results and successes answerable. *)
LEMMA AnswerStep ==
    ASSUME TypeInv, AnswerInv, NEW t \in Tasks, ActionOf(t)
    PROVE  AnswerInv'
<1>0. /\ snapshots \subseteq snapshots' /\ Copies(t) /\ Others(t) /\ Kind(t) /\ Locals(t) /\ TypeInv
      /\ rec \in [Tasks -> Records \cup {NoRecord}] /\ got[t] \in Coverage \cup {None}
      /\ jobs \in [JobIds -> Records \cup {NoRecord}]
      /\ Answerable(rec[t], snapshots) /\ ProcOf(t) \in Procs
  BY TaskFills, JobCopies, TaskTypesKept, OwnTypes DEF Fills, TaskStep, AnswerInv, TypeInv, TypeOK
<1>1. \A r : Answerable(r, snapshots) => Answerable(r, snapshots')
  BY <1>0 DEF Answerable
<1>2. ASSUME NEW k \in Keys, cache'[k] # None \/ \E p \in Procs : local'[p][k] # None
      PROVE  k \in snapshots'
  BY <1>0, <1>2, TaskFills DEF Fills, AnswerInv, AnsweredLabels
<1>3. ASSUME NEW j \in JobIds PROVE Answerable(jobs'[j], snapshots')
  <2>1. Writes(t, j)
    BY JobWrites
  <2>2. CASE jobs'[j] = jobs[j]
    BY <1>1, <2>2 DEF AnswerInv
  <2>3. CASE jobs'[j] = rec[t]
    BY <1>0, <1>1, <2>3
  <2>4. CASE jobs'[j] # jobs[j] /\ jobs'[j] # rec[t]
    <3>1. rec[t] \in Records
      BY <1>0, <2>1, <2>4 DEF Writes, Locals
    <3>2. /\ SavedAs(Answer(t), t, "succeeded", rec[t].result, rec[t].charged)
          /\ SavedAs(Running(t), t, "running", rec[t].result, rec[t].charged)
          /\ SavedAs(Succeeded(t), t, "succeeded", got[t], rec[t].charged)
          /\ SavedAs(Failed(t), t, "failed", None, rec[t].charged)
          /\ SavedAs(Continuation(t), t, rec[t].status, got[t], FALSE)
          /\ rec[t] # NoRecord
      BY <1>0, <3>1, RecordTypes
    <3>3. CASE pc[t] = "lookup" /\ CacheSuffices(t) /\ jobs'[j] = Answer(t)
      BY <1>0, <3>2, <3>3 DEF SavedAs, CacheSuffices, Answerable
    <3>4. CASE pc[t] = "contSave" /\ jobs'[j] = Continuation(t)
      BY <1>0, <3>2, <3>4 DEF SavedAs, AnswerInv, AnsweredLabels, Answerable
    <3>5. CASE jobs'[j] = Running(t)
      BY <1>0, <3>2, <3>5 DEF SavedAs, Answerable
    <3>6. CASE pc[t] = "saveDone" /\ jobs'[j] = Succeeded(t)
      BY <1>0, <3>2, <3>6 DEF SavedAs, AnswerInv, AnsweredLabels, Answerable
    <3>7. CASE jobs'[j] = Failed(t)
      BY <3>2, <3>7 DEF SavedAs, Answerable
    <3> QED
      BY <2>1, <2>4, <3>3, <3>4, <3>5, <3>6, <3>7 DEF Writes
  <2> QED
    BY <2>2, <2>3, <2>4
<1>4. Answerable(rec'[t], snapshots')
  <2>1. CASE rec'[t] = rec[t] \/ rec'[t] = NoRecord
    BY <1>0, <1>1, <2>1 DEF Answerable
  <2>2. CASE \E k \in Keys : rec'[t] = [status |-> "queued", key |-> k, result |-> None, charged |-> FALSE]
    BY <2>2 DEF Answerable
  <2>3. CASE rec[t] \in Records /\ rec'[t] = [rec[t] EXCEPT !.result = CachedResult(ProcOf(t), rec[t].key)]
    <3>1. /\ rec'[t].key = rec[t].key /\ rec'[t].status = rec[t].status /\ rec[t].key \in Keys
          /\ rec'[t].result = CachedResult(ProcOf(t), rec[t].key) /\ rec[t] # NoRecord
      BY <1>0, <2>3, RecordTypes DEF Records
    <3>2. CachedResult(ProcOf(t), rec[t].key) # None => rec[t].key \in snapshots
      BY <1>0, <3>1 DEF CachedResult, AnswerInv
    <3> QED
      BY <1>0, <3>1, <3>2 DEF Answerable
  <2>4. CASE rec[t] \in Records /\ rec'[t] = [rec[t] EXCEPT !.charged = TRUE]
    <3>1. /\ rec'[t].key = rec[t].key /\ rec'[t].status = rec[t].status
          /\ rec'[t].result = rec[t].result /\ rec[t] # NoRecord
      BY <1>0, <2>4, RecordTypes DEF Records
    <3> QED
      BY <1>0, <3>1 DEF Answerable
  <2>5. CASE t \in Runners /\ pc[t] = "read" /\ rec'[t] = jobs[job[t]]
    <3>1. job[t] \in JobIds
      BY <1>0, <2>5 DEF Locals, RunLabels
    <3> QED
      BY <1>1, <2>5, <3>1 DEF AnswerInv
  <2> QED
    BY <1>0, <2>1, <2>2, <2>3, <2>4, <2>5 DEF Copies
<1>5. pc'[t] \in AnsweredLabels => rec'[t].key \in snapshots'
  <2>1. pc[t] = "claim" => rec[t] # NoRecord
    BY <1>0, RecordTypes DEF Locals
  <2> QED
    BY <1>0, <2>1, AnswersFrom DEF AnswerInv, Answerable
<1>6. ASSUME NEW u \in Tasks, u # t
      PROVE  Answerable(rec'[u], snapshots') /\ (pc'[u] \in AnsweredLabels => rec'[u].key \in snapshots')
  BY <1>0, <1>1, <1>6 DEF Others, AnswerInv, AnsweredLabels
<1> QED
  BY <1>2, <1>3, <1>4, <1>5, <1>6 DEF AnswerInv

(* A crash and an expiry only lose results. *)
LEMMA AnswerEnvironment ==
    ASSUME TypeInv, AnswerInv, Environment
    PROVE  AnswerInv'
<1> USE DEF redisVars, indexVars, procVars, taskVars
<1>0. /\ local \in [Procs -> [Keys -> Coverage \cup {None}]] /\ cache \in [Keys -> Coverage \cup {None}]
      /\ jobs \in [JobIds -> Records \cup {NoRecord}]
  BY DEF TypeInv, TypeOK
<1>1. ASSUME NEW p \in Procs, Crash(p) PROVE AnswerInv'
  <2>1. /\ UNCHANGED <<jobs, cache, snapshots>>
        /\ \A q \in Procs, k \in Keys : local'[q][k] = local[q][k] \/ local'[q][k] = None
        /\ \A t \in Tasks : (pc'[t] = pc[t] /\ rec'[t] = rec[t]) \/ (pc'[t] = "idle" /\ rec'[t] = NoRecord)
    BY <1>0, <1>1 DEF Crash
  <2> QED
    BY <2>1 DEF AnswerInv, Answerable, AnsweredLabels
<1>2. ASSUME NEW j \in JobIds, ExpireRecord(j) PROVE AnswerInv'
  <2>1. /\ UNCHANGED <<cache, snapshots, local, pc, rec>>
        /\ \A i \in JobIds : jobs'[i] = jobs[i] \/ jobs'[i] = NoRecord
    BY <1>0, <1>2 DEF ExpireRecord
  <2> QED
    BY <2>1 DEF AnswerInv, Answerable
<1>3. ASSUME Expiry PROVE AnswerInv'
  <2>1. /\ UNCHANGED <<jobs, snapshots, pc, rec>>
        /\ \A k \in Keys : cache'[k] = cache[k] \/ cache'[k] = None
    BY <1>0, <1>3 DEF Expiry, ExpireQueue, ExpireCache, ExpireLocal
  <2>2. UNCHANGED local \/ \E p \in Procs, k \in Keys : local' = [local EXCEPT ![p][k] = None]
    BY <1>3 DEF Expiry, ExpireQueue, ExpireCache, ExpireLocal
  <2>3. \A q \in Procs, k \in Keys : local'[q][k] = local[q][k] \/ local'[q][k] = None
    BY <1>0, <2>2
  <2> QED
    BY <2>1, <2>3 DEF AnswerInv, Answerable
<1> QED
  BY <1>1, <1>2, <1>3 DEF Environment

(* However results are cached, copied between records and lost again, and however steps
   fail, a job succeeds only after its wallet's snapshot was stored. *)
THEOREM AnswersHold == Spec => []SuccessIsAnswerable
<1>1. Init => AnswerInv
  BY DEF Init, AnswerInv, Answerable, AnsweredLabels
<1>2. TypeInv /\ AnswerInv /\ [Next]_vars => AnswerInv'
  <2> SUFFICES ASSUME TypeInv, AnswerInv, [Next]_vars PROVE AnswerInv'
    OBVIOUS
  <2>1. CASE UNCHANGED vars
    BY <2>1 DEF vars, AnswerInv, Answerable
  <2>2. CASE Next
    BY <2>2, StepKinds, AnswerStep, AnswerEnvironment DEF Next
  <2> QED
    BY <2>1, <2>2
<1>3. TypeInv /\ AnswerInv => SuccessIsAnswerable
  BY DEF TypeInv, TypeOK, AnswerInv, Answerable, SuccessIsAnswerable, NoRecord
<1> QED
  BY <1>1, <1>2, <1>3, TypesHold, PTL DEF Spec
-----------------------------------------------------------------------------
(* The calls of a handler before its request is paid for. *)
EarlyLabels == {"readCache", "lookup", "recheck", "charge"}

(* How a handler goes from call to call. *)
CreatorGoes(c) ==
    \/ pc'[c] = "idle" /\ rec'[c] = NoRecord
    \/ pc[c] = "idle" /\ pc'[c] = "readCache" /\ ~rec'[c].charged
    \/ pc[c] \in EarlyLabels \ {"charge"} /\ pc'[c] \in EarlyLabels \ {"readCache"}
    \/ pc[c] = "charge" /\ pc'[c] = "save"
    \/ pc[c] = "save" /\ pc'[c] = "push" /\ job'[c] = issued + 1 /\ issued' = issued + 1

(* How an invocation goes from job to job, and a runner from call to call. *)
RunnerGoes(r) ==
    \/ pc'[r] \in {"idle", "pop"} /\ rec'[r] = NoRecord
    \/ pc[r] = "idle" /\ pc'[r] \in {"pop", "read"} /\ rec'[r] = rec[r] /\ (pc'[r] = "read" => mode = "inline")
    \/ /\ r \in Workers /\ pc[r] = "pop" /\ pc'[r] = "read" /\ rec'[r] = rec[r]
       /\ queue # <<>> /\ job'[r] = Head(queue) /\ queue' = Tail(queue)
    \/ pc[r] \in RunLabels /\ pc'[r] \in RunLabels \ {"read"} /\ job'[r] = job[r]

(* The order of a handler's calls. *)
LEMMA CreatorPath ==
    ASSUME TypeInv, NEW c \in Creators, ActionOf(c)
    PROVE  CreatorGoes(c)
<1>0. /\ pc \in [Tasks -> Labels] /\ job \in [Tasks -> JobIds \cup {NoJob}] /\ rec \in [Tasks -> Records \cup {NoRecord}]
      /\ Kind(c) /\ c \in Tasks /\ c \notin Workers /\ c \notin Timers /\ c \notin Runners
  BY Kinds DEF TypeInv, TypeOK
<1>1. ASSUME NEW k \in Keys, Submit(c, k) PROVE CreatorGoes(c)
  BY <1>0, <1>1 DEF Submit, Goto, CreatorGoes
<1>2. CASE ReadCache(c) \/ LookupActive(c) \/ ActiveHasEnded(c) \/ ContinueCached(c) \/ SaveQueued(c)
  BY <1>0, <1>2 DEF ReadCache, LookupActive, ActiveHasEnded, ContinueCached, SaveQueued, Goto,
     CreatorGoes, EarlyLabels
<1>3. CASE AnswerFromCache(c) \/ PushThrows(c) \/ CallThrows(c)
  <2>1. Abandon(c)
    BY <1>3 DEF AnswerFromCache, PushThrows, CallThrows
  <2> QED
    BY <1>0, <2>1, EndCopies DEF Abandon, Goto, CreatorGoes
<1>4. CASE ReuseActive(c) \/ Push(c)
  BY <1>0, <1>4, EndCopies DEF ReuseActive, Push, GotoStarting, CreatorGoes
<1>5. CASE ConsumeQuota(c)
  <2>1. CASE quotaUsed + 1 > QuotaLimit
    BY <1>0, <1>5, <2>1, EndCopies DEF ConsumeQuota, Abandon, Goto, CreatorGoes
  <2>2. CASE ~(quotaUsed + 1 > QuotaLimit)
    BY <1>0, <1>5, <2>2 DEF ConsumeQuota, Goto, CreatorGoes
  <2> QED
    BY <2>1, <2>2
<1>6. ~\E p \in Procs, i \in JobIds : c = <<p, i>> /\ Poll(p, i)
  BY <1>0, Kinds
<1> QED
  BY <1>0, <1>1, <1>2, <1>3, <1>4, <1>5, <1>6 DEF ActionOf, CreatorStep

(* The order of a runner's calls. *)
LEMMA RunnerPath ==
    ASSUME TypeInv, NEW r \in Runners, ActionOf(r)
    PROVE  RunnerGoes(r)
<1>0. /\ pc \in [Tasks -> Labels] /\ job \in [Tasks -> JobIds \cup {NoJob}] /\ rec \in [Tasks -> Records \cup {NoRecord}]
      /\ Kind(r) /\ r \in Tasks /\ r \notin Creators
  BY Kinds DEF TypeInv, TypeOK, Runners
<1>1. CASE r \in Workers /\ (Invoke(r) \/ Pop(r))
  BY <1>0, <1>1 DEF Invoke, Pop, Goto, RunnerGoes
<1>2. CASE PopEmpty(r) \/ PopReplyLost(r) \/ SkipNotQueued(r) \/ PushContinuation(r) \/ SaveFailed(r)
           \/ FailureUnrecorded(r) \/ CallThrows(r)
  <2>1. NextJob(r) \/ Abandon(r)
    BY <1>2 DEF PopEmpty, PopReplyLost, SkipNotQueued, PushContinuation, SaveFailed, FailureUnrecorded,
       CallThrows
  <2> QED
    BY <1>0, <2>1, EndCopies, EndTypes DEF RunnerGoes
<1>3. CASE ReadQueued(r)
  BY <1>0, <1>3 DEF ReadQueued, GotoStarting, RunnerGoes, RunLabels
<1>4. CASE Claim(r) \/ AdvanceCheckpoint(r) \/ ComputeCheckpoint(r) \/ PersistSnapshot(r)
           \/ AnalysisFails(r) \/ SetCache(r) \/ SaveContinuation(r) \/ RunThrows(r) \/ ReportStage(r)
  BY <1>0, <1>4 DEF Claim, AdvanceCheckpoint, ComputeCheckpoint, PersistSnapshot, AnalysisFails,
     SetCache,
     SaveContinuation, RunThrows, ReportStage, Goto, RunnerGoes, RunLabels, taskVars
<1>5. CASE SaveSucceeded(r)
  <2>1. CASE NextJob(r)
    BY <1>0, <2>1, EndCopies, EndTypes DEF RunnerGoes
  <2>2. CASE ~NextJob(r)
    BY <1>0, <1>5, <2>2 DEF SaveSucceeded, Goto, RunnerGoes, RunLabels
  <2> QED
    BY <2>1, <2>2
<1>6. CASE \E p \in Procs, i \in JobIds : r = <<p, i>> /\ Poll(p, i)
  BY <1>0, <1>6 DEF Poll, Goto, RunnerGoes
<1> QED
  BY <1>0, <1>1, <1>2, <1>3, <1>4, <1>5, <1>6 DEF ActionOf, WorkerStep, RunStep

(* The counter only grows. *)
LEMMA QuotaGrows ==
    ASSUME TypeInv, NEW t \in Tasks, ActionOf(t)
    PROVE  quotaUsed \in Nat /\ quotaUsed' \in Nat /\ quotaUsed' >= quotaUsed
<1> USE DEF redisVars
<1>0. quotaUsed \in Nat
  BY DEF TypeInv, TypeOK
<1>1. UNCHANGED quotaUsed \/ quotaUsed' = quotaUsed + 1
  <2>1. CASE t \in Creators /\ ((\E k \in Keys : Submit(t, k)) \/ CreatorStep(t) \/ PushThrows(t))
    BY <2>1 DEF CreatorStep, Submit, PushThrows, ReadCache, AnswerFromCache, LookupActive,
       ReuseActive, ActiveHasEnded, ContinueCached, ConsumeQuota, SaveQueued, Push
  <2>2. CASE t \in Workers /\ (WorkerStep(t) \/ PopReplyLost(t))
    BY <2>2 DEF WorkerStep, Invoke, Pop, PopEmpty, PopReplyLost
  <2>3. CASE t \in Runners /\ (RunStep(t) \/ ReportStage(t))
    BY <2>3 DEF RunStep, ReportStage, ReadQueued, SkipNotQueued, Claim, AdvanceCheckpoint,
       ComputeCheckpoint, PersistSnapshot, AnalysisFails, SetCache, SaveSucceeded, SaveContinuation,
       PushContinuation, SaveFailed
  <2>4. CASE t \in Runners /\ (RunThrows(t) \/ FailureUnrecorded(t))
    BY <2>4 DEF RunThrows, FailureUnrecorded, EffectOnly
  <2>5. CASE \E p \in Procs, i \in JobIds : t = <<p, i>> /\ Poll(p, i)
    BY <2>5 DEF Poll
  <2>6. CASE CallThrows(t)
    BY <2>6 DEF CallThrows, EffectOnly
  <2> QED
    BY <2>1, <2>2, <2>3, <2>4, <2>5, <2>6 DEF ActionOf
<1> QED
  BY <1>0, <1>1

Charged(r) == r # NoRecord /\ r.charged

(* Jobs that were paid for, saved or with a runner that will save them again, and
   handlers that have paid for a job they are about to save. *)
Paid ==
    {j \in JobIds : \/ Charged(jobs[j])
                    \/ \E r \in Runners : pc[r] \in RunLabels /\ job[r] = j /\ Charged(rec[r])}
Paying == {c \in Creators : pc[c] = "save" /\ Charged(rec[c])}

QuotaInv ==
    /\ Cardinality(Paid) + Cardinality(Paying) <= quotaUsed
    /\ Cardinality(Paid) + Cardinality(Paying) <= QuotaLimit
    /\ \A c \in Creators : pc[c] \in EarlyLabels => ~rec[c].charged
    /\ \A t \in Tasks : pc[t] \in {"idle", "pop", "read"} => rec[t] = NoRecord

(* What is counted is finite. *)
LEMMA FinitePaid == IsFiniteSet(Paid) /\ IsFiniteSet(Paying)
<1>1. IsFiniteSet(JobIds)
  BY FS_Interval DEF JobIds
<1>2. IsFiniteSet(Paid)
  BY <1>1, FS_Subset DEF Paid
<1>3. IsFiniteSet(Paying)
  BY FS_Subset DEF Paying
<1> QED
  BY <1>2, <1>3

(* One more element is at most one more to count. *)
LEMMA OneMore ==
    ASSUME NEW S, IsFiniteSet(S), NEW x
    PROVE  /\ IsFiniteSet(S \cup {x}) /\ Cardinality(S \cup {x}) \in Nat
           /\ Cardinality(S \cup {x}) <= Cardinality(S) + 1
<1>1. IsFiniteSet(S \cup {x}) /\ Cardinality(S \cup {x}) = IF x \in S THEN Cardinality(S) ELSE Cardinality(S) + 1
  BY FS_AddElement
<1>2. Cardinality(S) \in Nat
  BY FS_CardinalityType
<1> QED
  BY <1>1, <1>2

(* A step that adds no paid job and no paying handler keeps the count; so does one that
   turns a paying handler into a paid job, or adds a paying handler and counts it. *)
LEMMA CountKept ==
    ASSUME TypeInv, QuotaInv, quotaUsed' \in Nat, quotaUsed' >= quotaUsed,
           IsFiniteSet(Paid'), IsFiniteSet(Paying'),
           \/ Paid' \subseteq Paid /\ Paying' \subseteq Paying
           \/ \E j, c : c \in Paying /\ Paid' \subseteq Paid \cup {j} /\ Paying' \subseteq Paying \ {c}
           \/ \E c : /\ Paid' \subseteq Paid /\ Paying' \subseteq Paying \cup {c}
                     /\ quotaUsed' = quotaUsed + 1 /\ quotaUsed' <= QuotaLimit
    PROVE  /\ Cardinality(Paid') + Cardinality(Paying') <= quotaUsed'
           /\ Cardinality(Paid') + Cardinality(Paying') <= QuotaLimit
<1>0. /\ IsFiniteSet(Paid) /\ IsFiniteSet(Paying) /\ quotaUsed \in Nat
      /\ Cardinality(Paid) \in Nat /\ Cardinality(Paying) \in Nat
      /\ Cardinality(Paid') \in Nat /\ Cardinality(Paying') \in Nat
  BY FinitePaid, FS_CardinalityType DEF TypeInv, TypeOK
<1>1. CASE Paid' \subseteq Paid /\ Paying' \subseteq Paying
  <2>1. Cardinality(Paid') <= Cardinality(Paid) /\ Cardinality(Paying') <= Cardinality(Paying)
    BY <1>0, <1>1, FS_Subset
  <2> QED
    BY <1>0, <2>1 DEF QuotaInv
<1>2. ASSUME NEW j, NEW c \in Paying, Paid' \subseteq Paid \cup {j}, Paying' \subseteq Paying \ {c}
      PROVE  Cardinality(Paid') + Cardinality(Paying') <= Cardinality(Paid) + Cardinality(Paying)
  <2>1. /\ IsFiniteSet(Paid \cup {j}) /\ Cardinality(Paid \cup {j}) \in Nat
        /\ Cardinality(Paid \cup {j}) <= Cardinality(Paid) + 1
    BY <1>0, OneMore
  <2>2. IsFiniteSet(Paying \ {c}) /\ Cardinality(Paying \ {c}) = Cardinality(Paying) - 1
    BY <1>0, FS_RemoveElement
  <2>3. Cardinality(Paid') <= Cardinality(Paid \cup {j})
    BY <1>2, <2>1, FS_Subset
  <2>4. Cardinality(Paying') <= Cardinality(Paying \ {c})
    BY <1>2, <2>2, FS_Subset
  <2> QED
    BY <1>0, <2>1, <2>2, <2>3, <2>4
<1>3. ASSUME NEW c, Paid' \subseteq Paid, Paying' \subseteq Paying \cup {c}
      PROVE  Cardinality(Paid') + Cardinality(Paying') <= Cardinality(Paid) + Cardinality(Paying) + 1
  <2>1. /\ IsFiniteSet(Paying \cup {c}) /\ Cardinality(Paying \cup {c}) \in Nat
        /\ Cardinality(Paying \cup {c}) <= Cardinality(Paying) + 1
    BY <1>0, OneMore
  <2>2. Cardinality(Paid') <= Cardinality(Paid)
    BY <1>0, <1>3, FS_Subset
  <2>3. Cardinality(Paying') <= Cardinality(Paying \cup {c})
    BY <1>3, <2>1, FS_Subset
  <2> QED
    BY <1>0, <2>1, <2>2, <2>3
<1>4. Cardinality(Paid) + Cardinality(Paying) <= quotaUsed /\ Cardinality(Paid) + Cardinality(Paying) <= QuotaLimit
  BY DEF QuotaInv
<1>5. CASE \E j, c : c \in Paying /\ Paid' \subseteq Paid \cup {j} /\ Paying' \subseteq Paying \ {c}
  <2>1. Cardinality(Paid') + Cardinality(Paying') <= Cardinality(Paid) + Cardinality(Paying)
    BY <1>2, <1>5
  <2> QED
    BY <1>0, <1>4, <2>1
<1>6. CASE \E c : /\ Paid' \subseteq Paid /\ Paying' \subseteq Paying \cup {c}
                  /\ quotaUsed' = quotaUsed + 1 /\ quotaUsed' <= QuotaLimit
  <2>1. Cardinality(Paid') + Cardinality(Paying') <= Cardinality(Paid) + Cardinality(Paying) + 1
    BY <1>3, <1>6
  <2> QED
    BY <1>0, <1>4, <1>6, <2>1
<1> QED
  BY <1>1, <1>5, <1>6

(* Where a charged record may come from. *)
LEMMA ChargedWrites ==
    ASSUME TypeInv, QuotaInv, NEW t \in Tasks, ActionOf(t), NEW j \in JobIds, Charged(jobs'[j])
    PROVE  j \in Paid \/ (j = issued + 1 /\ t \in Creators /\ pc[t] = "save" /\ Charged(rec[t]))
<1>0. Kind(t) /\ Locals(t) /\ got[t] \in Coverage \cup {None} /\ Writes(t, j)
  BY OwnTypes, JobWrites
<1>1. CASE jobs'[j] = jobs[j]
  BY <1>1 DEF Paid
<1>2. CASE pc[t] = "save" /\ jobs'[j] = rec[t] /\ j = issued + 1
  <2>1. t \in Creators
    BY <1>0, <1>2 DEF Tasks, Runners, Kind, RunLabels
  <2> QED
    BY <1>2, <2>1
<1>3. CASE pc[t] \in {"lookup", "contSave"} \cup (RunLabels \ {"read"})
  <2>1. rec[t] \in Records
    BY <1>0, <1>3 DEF Locals, RunLabels
  <2>2. /\ Answer(t).charged = rec[t].charged /\ Running(t).charged = rec[t].charged
        /\ Succeeded(t).charged = rec[t].charged /\ Failed(t).charged = rec[t].charged
        /\ Continuation(t).charged = FALSE /\ rec[t] # NoRecord
    BY <1>0, <2>1, RecordTypes DEF SavedAs
  <2>3. CASE pc[t] = "lookup" /\ jobs'[j] = Answer(t)
    <3>1. t \in Creators
      BY <1>0, <2>3 DEF Tasks, Runners, Kind, RunLabels
    <3> QED
      BY <2>2, <2>3, <3>1 DEF QuotaInv, EarlyLabels, Charged
  <2>4. CASE pc[t] = "contSave" /\ jobs'[j] = Continuation(t)
    BY <2>2, <2>4 DEF Charged
  <2>5. CASE j = job[t] /\ t \in Runners /\ jobs'[j] \in {Running(t), Succeeded(t), Failed(t)} /\ pc[t] \in RunLabels
    BY <2>2, <2>5 DEF Charged, Paid
  <2> QED
    BY <1>0, <1>1, <1>3, <2>3, <2>4, <2>5 DEF Writes, RunLabels
<1> QED
  BY <1>0, <1>1, <1>2, <1>3 DEF Writes, RunLabels

(* A runner's copy is charged only if its job is. *)
LEMMA ChargedCopies ==
    ASSUME TypeInv, QuotaInv, NEW t \in Tasks, ActionOf(t), NEW r \in Runners,
           pc'[r] \in RunLabels, Charged(rec'[r])
    PROVE  job'[r] \in Paid
<1>0. r \in Tasks /\ Others(t) /\ Copies(t) /\ Kind(t) /\ Locals(t) /\ r \notin Creators
  BY TaskTypesKept, JobCopies, OwnTypes, Kinds DEF TaskStep, Tasks, Runners
<1>a. job[r] \in JobIds \cup {NoJob} /\ (pc[r] \in RunLabels => job[r] \in JobIds)
  BY <1>0, OwnTypes DEF Locals
<1>1. CASE r # t
  <2>1. rec'[r] = rec[r] /\ job'[r] = job[r] /\ (pc'[r] = pc[r] \/ pc[r] = "idle")
    BY <1>0, <1>1 DEF Others
  <2>2. pc[r] # "idle"
    BY <1>0, <2>1 DEF QuotaInv, Charged
  <2> QED
    BY <1>a, <2>1, <2>2 DEF Paid
<1>2. CASE r = t
  <2>1. RunnerGoes(r)
    BY <1>2, RunnerPath
  <2>2. pc[r] \in RunLabels /\ job'[r] = job[r]
    BY <1>0, <2>1 DEF RunnerGoes, QuotaInv, Charged, RunLabels
  <2>3. CASE rec'[r] = rec[r]
    BY <1>a, <2>2, <2>3 DEF Paid
  <2>4. CASE rec'[r] = jobs[job[r]]
    BY <1>a, <2>2, <2>4 DEF Paid
  <2> QED
    BY <1>0, <1>2, <2>3, <2>4 DEF Copies, Charged
<1> QED
  BY <1>1, <1>2

(* A task's step keeps the count within the quota. *)
LEMMA QuotaStep ==
    ASSUME TypeInv, QuotaInv, NEW t \in Tasks, ActionOf(t)
    PROVE  QuotaInv'
<1>0. /\ Others(t) /\ Copies(t) /\ Kind(t) /\ TypeInv /\ (t \in Creators \/ t \in Runners)
      /\ TaskTypes' /\ StoreTypes' /\ quotaUsed' \in Nat /\ quotaUsed' >= quotaUsed
  BY TaskTypesKept, TaskShared, JobCopies, OwnTypes, QuotaGrows DEF TaskStep, Tasks
<1>1. IsFiniteSet(Paid') /\ IsFiniteSet(Paying')
  <2>1. Paid' \subseteq JobIds /\ Paying' \subseteq Creators
    BY DEF Paid, Paying
  <2> QED
    <3>1. IsFiniteSet(JobIds) /\ IsFiniteSet(Creators)
      BY FS_Interval DEF JobIds
    <3> QED
      BY <2>1, <3>1, FS_Subset
<1>2. ASSUME NEW j \in Paid', j \notin Paid
      PROVE  j = issued + 1 /\ t \in Paying
  <2>1. j \in JobIds
    BY DEF Paid
  <2>2. CASE Charged(jobs'[j])
    BY <1>2, <2>1, <2>2, ChargedWrites DEF Paying
  <2>3. CASE \E r \in Runners : pc'[r] \in RunLabels /\ job'[r] = j /\ Charged(rec'[r])
    BY <1>2, <2>3, ChargedCopies
  <2> QED
    BY <2>2, <2>3 DEF Paid, Charged
<1>3. ASSUME NEW c \in Creators, c # t
      PROVE  pc'[c] = pc[c] /\ rec'[c] = rec[c]
  <2>1. c \in Tasks \ {t} /\ c \notin Timers
    BY <1>3, Kinds
  <2> QED
    BY <1>0, <2>1 DEF Others
<1>5. ASSUME \/ Paid' \subseteq Paid /\ Paying' \subseteq Paying
             \/ \E j, c : c \in Paying /\ Paid' \subseteq Paid \cup {j} /\ Paying' \subseteq Paying \ {c}
             \/ \E c : /\ Paid' \subseteq Paid /\ Paying' \subseteq Paying \cup {c}
                       /\ quotaUsed' = quotaUsed + 1 /\ quotaUsed' <= QuotaLimit,
             \A c \in Creators : c = t => (pc'[c] \in EarlyLabels => ~rec'[c].charged),
             pc'[t] \in {"idle", "pop", "read"} => rec'[t] = NoRecord
      PROVE  QuotaInv'
  <2>1. /\ Cardinality(Paid') + Cardinality(Paying') <= quotaUsed'
        /\ Cardinality(Paid') + Cardinality(Paying') <= QuotaLimit
    BY <1>0, <1>1, <1>5, CountKept
  <2>2. \A c \in Creators : pc'[c] \in EarlyLabels => ~rec'[c].charged
    BY <1>3, <1>5 DEF QuotaInv
  <2>3. ASSUME NEW u \in Tasks, u # t, pc'[u] \in {"idle", "pop", "read"}
        PROVE  rec'[u] = NoRecord
    <3>1. rec'[u] = rec[u] /\ (pc'[u] = pc[u] \/ pc[u] = "idle")
      BY <1>0, <2>3 DEF Others
    <3> QED
      BY <2>3, <3>1 DEF QuotaInv
  <2> QED
    BY <1>5, <2>1, <2>2, <2>3 DEF QuotaInv
<1>4. CASE t \in Creators
  <2>1. CreatorGoes(t)
    BY <1>4, CreatorPath
  <2>2. pc'[t] \in EarlyLabels => ~rec'[t].charged
    <3>1. CASE pc[t] \in EarlyLabels \ {"charge"} /\ pc'[t] \in EarlyLabels \ {"readCache"}
      <4>1. ~rec[t].charged
        BY <1>4, <3>1 DEF QuotaInv
      <4>2. CASE rec[t] \in Records /\ rec'[t] = [rec[t] EXCEPT !.result = CachedResult(ProcOf(t), rec[t].key)]
        BY <4>1, <4>2 DEF Records
      <4>3. CASE rec'[t] = rec[t]
        BY <4>1, <4>3
      <4>4. rec'[t] # NoRecord
        BY <1>0, <3>1, TaskTypesKept, RecordTypes, OwnTypes DEF TaskStep, Locals, EarlyLabels,
           TaskTypes, Records, NoRecord, Statuses
      <4> QED
        BY <1>0, <1>4, <3>1, <4>2, <4>3, <4>4, Kinds DEF Copies, EarlyLabels
    <3> QED
      BY <2>1, <3>1 DEF CreatorGoes, EarlyLabels
  <2>3. \/ Paid' \subseteq Paid /\ Paying' \subseteq Paying
        \/ \E j, c : c \in Paying /\ Paid' \subseteq Paid \cup {j} /\ Paying' \subseteq Paying \ {c}
        \/ \E c : /\ Paid' \subseteq Paid /\ Paying' \subseteq Paying \cup {c}
                  /\ quotaUsed' = quotaUsed + 1 /\ quotaUsed' <= QuotaLimit
    <3>1. CASE t \in Paying
      <4>1. pc'[t] # "save"
        BY <2>1, <3>1 DEF CreatorGoes, EarlyLabels, Paying
      <4>2. Paying' \subseteq Paying \ {t}
        BY <1>3, <4>1 DEF Paying, Charged
      <4>3. Paid' \subseteq Paid \cup {issued + 1}
        BY <1>2
      <4> QED
        BY <3>1, <4>2, <4>3
    <3>2. CASE t \notin Paying /\ t \notin Paying'
      <4>1. Paying' \subseteq Paying
        BY <1>3, <3>2 DEF Paying, Charged
      <4> QED
        BY <1>2, <3>2, <4>1
    <3>3. CASE t \notin Paying /\ t \in Paying'
      <4>1. Paying' \subseteq Paying \cup {t}
        BY <1>3 DEF Paying, Charged
      <4>2. pc'[t] = "save" /\ pc[t] = "charge" /\ Charged(rec'[t])
        BY <2>1, <3>3 DEF CreatorGoes, EarlyLabels, Paying, Charged
      <4>3. rec'[t] # rec[t]
        BY <1>4, <4>2 DEF QuotaInv, EarlyLabels, Charged
      <4>4. quotaUsed' = quotaUsed + 1 /\ quotaUsed' <= QuotaLimit
        BY <1>0, <1>4, <4>2, <4>3, Kinds DEF Copies, Charged
      <4> QED
        BY <1>2, <3>3, <4>1, <4>4
    <3> QED
      BY <3>1, <3>2, <3>3
  <2>4. pc'[t] \in {"idle", "pop", "read"} => rec'[t] = NoRecord
    BY <2>1 DEF CreatorGoes, EarlyLabels
  <2> QED
    BY <1>5, <2>2, <2>3, <2>4
<1>7. CASE t \in Runners
  <2>1. RunnerGoes(t) /\ t \notin Creators /\ t \in Tasks
    BY <1>7, RunnerPath, Kinds DEF Runners
  <2>2. t \notin Paying
    BY <2>1 DEF Paying
  <2>3. Paid' \subseteq Paid
    BY <1>2, <2>2
  <2>4. Paying' \subseteq Paying
    BY <1>3, <2>1 DEF Paying, Charged
  <2>5. pc'[t] \in {"idle", "pop", "read"} => rec'[t] = NoRecord
    BY <2>1 DEF RunnerGoes, QuotaInv, RunLabels
  <2> QED
    BY <1>5, <2>1, <2>3, <2>4, <2>5
<1> QED
  BY <1>0, <1>4, <1>7

(* A crash and an expiry lose charged records, and add none. *)
LEMMA QuotaEnvironment ==
    ASSUME TypeInv, QuotaInv, Environment
    PROVE  QuotaInv'
<1> USE DEF redisVars, indexVars, procVars, taskVars
<1>0. jobs \in [JobIds -> Records \cup {NoRecord}] /\ quotaUsed \in Nat
  BY DEF TypeInv, TypeOK
<1>1. UNCHANGED quotaUsed
  BY DEF Environment, Crash, ExpireRecord, Expiry, ExpireQueue, ExpireCache, ExpireLocal
<1>2. \A t \in Tasks : \/ pc'[t] = pc[t] /\ rec'[t] = rec[t] /\ job'[t] = job[t]
                       \/ pc'[t] = "idle" /\ rec'[t] = NoRecord
  BY DEF TypeInv, TypeOK, Environment, Crash, ExpireRecord, Expiry, ExpireQueue, ExpireCache,
     ExpireLocal
<1>3. \A j \in JobIds : jobs'[j] = jobs[j] \/ jobs'[j] = NoRecord
  BY <1>0 DEF Environment, Crash, ExpireRecord, Expiry, ExpireQueue, ExpireCache, ExpireLocal
<1>4. Paid' \subseteq Paid /\ Paying' \subseteq Paying
  BY <1>2, <1>3, Kinds DEF Paid, Paying, Charged, RunLabels, Tasks
<1>5. IsFiniteSet(Paid') /\ IsFiniteSet(Paying')
  BY <1>4, FinitePaid, FS_Subset
<1>6. /\ Cardinality(Paid') + Cardinality(Paying') <= quotaUsed'
      /\ Cardinality(Paid') + Cardinality(Paying') <= QuotaLimit
  BY <1>0, <1>1, <1>4, <1>5, CountKept
<1> QED
  BY <1>2, <1>6, Kinds DEF QuotaInv, EarlyLabels

(* However requests interleave over the handlers of all processes, and whatever fails,
   no more jobs are charged than the identity's daily limit: the counter is incremented
   before it is compared, and a charge is saved with one job only. *)
THEOREM QuotaHolds == Spec => []FreshJobsWithinQuota
<1>1. Init => QuotaInv
  <2> SUFFICES ASSUME Init PROVE QuotaInv
    OBVIOUS
  <2>1. Paid = {} /\ Paying = {}
    <3>1. \A t \in Tasks : pc[t] = "idle"
      BY DEF Init
    <3>2. \A j \in JobIds : jobs[j] = NoRecord
      BY DEF Init
    <3> QED
      BY <3>1, <3>2, Kinds DEF Paid, Paying, Charged, RunLabels, Tasks
  <2>2. Cardinality(Paid) = 0 /\ Cardinality(Paying) = 0
    BY <2>1, FS_EmptySet
  <2> QED
    BY <2>2, Kinds DEF Init, QuotaInv, EarlyLabels
<1>2. TypeInv /\ QuotaInv /\ [Next]_vars => QuotaInv'
  <2> SUFFICES ASSUME TypeInv, QuotaInv, [Next]_vars PROVE QuotaInv'
    OBVIOUS
  <2>1. CASE UNCHANGED vars
    BY <2>1 DEF vars, QuotaInv, Paid, Paying, Charged
  <2>2. CASE Next
    BY <2>2, StepKinds, QuotaStep, QuotaEnvironment DEF Next
  <2> QED
    BY <2>1, <2>2
<1>3. TypeInv /\ QuotaInv => FreshJobsWithinQuota
  <2> SUFFICES ASSUME TypeInv, QuotaInv PROVE FreshJobsWithinQuota
    OBVIOUS
  <2> DEFINE charged == {j \in JobIds : jobs[j] # NoRecord /\ jobs[j].charged}
  <2>1. charged \subseteq Paid /\ IsFiniteSet(Paid)
    BY FinitePaid DEF Paid, Charged
  <2>2. IsFiniteSet(charged) /\ Cardinality(charged) <= Cardinality(Paid)
    BY <2>1, FS_Subset
  <2>3. Cardinality(charged) \in Nat /\ Cardinality(Paid) \in Nat /\ Cardinality(Paying) \in Nat
    BY <2>1, <2>2, FinitePaid, FS_CardinalityType
  <2> QED
    BY <2>2, <2>3 DEF QuotaInv, FreshJobsWithinQuota
<1> QED
  BY <1>1, <1>2, <1>3, TypesHold, PTL DEF Spec
-----------------------------------------------------------------------------
(* Worker mode: a job waits until it is begun, once, and then runs until it ends.  Its
   record may expire at any time. *)
Fresh(j) == starts[j] = 0 /\ jobs[j].status \in {"queued", "absent"}
BegunAs(j, statuses) == starts[j] = 1 /\ jobs[j].status \in statuses \cup {"absent"}

(* How far the job is that a task is about to push, or runs. *)
Stage(t) ==
    /\ t \in Creators /\ pc[t] = "push" => Fresh(job[t])
    /\ pc[t] \in {"read", "claim"} => Fresh(job[t])
    /\ pc[t] \in {"advance", "compute", "window", "setCache", "saveDone"} =>
           BegunAs(job[t], {"running"})
    /\ pc[t] \in {"contSave", "contPush"} => BegunAs(job[t], {"succeeded"})
    /\ pc[t] = "saveFailed" => BegunAs(job[t], {"running", "succeeded"})
    /\ pc[t] = "contPush" => Fresh(cont[t])

WorkerInv ==
    /\ mode = "worker"
    /\ \A t \in Timers : pc[t] = "idle"
    /\ \A i \in DOMAIN queue : queue[i] <= issued /\ Fresh(queue[i])
    /\ \A t \in Tasks, j \in JobIds : Holds(t, j) => j <= issued
    /\ \A j \in JobIds : j > issued => jobs[j] = NoRecord /\ starts[j] = 0
    /\ \A j \in JobIds : starts[j] \in {0, 1}
    /\ \A t \in Tasks : rec[t] # NoRecord => rec[t].status = "queued"
    /\ \A t \in Tasks : Stage(t)
    /\ ExclusiveJob

(* When a step of t counts a job as begun. *)
Begins(t) ==
    \/ UNCHANGED starts /\ (pc[t] = "claim" => UNCHANGED jobs)
    \/ /\ t \in Runners /\ pc[t] = "claim" /\ jobs' = [jobs EXCEPT ![job[t]] = Running(t)]
       /\ starts' = [starts EXCEPT ![job[t]] = @ + 1]

(* So does every step of a task, and it gives out one identifier at most. *)
LEMMA JobBegins ==
    ASSUME TypeInv, NEW t \in Tasks, ActionOf(t)
    PROVE  Begins(t) /\ (issued' = issued \/ (issued' = issued + 1 /\ UNCHANGED starts))
<1>0. pc[t] = "claim" => t \in Runners
  BY OwnTypes DEF Kind, CreatorLabels, Tasks
<1>1. ASSUME EffectOnly(t)
      PROVE  Begins(t) /\ (issued' = issued \/ (issued' = issued + 1 /\ UNCHANGED starts))
  BY <1>0, <1>1 DEF EffectOnly, Begins
<1>2. CASE t \in Creators /\ ((\E k \in Keys : Submit(t, k)) \/ CreatorStep(t) \/ PushThrows(t))
  BY <1>2 DEF Begins, CreatorStep, Submit, PushThrows, ReadCache, AnswerFromCache, LookupActive,
     ReuseActive, ActiveHasEnded, ContinueCached, ConsumeQuota, SaveQueued, Push
<1>3. CASE t \in Workers /\ (WorkerStep(t) \/ PopReplyLost(t))
  BY <1>3 DEF Begins, WorkerStep, Invoke, Pop, PopEmpty, PopReplyLost
<1>4. CASE t \in Runners /\ (RunStep(t) \/ ReportStage(t))
  BY <1>4 DEF Begins, RunStep, ReportStage, ReadQueued, SkipNotQueued, Claim, AdvanceCheckpoint,
     ComputeCheckpoint, PersistSnapshot, AnalysisFails, SetCache, SaveSucceeded, SaveContinuation,
     PushContinuation, SaveFailed
<1>5. CASE t \in Runners /\ (RunThrows(t) \/ FailureUnrecorded(t))
  BY <1>1, <1>5 DEF RunThrows, FailureUnrecorded, Begins
<1>6. CASE \E p \in Procs, i \in JobIds : t = <<p, i>> /\ Poll(p, i)
  BY <1>6 DEF Poll, Begins
<1>7. CASE CallThrows(t)
  BY <1>1, <1>7 DEF CallThrows, Begins, redisVars
<1> QED
  BY <1>2, <1>3, <1>4, <1>5, <1>6, <1>7 DEF ActionOf

(* A step of t disturbs no record but that of the job it runs, and a new one. *)
Undisturbed(j) == jobs'[j] = jobs[j] /\ starts'[j] = starts[j]

(* The records a step may change. *)
LEMMA OthersUndisturbed ==
    ASSUME TypeInv, NEW t \in Tasks, ActionOf(t), NEW j \in JobIds
    PROVE  \/ Undisturbed(j)
           \/ j = issued + 1 /\ issued' = issued + 1 /\ starts'[j] = starts[j]
           \/ t \in Runners /\ pc[t] \in RunLabels /\ j = job[t] /\ Holds(t, j)
<1>0. starts \in [JobIds -> Nat] /\ Begins(t) /\ Writes(t, j)
  BY JobBegins, JobWrites DEF TypeInv, TypeOK
<1>1. CASE t \in Runners /\ pc[t] \in RunLabels /\ j = job[t]
  BY <1>1 DEF Holds
<1>2. CASE ~(t \in Runners /\ pc[t] \in RunLabels /\ j = job[t])
  <2>1. starts'[j] = starts[j]
    BY <1>0, <1>2 DEF Begins, RunLabels
  <2> QED
    BY <1>0, <1>2, <2>1 DEF Writes, Undisturbed, RunLabels
<1> QED
  BY <1>1, <1>2

(* What a step of t does to the queue, and to the jobs in its hands: it may push one that
   it then lets go, take the first of the queue, or hold a new one. *)
Pushes(t) ==
    \/ UNCHANGED queue
    \/ queue # <<>> /\ queue' = Tail(queue)
    \/ \E j \in JobIds : /\ Holds(t, j) /\ ~Holds(t, j)' /\ Fresh(j) /\ Undisturbed(j)
                          /\ queue' = Append(queue, j)

Takes(t) ==
    \A j \in JobIds : Holds(t, j)' =>
        \/ Holds(t, j)
        \/ j = issued + 1 /\ issued' = issued + 1 /\ UNCHANGED queue
        \/ queue # <<>> /\ j = Head(queue) /\ queue' = Tail(queue)

(* How a handler comes to hold a job, and lets it go. *)
LEMMA CreatorHolds ==
    ASSUME TypeInv, WorkerInv, NEW c \in Creators, ActionOf(c)
    PROVE  Pushes(c) /\ Takes(c)
<1> USE DEF redisVars
<1>0. /\ c \notin Runners /\ c \in Tasks /\ c \notin Workers /\ CreatorGoes(c)
      /\ Kind(c)' /\ job[c] \in JobIds \cup {NoJob}
      /\ pc[c] = "push" => job[c] \in JobIds
  BY Kinds, CreatorPath, TaskTypesKept, OwnTypes DEF TaskStep, Locals
<1>1. \A j \in JobIds : /\ Holds(c, j) <=> (pc[c] = "push" /\ job[c] = j)
                        /\ Holds(c, j)' <=> (pc'[c] = "push" /\ job'[c] = j)
  BY <1>0 DEF Holds
<1>2. pc'[c] = "push" => pc[c] = "save" /\ job'[c] = issued + 1 /\ issued' = issued + 1
  BY <1>0 DEF CreatorGoes, EarlyLabels
<1>3. UNCHANGED queue \/ (pc[c] = "push" /\ queue' = Append(queue, job[c]))
  <2>1. CASE EffectOnly(c)
    BY <2>1 DEF EffectOnly
  <2>2. CASE CallThrows(c)
    BY <2>1, <2>2 DEF CallThrows
  <2>3. ~\E p \in Procs, i \in JobIds : c = <<p, i>> /\ Poll(p, i)
    BY Kinds
  <2> QED
    BY <1>0, <2>2, <2>3 DEF ActionOf, CreatorStep, Submit, PushThrows, ReadCache, AnswerFromCache,
       LookupActive,
       ReuseActive, ActiveHasEnded, ContinueCached, ConsumeQuota, SaveQueued, Push
<1>4. Pushes(c)
  <2>1. CASE pc[c] = "push" /\ queue' = Append(queue, job[c])
    <3>1. UNCHANGED <<jobs, starts>>
      <4>1. ~Submit(c, rec[c].key) /\ \A k \in Keys : ~Submit(c, k)
        BY <2>1 DEF Submit
      <4>2. ~\E p \in Procs, i \in JobIds : c = <<p, i>> /\ Poll(p, i)
        BY Kinds
      <4> QED
        BY <1>0, <2>1, <4>1, <4>2 DEF ActionOf, CreatorStep, PushThrows, ReadCache, AnswerFromCache,
           LookupActive,
           ReuseActive, ActiveHasEnded, ContinueCached, ConsumeQuota, SaveQueued, Push, CallThrows
    <3>2. PICK j \in JobIds : j = job[c]
      BY <1>0, <2>1
    <3>3. Fresh(j) /\ Undisturbed(j)
      BY <1>0, <2>1, <3>1, <3>2 DEF WorkerInv, Stage, Undisturbed
    <3>4. Holds(c, j) /\ ~Holds(c, j)'
      BY <1>1, <1>2, <2>1, <3>2
    <3> QED
      BY <2>1, <3>2, <3>3, <3>4 DEF Pushes
  <2> QED
    BY <1>3, <2>1 DEF Pushes
<1>5. Takes(c)
  BY <1>1, <1>2, <1>3 DEF Takes
<1> QED
  BY <1>4, <1>5

(* The same for a runner. *)
LEMMA RunnerHolds ==
    ASSUME TypeInv, WorkerInv, NEW r \in Runners, ActionOf(r)
    PROVE  Pushes(r) /\ Takes(r)
<1> USE DEF redisVars
<1>0. /\ r \notin Creators /\ r \in Tasks /\ RunnerGoes(r) /\ Kind(r) /\ Locals(r) /\ Stage(r)
      /\ pc \in [Tasks -> Labels] /\ cont \in [Tasks -> JobIds \cup {NoJob}]
      /\ \A p \in Procs, i \in JobIds : ~Poll(p, i)
  BY Kinds, RunnerPath, OwnTypes DEF WorkerInv, TypeInv, TypeOK, Poll, Runners
<1>1. \A j \in JobIds :
        /\ Holds(r, j) <=> (pc[r] \in RunLabels /\ job[r] = j) \/ (pc[r] = "contPush" /\ cont[r] = j)
        /\ Holds(r, j)' <=> (pc'[r] \in RunLabels /\ job'[r] = j) \/ (pc'[r] = "contPush" /\ cont'[r] = j)
  BY <1>0 DEF Holds
<1>2. CASE PushContinuation(r)
  <2>1. pc'[r] \in {"idle", "pop"}
    BY <1>0, <1>2, EndTypes DEF PushContinuation
  <2>2. PICK i \in JobIds : /\ i = cont[r] /\ Holds(r, i) /\ queue' = Append(queue, i)
                            /\ Fresh(i) /\ Undisturbed(i)
    BY <1>0, <1>1, <1>2 DEF PushContinuation, Locals, Stage, Undisturbed
  <2>3. \A j \in JobIds : ~Holds(r, j)'
    BY <1>1, <2>1 DEF RunLabels
  <2> QED
    BY <2>2, <2>3 DEF Pushes, Takes
<1>3. CASE RunThrows(r) /\ pc[r] = "contPush"
  <2>1. PICK i \in JobIds : i = cont[r] /\ Fresh(i) /\ Undisturbed(i)
    BY <1>0, <1>3 DEF Locals, Stage, RunThrows, Undisturbed
  <2>2. /\ queue' \in {queue, Append(queue, i)}
        /\ pc'[r] = "saveFailed" /\ job'[r] = job[r]
    BY <1>0, <1>3, <2>1 DEF RunThrows, Goto
  <2>3. job[r] # i
    BY <1>0, <1>3, <2>1 DEF Stage, BegunAs, Fresh
  <2>4. Holds(r, i) /\ ~Holds(r, i)' /\ \A j \in JobIds : Holds(r, j)' => Holds(r, j)
    BY <1>1, <1>3, <2>1, <2>2, <2>3 DEF RunLabels
  <2> QED
    <3>1. UNCHANGED queue \/ queue' = Append(queue, i)
      BY <2>2
    <3> QED
      BY <2>1, <2>4, <3>1 DEF Pushes, Takes
<1>4. CASE r \in Workers /\ (Pop(r) \/ PopReplyLost(r))
  <2>1. queue # <<>> /\ queue' = Tail(queue)
    BY <1>4 DEF Pop, PopReplyLost
  <2>2. \A j \in JobIds : Holds(r, j)' => j = Head(queue)
    <3>1. CASE Pop(r)
      BY <1>0, <1>1, <3>1 DEF Pop, Goto, RunLabels, TypeInv, TypeOK
    <3>2. CASE PopReplyLost(r)
      BY <1>0, <1>1, <3>2, EndTypes DEF PopReplyLost, RunLabels
    <3> QED
      BY <1>4, <3>1, <3>2
  <2> QED
    BY <2>1, <2>2 DEF Pushes, Takes
<1>5. CASE SaveContinuation(r)
  <2>1. /\ UNCHANGED <<queue, job>> /\ issued' = issued + 1 /\ pc[r] \in RunLabels /\ cont'[r] = issued + 1
    BY <1>0, <1>5 DEF SaveContinuation, RunLabels
  <2> QED
    BY <1>1, <2>1 DEF Pushes, Takes
<1>6. CASE ~(PushContinuation(r) \/ SaveContinuation(r) \/ RunThrows(r) \/ (r \in Workers /\ (Pop(r) \/ PopReplyLost(r))))
  <2>1. UNCHANGED queue
    <3>1. EffectOnly(r) => UNCHANGED queue
      BY DEF EffectOnly
    <3> QED
      BY <1>0, <1>6, <3>1 DEF ActionOf, WorkerStep, RunStep, Invoke, PopEmpty, ReadQueued,
         SkipNotQueued,
         Claim, AdvanceCheckpoint, ComputeCheckpoint, PersistSnapshot, AnalysisFails, SetCache,
         SaveSucceeded, SaveFailed, ReportStage, FailureUnrecorded, CallThrows
  <2>2. pc'[r] \in RunLabels => pc[r] \in RunLabels /\ job'[r] = job[r] /\ (pc'[r] = "contPush" => pc[r] = "contPush" /\ cont'[r] = cont[r])
    <3>1. CASE NextJob(r) \/ Abandon(r)
      BY <1>0, <3>1, EndTypes DEF RunLabels
    <3>2. CASE ~(NextJob(r) \/ Abandon(r))
      BY <1>0, <1>6, <3>2 DEF ActionOf, WorkerStep, RunStep, Invoke, PopEmpty, ReadQueued,
         SkipNotQueued,
         Claim, AdvanceCheckpoint, ComputeCheckpoint, PersistSnapshot, AnalysisFails, SetCache,
         SaveSucceeded, SaveFailed, ReportStage, FailureUnrecorded, CallThrows, Goto, GotoStarting, RunLabels, taskVars
    <3> QED
      BY <3>1, <3>2
  <2>3. \A j \in JobIds : Holds(r, j)' => Holds(r, j)
    BY <1>1, <2>2 DEF RunLabels
  <2> QED
    BY <2>1, <2>3 DEF Pushes, Takes
<1>7. CASE RunThrows(r) /\ pc[r] # "contPush"
  <2>1. pc'[r] = "saveFailed" /\ pc[r] \in RunLabels /\ job'[r] = job[r]
    BY <1>0, <1>7 DEF RunThrows, Goto, RunLabels
  <2>2. UNCHANGED queue
    BY <1>7 DEF RunThrows, EffectOnly
  <2>3. \A j \in JobIds : Holds(r, j)' => Holds(r, j)
    BY <1>1, <2>1
  <2> QED
    BY <2>2, <2>3 DEF Pushes, Takes
<1> QED
  BY <1>2, <1>3, <1>4, <1>5, <1>6, <1>7

(* In worker mode nobody else's hands change. *)
LEMMA OthersHold ==
    ASSUME TypeInv, WorkerInv, NEW t \in Tasks, ActionOf(t), NEW u \in Tasks, u # t
    PROVE  /\ pc'[u] = pc[u] /\ job'[u] = job[u] /\ rec'[u] = rec[u] /\ cont'[u] = cont[u]
           /\ \A j \in JobIds : Holds(u, j)' <=> Holds(u, j)
<1>1. pc'[u] = pc[u] /\ job'[u] = job[u] /\ rec'[u] = rec[u] /\ cont'[u] = cont[u]
  BY TaskTypesKept DEF TaskStep, Others, WorkerInv
<1> QED
  BY <1>1 DEF Holds

(* Timers only run in inline mode. *)
LEMMA TimersRest == ASSUME TypeInv, WorkerInv, NEW t \in Timers PROVE ~ActionOf(t)
BY Kinds DEF WorkerInv, ActionOf, RunStep, ReportStage, RunThrows, FailureUnrecorded, CallThrows, Poll,
   ReadQueued,
   SkipNotQueued, Claim, AdvanceCheckpoint, ComputeCheckpoint, PersistSnapshot, AnalysisFails, SetCache,
   SaveSucceeded, SaveContinuation, PushContinuation, SaveFailed

(* The status of the job that a runner saves. *)
LEMMA SavedStatus ==
    ASSUME TypeInv, WorkerInv, NEW t \in Tasks, rec[t] \in Records
    PROVE  /\ rec[t].status = "queued" /\ Running(t).status = "running"
           /\ Answer(t).status = "succeeded" /\ Continuation(t).status = "queued"
           /\ Succeeded(t).status = "succeeded" /\ Failed(t).status = "failed"
<1>1. rec[t].status = "queued"
  BY RecordTypes, OwnTypes DEF WorkerInv
<1> QED
  BY <1>1, RecordTypes, OwnTypes DEF SavedAs

(* A handler that is about to push a job has saved it, and nobody has begun it. *)
LEMMA CreatorStage ==
    ASSUME TypeInv, WorkerInv, NEW c \in Creators, ActionOf(c)
    PROVE  Stage(c)'
<1>0. /\ c \in Tasks /\ CreatorGoes(c) /\ Kind(c)' /\ Kind(c) /\ Locals(c)' /\ Locals(c)
      /\ issued \in Nat /\ starts \in [JobIds -> Nat]
  <2>1. issued \in Nat /\ starts \in [JobIds -> Nat]
    BY DEF TypeInv, TypeOK
  <2> QED
    BY <2>1, Kinds, CreatorPath, TaskTypesKept, OwnTypes DEF TaskStep
<1>1. ASSUME pc'[c] = "push" PROVE Fresh(job[c])'
  <2>1. pc[c] = "save" /\ job'[c] = issued + 1 /\ issued' = issued + 1 /\ job'[c] \in JobIds
    BY <1>0, <1>1 DEF CreatorGoes, EarlyLabels, Locals
  <2>2. PICK j \in JobIds : j = issued + 1
    BY <2>1
  <2>3. jobs[j] = NoRecord /\ starts[j] = 0
    BY <1>0, <2>2 DEF WorkerInv
  <2>4. starts'[j] = 0
    BY <1>0, <2>1, <2>3, JobBegins DEF Begins
  <2>5. rec[c] \in Records
    BY <1>0, <2>1 DEF Locals
  <2>6. jobs'[j] = jobs[j] \/ jobs'[j] = rec[c]
    BY <1>0, <2>1, <2>2, JobWrites DEF Writes
  <2>7. jobs'[j].status \in {"queued", "absent"}
    BY <1>0, <2>3, <2>5, <2>6, SavedStatus DEF NoRecord
  <2> QED
    BY <2>1, <2>2, <2>4, <2>7 DEF Fresh
<1>2. pc'[c] \in CreatorLabels \cup {"idle"}
  BY <1>0 DEF Kind
<1> QED
  BY <1>1, <1>2 DEF Stage, CreatorLabels

(* The job of a runner is as far as the runner. *)
LEMMA RunnerStage ==
    ASSUME TypeInv, WorkerInv, NEW r \in Runners, ActionOf(r)
    PROVE  Stage(r)'
<1> USE DEF redisVars
<1>0. /\ r \in Tasks /\ r \notin Creators /\ RunnerGoes(r) /\ Kind(r) /\ Locals(r) /\ Stage(r)
      /\ pc \in [Tasks -> Labels] /\ job \in [Tasks -> JobIds \cup {NoJob}] /\ cont \in [Tasks -> JobIds \cup {NoJob}]
      /\ starts \in [JobIds -> Nat] /\ jobs \in [JobIds -> Records \cup {NoRecord}]
      /\ issued \in Nat
  <2>1. /\ pc \in [Tasks -> Labels] /\ job \in [Tasks -> JobIds \cup {NoJob}] /\ cont \in [Tasks -> JobIds \cup {NoJob}]
        /\ starts \in [JobIds -> Nat] /\ jobs \in [JobIds -> Records \cup {NoRecord}]
        /\ issued \in Nat
    BY DEF TypeInv, TypeOK
  <2>2. r \in Tasks /\ r \notin Creators /\ Stage(r)
    BY Kinds DEF WorkerInv, Runners
  <2> QED
    BY <2>1, <2>2, RunnerPath, OwnTypes
<1>1. CASE pc'[r] \in {"idle", "pop"}
  BY <1>0, <1>1 DEF Stage
<1>2. CASE pc[r] = "pop" /\ pc'[r] = "read"
  <2>1. queue # <<>> /\ job'[r] = Head(queue) /\ queue \in Seq(JobIds)
    BY <1>0, <1>2 DEF RunnerGoes, RunLabels, TypeInv, TypeOK
  <2>2. PICK j \in JobIds : j = Head(queue) /\ 1 \in DOMAIN queue /\ j = queue[1]
    BY <2>1
  <2>3. j <= issued /\ Fresh(j)
    BY <2>2 DEF WorkerInv
  <2>4. Undisturbed(j)
    BY <1>0, <1>2, <2>3, OthersUndisturbed DEF RunLabels
  <2>5. Fresh(j)'
    BY <2>3, <2>4 DEF Fresh, Undisturbed
  <2>6. Fresh(job[r])'
    BY <2>1, <2>2, <2>5 DEF Fresh
  <2> QED
    BY <1>0, <1>2, <2>6 DEF Stage
<1>3. CASE pc[r] \in RunLabels /\ pc'[r] \in RunLabels \ {"read"}
  <2>1. PICK j \in JobIds : j = job[r] /\ j = job'[r] /\ j <= issued
    <3>1. job[r] \in JobIds /\ job'[r] = job[r] /\ Holds(r, job[r])
      BY <1>0, <1>3 DEF RunnerGoes, Locals, RunLabels, Holds
    <3> QED
      BY <1>0, <3>1 DEF WorkerInv
  <2>2. rec[r] \in Records \/ pc[r] = "read"
    BY <1>0, <1>3 DEF Locals, RunLabels
  <2>3. ASSUME UNCHANGED <<jobs, starts>>
        PROVE  Undisturbed(j)
    BY <2>3 DEF Undisturbed
  <2>4. CASE ReadQueued(r)
    <3>1. pc'[r] = "claim" /\ pc[r] = "read" /\ Undisturbed(j)
      BY <1>0, <2>3, <2>4 DEF ReadQueued, GotoStarting
    <3> QED
      BY <1>0, <2>1, <3>1 DEF Stage, Fresh, Undisturbed
  <2>5. CASE Claim(r)
    <3>1. /\ pc'[r] \in {"advance", "compute"} /\ pc[r] = "claim"
          /\ jobs'[j] = Running(r) /\ starts'[j] = starts[j] + 1
      BY <1>0, <2>1, <2>5 DEF Claim, Goto
    <3>2. Running(r).status = "running" /\ starts[j] = 0
      BY <1>0, <2>1, <2>2, <3>1, SavedStatus DEF Stage, Fresh
    <3> QED
      BY <1>0, <2>1, <3>1, <3>2 DEF Stage, BegunAs
  <2>6. CASE AdvanceCheckpoint(r) \/ ComputeCheckpoint(r) \/ PersistSnapshot(r) \/ AnalysisFails(r) \/ SetCache(r)
    <3>1. /\ pc[r] \in {"advance", "compute", "window", "setCache"} /\ Undisturbed(j)
          /\ pc'[r] \in {"compute", "window", "setCache", "saveDone", "saveFailed"}
      BY <1>0, <2>3, <2>6 DEF AdvanceCheckpoint, ComputeCheckpoint, PersistSnapshot, AnalysisFails,
         SetCache, Goto
    <3> QED
      BY <1>0, <2>1, <3>1 DEF Stage, BegunAs, Undisturbed
  <2>7. CASE ReportStage(r)
    <3>1. /\ pc'[r] = pc[r] /\ pc[r] \in {"compute", "window"} /\ starts'[j] = starts[j]
          /\ jobs'[j] = Running(r)
      BY <1>0, <2>1, <2>7 DEF ReportStage, taskVars
    <3>2. Running(r).status = "running"
      BY <1>0, <2>2, <3>1, SavedStatus
    <3> QED
      BY <1>0, <2>1, <3>1, <3>2 DEF Stage, BegunAs
  <2>8. CASE SaveSucceeded(r)
    <3>1. /\ pc'[r] = "contSave" /\ pc[r] = "saveDone" /\ starts'[j] = starts[j] /\ jobs'[j] = Succeeded(r)
      BY <1>0, <1>3, <2>1, <2>8, EndTypes DEF SaveSucceeded, Goto, RunLabels
    <3>2. Succeeded(r).status = "succeeded"
      BY <1>0, <2>2, <3>1, SavedStatus
    <3> QED
      BY <1>0, <2>1, <3>1, <3>2 DEF Stage, BegunAs
  <2>9. CASE SaveContinuation(r)
    <3>1. PICK i \in JobIds : i = issued + 1
      BY <2>9, NextJobId DEF SaveContinuation
    <3>2. /\ pc'[r] = "contPush" /\ pc[r] = "contSave" /\ starts' = starts /\ cont'[r] = i
          /\ jobs'[i] = Continuation(r) /\ jobs'[j] = jobs[j]
      BY <1>0, <2>1, <2>9, <3>1 DEF SaveContinuation, Goto
    <3>3. Continuation(r).status = "queued" /\ starts[i] = 0
      BY <1>0, <2>2, <3>1, <3>2, SavedStatus DEF WorkerInv
    <3>4. Fresh(i)' /\ BegunAs(j, {"succeeded"})'
      BY <1>0, <2>1, <3>2, <3>3 DEF Stage, BegunAs, Fresh
    <3> QED
      BY <1>0, <2>1, <3>2, <3>4 DEF Stage, BegunAs, Fresh
  <2>10. CASE RunThrows(r)
    <3>1. pc'[r] = "saveFailed" /\ pc[r] \in {"setCache", "saveDone", "contSave", "contPush"}
      BY <1>0, <2>10 DEF RunThrows, Goto
    <3>2. Undisturbed(j) \/ (pc[r] = "saveDone" /\ jobs'[j] = Succeeded(r) /\ starts'[j] = starts[j])
      BY <1>0, <2>1, <2>10 DEF RunThrows, EffectOnly, Undisturbed
    <3>3. Succeeded(r).status = "succeeded"
      BY <1>0, <2>2, <3>1, SavedStatus
    <3> QED
      BY <1>0, <2>1, <3>1, <3>2, <3>3 DEF Stage, BegunAs, Undisturbed
  <2>11. CASE NextJob(r) \/ Abandon(r)
    BY <1>0, <1>3, <2>11, EndTypes DEF RunLabels
  <2>12. ~(WorkerStep(r) \/ PopReplyLost(r)) /\ ~\E p \in Procs, i \in JobIds : r = <<p, i>> /\ Poll(p, i)
    BY <1>3 DEF WorkerStep, Invoke, Pop, PopEmpty, PopReplyLost, Poll, WorkerInv, RunLabels
  <2> QED
    BY <1>0, <2>4, <2>5, <2>6, <2>7, <2>8, <2>9, <2>10, <2>11, <2>12 DEF ActionOf, RunStep,
       SkipNotQueued,
       PushContinuation, SaveFailed, FailureUnrecorded, CallThrows
<1> QED
  BY <1>0, <1>1, <1>2, <1>3 DEF RunnerGoes, WorkerInv

(* The queue stays free of repeated, held and begun jobs, and hands stay exclusive. *)
LEMMA QueueKept ==
    ASSUME TypeInv, WorkerInv, NEW t \in Tasks, ActionOf(t), Pushes(t), Takes(t), TypeInv'
    PROVE  /\ (\A i \in DOMAIN queue : queue[i] <= issued /\ Fresh(queue[i]))'
           /\ ExclusiveJob'
<1>0. /\ queue \in Seq(JobIds) /\ issued \in Nat /\ issued' \in Nat /\ issued' >= issued
      /\ \A i \in DOMAIN queue : queue[i] \in JobIds /\ queue[i] <= issued /\ Fresh(queue[i])
      /\ \A i, k \in DOMAIN queue : queue[i] = queue[k] => i = k
      /\ \A u \in Tasks, i \in DOMAIN queue : ~Holds(u, queue[i])
  <2>1. queue \in Seq(JobIds) /\ issued \in Nat
    BY DEF TypeInv, TypeOK
  <2> QED
    BY <2>1, JobBegins DEF WorkerInv, ExclusiveJob
<1>1. \A u, v \in Tasks, j \in JobIds : Holds(u, j) /\ Holds(v, j) => u = v
  BY DEF WorkerInv, ExclusiveJob
<1>2. \A u \in Tasks, j \in JobIds : Holds(u, j) => j <= issued
  BY DEF WorkerInv
<1>3. \A u \in Tasks, j \in JobIds : u # t => (Holds(u, j)' <=> Holds(u, j))
  BY OthersHold
<1>4. \A u, v \in Tasks, j \in JobIds : Holds(u, j)' /\ Holds(v, j)' => u = v
  <2>1. ASSUME NEW j \in JobIds, Holds(t, j)', NEW u \in Tasks, Holds(u, j)', u # t
        PROVE  FALSE
    <3>1. Holds(u, j) /\ j <= issued
      BY <1>2, <1>3, <2>1
    <3>2. CASE queue # <<>> /\ j = Head(queue)
      <4>1. 1 \in DOMAIN queue /\ j = queue[1]
        BY <1>0, <3>2
      <4> QED
        BY <1>0, <3>1, <4>1
    <3> QED
      BY <1>0, <1>1, <2>1, <3>1, <3>2 DEF Takes
  <2> QED
    BY <1>1, <1>3, <2>1
<1>5. ASSUME NEW j \in JobIds, j <= issued, Fresh(j), ~Holds(t, j)
      PROVE  Fresh(j)'
  <2>1. Undisturbed(j)
    BY <1>0, <1>5, OthersUndisturbed
  <2> QED
    BY <1>5, <2>1 DEF Fresh, Undisturbed
<1>6. ASSUME \A i \in DOMAIN queue' : queue'[i] <= issued,
             \A i \in DOMAIN queue', j \in JobIds : j = queue'[i] => Fresh(j)',
             \A i, k \in DOMAIN queue' : queue'[i] = queue'[k] => i = k,
             \A u \in Tasks, i \in DOMAIN queue', j \in JobIds : j = queue'[i] => ~Holds(u, j)'
      PROVE  /\ (\A i \in DOMAIN queue : queue[i] <= issued /\ Fresh(queue[i]))'
             /\ ExclusiveJob'
  <2>1. queue' \in Seq(JobIds)
    BY DEF TypeInv, TypeOK
  <2>2. \A i \in DOMAIN queue' : queue'[i] \in JobIds
    BY <2>1
  <2>3. \A i \in DOMAIN queue' : queue'[i] <= issued' /\ starts'[queue'[i]] = 0 /\ jobs'[queue'[i]].status \in {"queued", "absent"}
    <3>1. ASSUME NEW i \in DOMAIN queue'
          PROVE  queue'[i] <= issued' /\ starts'[queue'[i]] = 0 /\ jobs'[queue'[i]].status \in {"queued", "absent"}
      <4>1. PICK j \in JobIds : j = queue'[i]
        BY <2>2
      <4>2. Fresh(j)'
        BY <1>6, <4>1
      <4>3. j \in Nat /\ j <= issued
        BY <1>6, <4>1 DEF JobIds
      <4> QED
        BY <1>0, <4>1, <4>2, <4>3 DEF Fresh
    <3> QED
      BY <3>1
  <2>4. (\A t_1 \in Tasks, i \in DOMAIN queue : ~Holds(t_1, queue[i]))'
    BY <1>6, <2>2 DEF Holds
  <2> QED
    BY <1>4, <1>6, <2>3, <2>4 DEF Fresh, ExclusiveJob
<1>7. CASE queue # <<>> /\ queue' = Tail(queue)
  <2>1. \A i \in DOMAIN queue' : /\ i + 1 \in DOMAIN queue /\ queue'[i] = queue[i + 1]
                                 /\ i \in Nat /\ i # 0 /\ 1 \in DOMAIN queue /\ Head(queue) = queue[1]
    BY <1>0, <1>7
  <2>2. ASSUME NEW i \in DOMAIN queue', NEW j \in JobIds, j = queue'[i] PROVE Fresh(j)'
    BY <1>0, <1>5, <2>1, <2>2
  <2>3. ASSUME NEW i \in DOMAIN queue', NEW k \in DOMAIN queue', queue'[i] = queue'[k] PROVE i = k
    <3>1. i + 1 = k + 1 /\ i \in Nat /\ k \in Nat
      BY <1>0, <2>1, <2>3
    <3> QED
      BY <3>1
  <2>4. ASSUME NEW u \in Tasks, NEW i \in DOMAIN queue', NEW j \in JobIds, j = queue'[i], Holds(u, j)'
        PROVE  FALSE
    <3>1. /\ i + 1 \in DOMAIN queue /\ j = queue[i + 1] /\ j <= issued /\ ~Holds(u, j) /\ u = t
      BY <1>0, <1>3, <2>1, <2>4
    <3>2. j = Head(queue)
      BY <1>0, <2>4, <3>1 DEF Takes
    <3>3. queue[1] = queue[i + 1]
      BY <2>1, <3>1, <3>2
    <3> QED
      BY <1>0, <2>1, <3>1, <3>3
  <2>5. \A i \in DOMAIN queue' : queue'[i] <= issued
    BY <1>0, <2>1
  <2> QED
    BY <1>6, <2>2, <2>3, <2>4, <2>5
<1>8. CASE UNCHANGED queue /\ ~(queue # <<>> /\ queue' = Tail(queue))
  <2>1. ASSUME NEW i \in DOMAIN queue', NEW j \in JobIds, j = queue'[i] PROVE Fresh(j)'
    BY <1>0, <1>5, <1>8, <2>1
  <2>2. ASSUME NEW u \in Tasks, NEW i \in DOMAIN queue', NEW j \in JobIds, j = queue'[i], Holds(u, j)'
        PROVE  FALSE
    <3>1. j = queue[i] /\ j <= issued /\ ~Holds(u, j) /\ u = t
      BY <1>0, <1>3, <1>8, <2>2
    <3> QED
      BY <1>0, <1>8, <2>2, <3>1 DEF Takes
  <2> QED
    BY <1>0, <1>6, <1>8, <2>1, <2>2
<1>9. ASSUME NEW h \in JobIds, Holds(t, h), ~Holds(t, h)', Fresh(h), Undisturbed(h),
             queue' = Append(queue, h), ~(queue # <<>> /\ queue' = Tail(queue))
      PROVE  /\ (\A i \in DOMAIN queue : queue[i] <= issued /\ Fresh(queue[i]))'
             /\ ExclusiveJob'
  <2>1. \A i \in DOMAIN queue' : \/ i \in DOMAIN queue /\ queue'[i] = queue[i]
                                 \/ i = Len(queue) + 1 /\ queue'[i] = h
    BY <1>0, <1>9
  <2>2. h <= issued /\ Fresh(h)'
    BY <1>2, <1>9 DEF Fresh, Undisturbed
  <2>3. \A i \in DOMAIN queue : queue[i] # h
    BY <1>0, <1>9
  <2>4. ASSUME NEW i \in DOMAIN queue', NEW j \in JobIds, j = queue'[i] PROVE Fresh(j)'
    BY <1>0, <1>5, <2>1, <2>2, <2>4
  <2>5. \A i, k \in DOMAIN queue' : queue'[i] = queue'[k] => i = k
    BY <1>0, <2>1, <2>3
  <2>6. ASSUME NEW u \in Tasks, NEW i \in DOMAIN queue', NEW j \in JobIds, j = queue'[i], Holds(u, j)'
        PROVE  FALSE
    <3>1. CASE j = h
      BY <1>1, <1>3, <1>9, <2>6, <3>1
    <3>2. CASE j # h
      <4>1. j = queue[i] /\ i \in DOMAIN queue /\ j <= issued /\ ~Holds(u, j) /\ u = t
        BY <1>0, <1>3, <2>1, <2>6, <3>2
      <4> QED
        BY <1>0, <1>9, <2>6, <4>1 DEF Takes
    <3> QED
      BY <3>1, <3>2
  <2>7. \A i \in DOMAIN queue' : queue'[i] <= issued
    BY <1>0, <2>1, <2>2
  <2> QED
    BY <1>6, <2>4, <2>5, <2>6, <2>7
<1> QED
  BY <1>7, <1>8, <1>9 DEF Pushes

(* A task's step keeps the invariant of worker mode. *)
LEMMA WorkerKept ==
    ASSUME TypeInv, TypeInv', WorkerInv, UNCHANGED mode, NEW t \in Tasks, ActionOf(t)
    PROVE  WorkerInv'
<1>0. /\ issued \in Nat /\ issued' \in Nat /\ issued' >= issued /\ starts \in [JobIds -> Nat]
      /\ JobIds \subseteq Nat
  <2>1. issued \in Nat /\ starts \in [JobIds -> Nat]
    BY DEF TypeInv, TypeOK
  <2> QED
    BY <2>1, JobBegins DEF JobIds
<1>a. /\ (t \in Creators \/ t \in Runners) /\ Kind(t) /\ Locals(t) /\ Stage(t) /\ Begins(t)
      /\ \A u \in Tasks, j \in JobIds : Holds(u, j) => j <= issued
      /\ \A u, v \in Tasks, j \in JobIds : Holds(u, j) /\ Holds(v, j) => u = v
  BY OwnTypes, JobBegins DEF Tasks, WorkerInv, ExclusiveJob
<1>1. Pushes(t) /\ Takes(t) /\ Stage(t)'
  BY <1>a, CreatorHolds, RunnerHolds, CreatorStage, RunnerStage
<1>2. \A u \in Timers : pc'[u] = "idle"
  BY TimersRest, OthersHold, Kinds DEF WorkerInv
<1>3. ASSUME NEW u \in Tasks, NEW j \in JobIds, Holds(u, j)' PROVE j <= issued'
  <2>1. CASE u # t
    BY <1>0, <1>a, <1>3, <2>1, OthersHold
  <2>2. CASE u = t /\ queue # <<>> /\ j = Head(queue)
    <3>1. queue \in Seq(JobIds)
      BY DEF TypeInv, TypeOK
    <3>2. 1 \in DOMAIN queue /\ j = queue[1]
      BY <2>2, <3>1
    <3> QED
      BY <1>0, <3>2 DEF WorkerInv
  <2> QED
    BY <1>0, <1>1, <1>a, <1>3, <2>1, <2>2 DEF Takes
<1>4. ASSUME NEW j \in JobIds, j > issued' PROVE jobs'[j] = NoRecord /\ starts'[j] = 0
  <2>1. j > issued /\ ~Holds(t, j)
    BY <1>0, <1>a, <1>4
  <2>2. Undisturbed(j)
    BY <1>0, <1>4, <2>1, OthersUndisturbed
  <2> QED
    BY <2>1, <2>2 DEF WorkerInv, Undisturbed
<1>5. ASSUME NEW j \in JobIds PROVE starts'[j] \in {0, 1}
  <2>1. starts[j] \in {0, 1}
    BY DEF WorkerInv
  <2>2. CASE UNCHANGED starts
    BY <2>1, <2>2
  <2>3. CASE pc[t] = "claim" /\ starts' = [starts EXCEPT ![job[t]] = @ + 1]
    <3>1. job[t] \in JobIds /\ starts[job[t]] = 0
      BY <1>a, <2>3 DEF Locals, Stage, Fresh, RunLabels
    <3> QED
      BY <1>0, <2>1, <2>3, <3>1
  <2> QED
    BY <1>a, <2>2, <2>3 DEF Begins
<1>6. ASSUME NEW u \in Tasks, rec'[u] # NoRecord PROVE rec'[u].status = "queued"
  <2>1. CASE u # t
    BY <1>6, <2>1, OthersHold DEF WorkerInv
  <2>2. CASE u = t
    <3>1. Copies(t)
      BY JobCopies
    <3>2. CASE rec[t] \in Records /\ rec'[t] \in {[rec[t] EXCEPT !.charged = TRUE],
                                                  [rec[t] EXCEPT !.result = CachedResult(ProcOf(t), rec[t].key)]}
      <4>1. rec[t].status = "queued"
        BY <3>2, SavedStatus
      <4> QED
        BY <2>2, <3>2, <4>1 DEF Records
    <3>3. CASE \E k \in Keys : rec'[t] = [status |-> "queued", key |-> k, result |-> None, charged |-> FALSE]
      BY <2>2, <3>3
    <3>4. CASE rec'[t] = rec[t] \/ rec'[t] = NoRecord
      BY <1>6, <2>2, <3>4 DEF WorkerInv
    <3>5. CASE jobs[job[t]].status = "queued" /\ rec'[t] = jobs[job[t]]
      BY <2>2, <3>5
    <3> QED
      BY <2>2, <3>1, <3>2, <3>3, <3>4, <3>5 DEF Copies
  <2> QED
    BY <2>1, <2>2
<1>7. ASSUME NEW u \in Tasks PROVE Stage(u)'
  <2>1. CASE u = t
    BY <1>1, <2>1
  <2>2. CASE u # t
    <3>1. /\ pc'[u] = pc[u] /\ job'[u] = job[u] /\ cont'[u] = cont[u] /\ Stage(u) /\ Kind(u) /\ Locals(u)
      BY <2>2, OthersHold, OwnTypes DEF WorkerInv
    <3>2. ASSUME NEW j \in JobIds, Holds(u, j) PROVE Undisturbed(j)
      <4>1. j <= issued /\ ~Holds(t, j)
        BY <1>a, <2>2, <3>2
      <4> QED
        BY <1>0, <4>1, OthersUndisturbed
    <3>3. /\ pc[u] \in RunLabels \cup {"push"} => job[u] \in JobIds /\ Holds(u, job[u])
          /\ pc[u] = "contPush" => cont[u] \in JobIds /\ Holds(u, cont[u])
      BY <3>1 DEF Kind, Locals, Holds, Tasks, Runners, CreatorLabels, RunLabels
    <3>4. /\ pc[u] \in RunLabels \cup {"push"} => Undisturbed(job[u])
          /\ pc[u] = "contPush" => Undisturbed(cont[u])
      BY <3>2, <3>3
    <3> QED
      BY <3>1, <3>4 DEF Stage, Fresh, BegunAs, Undisturbed, RunLabels
  <2> QED
    BY <2>1, <2>2
<1>8. /\ (\A i \in DOMAIN queue : queue[i] <= issued /\ Fresh(queue[i]))'
      /\ ExclusiveJob'
  BY <1>1, QueueKept
<1>9. mode' = "worker"
  BY DEF WorkerInv
<1> QED
  BY <1>2, <1>3, <1>4, <1>5, <1>6, <1>7, <1>8, <1>9 DEF WorkerInv

(* What a crash or an expiry changes. *)
LEMMA EnvironmentMoves ==
    ASSUME TypeInv, Environment
    PROVE  /\ UNCHANGED <<starts, issued>>
           /\ queue' = queue \/ queue' = <<>>
           /\ \A t \in Tasks : \/ pc'[t] = pc[t] /\ job'[t] = job[t] /\ rec'[t] = rec[t] /\ cont'[t] = cont[t]
                               \/ pc'[t] = "idle" /\ rec'[t] = NoRecord
           /\ \/ UNCHANGED jobs
              \/ \E j \in JobIds : jobs[j] # NoRecord /\ jobs' = [jobs EXCEPT ![j] = NoRecord]
<1> USE DEF redisVars, taskVars
<1>1. ASSUME NEW p \in Procs, Crash(p)
      PROVE  /\ UNCHANGED <<starts, issued, jobs, queue>>
             /\ \A t \in Tasks : \/ pc'[t] = pc[t] /\ job'[t] = job[t] /\ rec'[t] = rec[t] /\ cont'[t] = cont[t]
                                 \/ pc'[t] = "idle" /\ rec'[t] = NoRecord
  BY <1>1 DEF Crash
<1>2. ASSUME NEW j \in JobIds, ExpireRecord(j)
      PROVE  /\ UNCHANGED <<starts, issued, queue, pc, job, rec, cont>>
             /\ jobs[j] # NoRecord /\ jobs' = [jobs EXCEPT ![j] = NoRecord]
  BY <1>2 DEF ExpireRecord
<1>3. ASSUME Expiry
      PROVE  UNCHANGED <<starts, issued, jobs, pc, job, rec, cont>> /\ (queue' = queue \/ queue' = <<>>)
  BY <1>3 DEF Expiry, ExpireQueue, ExpireCache, ExpireLocal
<1> QED
  BY <1>1, <1>2, <1>3 DEF Environment

(* So do a crash and an expiry. *)
LEMMA WorkerEnvironment ==
    ASSUME TypeInv, WorkerInv, UNCHANGED mode, Environment
    PROVE  WorkerInv'
<1>0. /\ jobs \in [JobIds -> Records \cup {NoRecord}] /\ queue \in Seq(JobIds) /\ NoRecord.status = "absent"
      /\ UNCHANGED <<starts, issued>> /\ (queue' = queue \/ queue' = <<>>)
      /\ \A t \in Tasks : \/ pc'[t] = pc[t] /\ job'[t] = job[t] /\ rec'[t] = rec[t] /\ cont'[t] = cont[t]
                          \/ pc'[t] = "idle" /\ rec'[t] = NoRecord
  BY EnvironmentMoves DEF TypeInv, TypeOK, NoRecord
<1>1. \A j \in JobIds : jobs'[j] = jobs[j] \/ jobs'[j] = NoRecord
  BY <1>0, EnvironmentMoves
<1>2. \A t \in Tasks, j \in JobIds : Holds(t, j)' => Holds(t, j)
  BY <1>0 DEF Holds, RunLabels
<1>3. ASSUME NEW j \in JobIds, Fresh(j) PROVE Fresh(j)'
  BY <1>0, <1>1, <1>3 DEF Fresh
<1>4. ASSUME NEW t \in Tasks PROVE Stage(t)'
  <2>1. CASE pc'[t] = "idle"
    BY <2>1 DEF Stage
  <2>2. CASE pc'[t] = pc[t] /\ job'[t] = job[t] /\ cont'[t] = cont[t]
    <3>1. /\ pc[t] \in RunLabels \cup {"push"} => job[t] \in JobIds
          /\ pc[t] = "contPush" => cont[t] \in JobIds
      BY OwnTypes DEF Locals
    <3>2. /\ pc[t] \in RunLabels \cup {"push"} => jobs'[job[t]] = jobs[job[t]] \/ jobs'[job[t]] = NoRecord
          /\ pc[t] = "contPush" => jobs'[cont[t]] = jobs[cont[t]] \/ jobs'[cont[t]] = NoRecord
      BY <1>1, <3>1
    <3> QED
      BY <1>0, <2>2, <3>2 DEF WorkerInv, Stage, Fresh, BegunAs, RunLabels
  <2> QED
    BY <1>0, <2>1, <2>2
<1>5. /\ (\A i \in DOMAIN queue : queue[i] <= issued /\ Fresh(queue[i]))'
      /\ ExclusiveJob'
  <2>1. \A i \in DOMAIN queue' : queue'[i] = queue[i] /\ i \in DOMAIN queue /\ queue[i] \in JobIds
    BY <1>0
  <2>2. ASSUME NEW i \in DOMAIN queue'
        PROVE  queue'[i] <= issued' /\ starts'[queue'[i]] = 0 /\ jobs'[queue'[i]].status \in {"queued", "absent"}
    BY <1>0, <1>3, <2>1 DEF WorkerInv, Fresh
  <2>3. \A i, k \in DOMAIN queue' : queue'[i] = queue'[k] => i = k
    BY <2>1 DEF WorkerInv, ExclusiveJob
  <2>4. ASSUME NEW t \in Tasks, NEW i \in DOMAIN queue', NEW j \in JobIds, j = queue'[i] PROVE ~Holds(t, j)'
    BY <1>2, <2>1, <2>4 DEF WorkerInv, ExclusiveJob
  <2>5. (\A t \in Tasks, i \in DOMAIN queue : ~Holds(t, queue[i]))'
    BY <2>1, <2>4 DEF Holds
  <2>6. \A t, u \in Tasks, j \in JobIds : Holds(t, j)' /\ Holds(u, j)' => t = u
    BY <1>2 DEF WorkerInv, ExclusiveJob
  <2> QED
    BY <2>2, <2>3, <2>5, <2>6 DEF Fresh, ExclusiveJob
<1>6. \A t \in Tasks : rec'[t] # NoRecord => rec'[t].status = "queued"
  BY <1>0 DEF WorkerInv
<1>7. \A t \in Timers : pc'[t] = "idle"
  BY <1>0, Kinds DEF WorkerInv
<1>8. \A j \in JobIds : (j > issued' => jobs'[j] = NoRecord /\ starts'[j] = 0) /\ starts'[j] \in {0, 1}
  BY <1>0, <1>1 DEF WorkerInv
<1>9. \A t \in Tasks, j \in JobIds : Holds(t, j)' => j <= issued'
  BY <1>0, <1>2 DEF WorkerInv
<1> QED
  BY <1>4, <1>5, <1>6, <1>7, <1>8, <1>9 DEF WorkerInv

(* It holds at first. *)
LEMMA WorkerInit == Init /\ mode = "worker" => WorkerInv
<1> SUFFICES ASSUME Init, mode = "worker" PROVE WorkerInv
  OBVIOUS
<1>1. /\ \A t \in Tasks : pc[t] = "idle" /\ rec[t] = NoRecord
      /\ \A j \in JobIds : jobs[j] = NoRecord /\ starts[j] = 0
      /\ queue = <<>>
  BY DEF Init
<1>2. \A t \in Tasks, j \in JobIds : ~Holds(t, j)
  BY <1>1 DEF Holds, RunLabels
<1>3. \A t \in Tasks : Stage(t)
  BY <1>1 DEF Stage
<1> QED
  BY <1>1, <1>2, <1>3, Kinds DEF WorkerInv, ExclusiveJob

(* And every step keeps it. *)
LEMMA WorkerKeeps == TypeInv /\ WorkerInv /\ [Next]_vars => WorkerInv'
<1> SUFFICES ASSUME TypeInv, WorkerInv, [Next]_vars PROVE WorkerInv'
  OBVIOUS
<1>1. CASE UNCHANGED vars
  BY <1>1 DEF vars, WorkerInv, ExclusiveJob, Holds, Stage, Fresh, BegunAs
<1>2. CASE Next
  <2>1. TypeInv' /\ UNCHANGED mode
    BY <1>2, StepTypes DEF Next
  <2> QED
    BY <1>2, <2>1, StepKinds, WorkerKept, WorkerEnvironment DEF Next
<1> QED
  BY <1>1, <1>2

(* So it always holds. *)
LEMMA WorkerHolds == Spec /\ mode = "worker" => []WorkerInv
BY WorkerInit, WorkerKeeps, TypesHold, PTL DEF Spec

(* In worker mode, whatever fails, an identifier is in at most one place: once in the
   queue, or in the hands of one task.  A claim that reads the status in one call and
   writes it in another is therefore never raced. *)
THEOREM JobsAreExclusive == Spec /\ mode = "worker" => []ExclusiveJob
<1>1. WorkerInv => ExclusiveJob
  BY DEF WorkerInv
<1> QED
  BY <1>1, WorkerHolds, PTL

(* So no analysis is begun twice in worker mode. *)
THEOREM JobsBeginOnce == Spec /\ mode = "worker" => []BegunOnce
<1>1. WorkerInv => BegunOnce
  BY DEF WorkerInv, BegunOnce
<1> QED
  BY <1>1, WorkerHolds, PTL
-----------------------------------------------------------------------------
(* Inline mode: every process may have a timer for a job, so what is begun once depends on
   there being one process, whose runningJobIds has the job once, and no worker invocation. *)
OneProcess == \A p, q \in Procs : p = q
WorkersRest == \A w \in Workers : pc[w] = "idle"

(* A job that waits has not been begun, and neither has one that a timer is about to begin. *)
InlineInv ==
    /\ mode = "inline"
    /\ \A j \in JobIds : j > issued => jobs[j] = NoRecord /\ starts[j] = 0
    /\ \A j \in JobIds : starts[j] \in {0, 1}
    /\ \A j \in JobIds : jobs[j].status = "queued" => starts[j] = 0
    /\ \A t \in Timers : pc[t] \in RunLabels \ {"read"} => job[t] <= issued
    /\ \A t \in Timers : pc[t] = "claim" => starts[job[t]] = 0

(* A timer that goes on after its first read, or is about to begin its job, has just found
   it waiting. *)
LEMMA ClaimsWaiting ==
    ASSUME TypeInv, NEW r \in Timers, ActionOf(r),
           pc'[r] = "claim" \/ (pc[r] = "read" /\ pc'[r] \in RunLabels \ {"read"})
    PROVE  /\ jobs[job[r]].status = "queued"
           /\ UNCHANGED <<jobs, starts, issued, job>>
<1> USE DEF redisVars, taskVars
<1>0. /\ r \in Tasks /\ r \in Runners /\ r \notin Workers /\ r \notin Creators
      /\ pc \in [Tasks -> Labels] /\ job \in [Tasks -> JobIds \cup {NoJob}]
  BY Kinds DEF TypeInv, TypeOK
<1>1. ~(SkipNotQueued(r) \/ PushContinuation(r) \/ SaveFailed(r) \/ FailureUnrecorded(r) \/ CallThrows(r))
  <2>1. ASSUME NextJob(r) \/ Abandon(r) PROVE FALSE
    BY <1>0, <2>1 DEF NextJob, Abandon, Goto, RunLabels
  <2> QED
    BY <2>1 DEF SkipNotQueued, PushContinuation, SaveFailed, FailureUnrecorded, CallThrows
<1>2. ~(Claim(r) \/ AdvanceCheckpoint(r) \/ ComputeCheckpoint(r) \/ PersistSnapshot(r)
           \/ AnalysisFails(r) \/ SetCache(r) \/ SaveContinuation(r) \/ RunThrows(r))
  BY <1>0 DEF Claim, AdvanceCheckpoint, ComputeCheckpoint, PersistSnapshot, AnalysisFails, SetCache,
     SaveContinuation, RunThrows, Goto
<1>3. ~ReportStage(r)
  BY <1>0 DEF ReportStage
<1>4. ~SaveSucceeded(r)
  BY <1>0 DEF SaveSucceeded, NextJob, Goto
<1>5. ~\E p \in Procs, j \in JobIds : r = <<p, j>> /\ Poll(p, j)
  BY <1>0 DEF Poll, Goto
<1>6. ReadQueued(r)
  BY <1>0, <1>1, <1>2, <1>3, <1>4, <1>5 DEF ActionOf, RunStep
<1> QED
  BY <1>6 DEF ReadQueued

(* What a runner saves of a job it has begun is not that it waits. *)
LEMMA SavedAsBegun ==
    ASSUME TypeInv, NEW t \in Tasks, rec[t] \in Records
    PROVE  /\ Running(t).status = "running" /\ Succeeded(t).status = "succeeded"
           /\ Failed(t).status = "failed"
BY RecordTypes, OwnTypes DEF SavedAs

(* Every step of a task keeps it. *)
LEMMA InlineStep ==
    ASSUME OneProcess, WorkersRest, TypeInv, InlineInv, UNCHANGED mode,
           NEW t \in Tasks, ActionOf(t)
    PROVE  InlineInv'
<1>0. /\ starts \in [JobIds -> Nat] /\ jobs \in [JobIds -> Records \cup {NoRecord}]
      /\ issued \in Nat /\ NoRecord.status = "absent"
      /\ Kind(t) /\ Locals(t) /\ Begins(t)
      /\ \/ issued' = issued
         \/ issued' = issued + 1 /\ UNCHANGED starts
  BY JobBegins DEF TypeInv, TypeOK, NoRecord
<1>t. ASSUME NEW r \in Runners, pc[r] = "claim" PROVE r \in Timers
  BY <1>t DEF WorkersRest, Runners
<1>1. ASSUME NEW j \in JobIds
      PROVE  \/ starts'[j] = starts[j]
             \/ /\ t \in Timers /\ pc[t] = "claim" /\ j = job[t] /\ starts'[j] = starts[j] + 1
                /\ jobs'[j] = Running(t)
  BY <1>0, <1>t DEF Begins
<1>2. ASSUME NEW j \in JobIds PROVE starts'[j] \in {0, 1}
  BY <1>1, <1>2 DEF InlineInv
<1>3. ASSUME NEW j \in JobIds, jobs'[j].status = "queued" PROVE starts'[j] = 0
  <2>1. Writes(t, j)
    BY JobWrites
  <2>2. ASSUME t \in Runners, pc[t] \in RunLabels \ {"read"}
        PROVE  /\ Running(t).status # "queued" /\ Succeeded(t).status # "queued"
               /\ Failed(t).status # "queued"
    BY <1>0, <2>2, SavedAsBegun DEF Locals, RunLabels
  <2>3. starts'[j] = starts[j]
    BY <1>1, <1>3, <2>2 DEF Runners, RunLabels
  <2>4. CASE jobs'[j] = jobs[j]
    BY <1>3, <2>3, <2>4 DEF InlineInv
  <2>5. CASE j = issued + 1
    BY <1>0, <2>3, <2>5 DEF InlineInv
  <2> QED
    BY <1>3, <2>1, <2>2, <2>4, <2>5 DEF Writes, RunLabels
<1>4. ASSUME NEW j \in JobIds, j > issued' PROVE jobs'[j] = NoRecord /\ starts'[j] = 0
  <2>1. j > issued /\ (j # issued + 1 \/ issued' # issued + 1)
    BY <1>0, <1>4 DEF JobIds
  <2>2. jobs[j] = NoRecord /\ starts[j] = 0
    BY <2>1 DEF InlineInv
  <2>3. ~(t \in Runners /\ pc[t] \in RunLabels \ {"read"} /\ j = job[t])
    <3> SUFFICES ASSUME t \in Runners, pc[t] \in RunLabels \ {"read"}, j = job[t] PROVE FALSE
      OBVIOUS
    <3>1. t \in Timers
      BY DEF WorkersRest, Runners, RunLabels
    <3> QED
      BY <1>0, <2>1, <3>1 DEF InlineInv, JobIds
  <2>4. starts'[j] = starts[j]
    BY <1>1, <2>3 DEF Runners, RunLabels
  <2>5. jobs'[j] = jobs[j]
    BY <2>1, <2>3, JobWrites DEF Writes, RunLabels
  <2> QED
    BY <2>2, <2>4, <2>5
<1>5. ASSUME NEW u \in Timers, pc'[u] \in RunLabels \ {"read"}
      PROVE  job'[u] <= issued' /\ (pc'[u] = "claim" => starts'[job'[u]] = 0)
  <2>1. /\ u \in Tasks /\ u \in Runners /\ u[1] \in Procs /\ u = <<u[1], u[2]>>
        /\ job[u] = u[2] /\ job[u] \in JobIds
    BY Kinds DEF TypeInv, Kind
  <2>2. CASE u = t
    <3>1. CASE pc'[u] = "claim" \/ pc[u] = "read"
      <4>1. /\ jobs[job[u]].status = "queued"
            /\ UNCHANGED <<jobs, starts, issued, job>>
        BY <1>5, <2>2, <3>1, ClaimsWaiting
      <4>2. starts[job[u]] = 0 /\ jobs[job[u]] # NoRecord
        BY <1>0, <2>1, <4>1 DEF InlineInv
      <4>3. job[u] <= issued
        BY <1>0, <2>1, <4>2 DEF InlineInv, JobIds
      <4> QED
        BY <4>1, <4>2, <4>3
    <3>2. CASE pc'[u] # "claim" /\ pc[u] # "read"
      <4>1. RunnerGoes(u)
        BY <2>1, <2>2, RunnerPath
      <4>2. pc[u] \in RunLabels \ {"read"} /\ job'[u] = job[u]
        BY <1>5, <3>2, <4>1 DEF RunnerGoes, RunLabels
      <4> QED
        BY <1>0, <2>1, <3>2, <4>2 DEF InlineInv, JobIds
    <3> QED
      BY <3>1, <3>2
  <2>3. CASE u # t
    <3>1. pc'[u] = pc[u] /\ job'[u] = job[u]
      BY <1>5, <2>1, <2>3, TaskTypesKept DEF TaskStep, Others
    <3>2. job[u] <= issued /\ (pc[u] = "claim" => starts[job[u]] = 0)
      BY <1>5, <3>1 DEF InlineInv
    <3>3. ~(t \in Timers /\ job[t] = job[u])
      <4> SUFFICES ASSUME t \in Timers, job[t] = job[u] PROVE FALSE
        OBVIOUS
      <4>1. t = <<t[1], t[2]>> /\ t[1] \in Procs /\ job[t] = t[2]
        BY <1>0, Kinds DEF Kind
      <4> QED
        BY <2>1, <2>3, <4>1 DEF OneProcess
    <3>4. starts'[job[u]] = starts[job[u]]
      BY <1>1, <2>1, <3>3
    <3> QED
      BY <1>0, <2>1, <3>1, <3>2, <3>4 DEF JobIds
  <2> QED
    BY <2>2, <2>3
<1>6. mode' = "inline"
  BY DEF InlineInv
<1>7. /\ \A j \in JobIds : j > issued' => jobs'[j] = NoRecord /\ starts'[j] = 0
      /\ \A j \in JobIds : starts'[j] \in {0, 1}
      /\ \A j \in JobIds : jobs'[j].status = "queued" => starts'[j] = 0
  BY <1>2, <1>3, <1>4
<1>8. /\ \A u \in Timers : pc'[u] \in RunLabels \ {"read"} => job'[u] <= issued'
      /\ \A u \in Timers : pc'[u] = "claim" => starts'[job'[u]] = 0
  BY <1>5 DEF RunLabels
<1> QED
  BY <1>6, <1>7, <1>8 DEF InlineInv

(* So do a crash, which leaves no timer, and an expiry. *)
LEMMA InlineEnvironment ==
    ASSUME TypeInv, InlineInv, UNCHANGED mode, Environment
    PROVE  InlineInv'
<1>0. /\ UNCHANGED <<starts, issued>> /\ NoRecord.status = "absent"
      /\ \A t \in Tasks : \/ pc'[t] = pc[t] /\ job'[t] = job[t]
                          \/ pc'[t] = "idle"
  BY EnvironmentMoves DEF NoRecord
<1>1. \A j \in JobIds : jobs'[j] = jobs[j] \/ jobs'[j] = NoRecord
  BY EnvironmentMoves DEF TypeInv, TypeOK
<1>2. \A t \in Timers : t \in Tasks
  BY Kinds
<1> QED
  BY <1>0, <1>1, <1>2 DEF InlineInv, RunLabels

(* It holds at first, and always while no worker is invoked. *)
LEMMA InlineHolds ==
    ASSUME OneProcess
    PROVE  Spec /\ mode = "inline" /\ []WorkersRest => []InlineInv
<1>1. Init /\ mode = "inline" => InlineInv
  <2> SUFFICES ASSUME Init, mode = "inline" PROVE InlineInv
    OBVIOUS
  <2>1. /\ \A t \in Tasks : pc[t] = "idle"
        /\ \A j \in JobIds : jobs[j] = NoRecord /\ starts[j] = 0
    BY DEF Init
  <2>2. NoRecord.status = "absent" /\ \A t \in Timers : t \in Tasks
    BY Kinds DEF NoRecord
  <2> QED
    BY <2>1, <2>2 DEF InlineInv, RunLabels
<1>2. TypeInv /\ WorkersRest /\ InlineInv /\ [Next]_vars => InlineInv'
  <2> SUFFICES ASSUME TypeInv, WorkersRest, InlineInv, [Next]_vars PROVE InlineInv'
    OBVIOUS
  <2>1. CASE UNCHANGED vars
    BY <2>1 DEF vars, InlineInv
  <2>2. CASE Next
    BY <2>2, StepKinds, InlineStep, InlineEnvironment DEF Next
  <2> QED
    BY <2>1, <2>2
<1> QED
  BY <1>1, <1>2, TypesHold, PTL DEF Spec

(* In inline mode a job's analysis is begun once by a server of one process, whatever fails
   and however often the process dies: its timers read the record again, and one at a time. *)
THEOREM InlineJobsBeginOnce ==
    ASSUME OneProcess
    PROVE  Spec /\ mode = "inline" /\ []WorkersRest => []BegunOnce
<1>1. InlineInv => BegunOnce
  BY DEF InlineInv, BegunOnce
<1> QED
  BY <1>1, InlineHolds, PTL

(* In both modes, under the fairness that the run checks, no analysis is begun twice. *)
THEOREM FairJobsBeginOnce == ASSUME OneProcess PROVE FairBoth => []BegunOnce
<1>1. Init => mode = "worker" \/ mode = "inline"
  BY DEF Init
<1>2. Init => WorkersRest
  BY Kinds DEF Init, WorkersRest
<1>3. [FairNext]_vars => [Next]_vars
  BY DEF FairNext
<1>4. mode = "inline" /\ WorkersRest /\ [FairNext]_vars => (mode = "inline" /\ WorkersRest)'
  BY DEF FairNext, Next, vars, WorkersRest
<1> QED
  BY <1>1, <1>2, <1>3, <1>4, InlineJobsBeginOnce, JobsBeginOnce, PTL DEF FairBoth, Spec
-----------------------------------------------------------------------------
(* When a step of t gives out an identifier, it saves a record under it. *)
Issues(t) ==
    \/ UNCHANGED issued
    \/ /\ issued < MaxJobs /\ issued' = issued + 1 /\ UNCHANGED starts
       /\ pc[t] \in {"lookup", "save", "contSave"}
       /\ \E r \in {Answer(t), rec[t], Continuation(t)} : jobs' = [jobs EXCEPT ![issued + 1] = r]

(* What every step of a task does to identifiers. *)
LEMMA JobIssues ==
    ASSUME TypeInv, NEW t \in Tasks, ActionOf(t)
    PROVE  Issues(t)
<1>1. ASSUME EffectOnly(t) PROVE Issues(t)
  BY <1>1 DEF EffectOnly, Issues
<1>2. CASE t \in Creators /\ ((\E k \in Keys : Submit(t, k)) \/ CreatorStep(t) \/ PushThrows(t))
  BY <1>2 DEF Issues, CreatorStep, Submit, PushThrows, ReadCache, AnswerFromCache, LookupActive,
     ReuseActive, ActiveHasEnded, ContinueCached, ConsumeQuota, SaveQueued, Push
<1>3. CASE t \in Workers /\ (WorkerStep(t) \/ PopReplyLost(t))
  BY <1>3 DEF Issues, WorkerStep, Invoke, Pop, PopEmpty, PopReplyLost
<1>4. CASE t \in Runners /\ (RunStep(t) \/ ReportStage(t))
  BY <1>4 DEF Issues, RunStep, ReportStage, ReadQueued, SkipNotQueued, Claim, AdvanceCheckpoint,
     ComputeCheckpoint, PersistSnapshot, AnalysisFails, SetCache, SaveSucceeded, SaveContinuation,
     PushContinuation, SaveFailed
<1>5. CASE t \in Runners /\ (RunThrows(t) \/ FailureUnrecorded(t))
  BY <1>1, <1>5 DEF RunThrows, FailureUnrecorded, Issues
<1>6. CASE \E p \in Procs, i \in JobIds : t = <<p, i>> /\ Poll(p, i)
  BY <1>6 DEF Poll, Issues
<1>7. CASE CallThrows(t)
  BY <1>1, <1>7 DEF CallThrows, Issues
<1> QED
  BY <1>2, <1>3, <1>4, <1>5, <1>6, <1>7 DEF ActionOf

StatusOf == [j \in JobIds |-> jobs[j].status]

LifecycleStep == Lifecycle!Next \/ UNCHANGED Lifecycle!jobVars

(* A status that polls show changes, *)
LEMMA StatusWritten ==
    ASSUME NEW j \in JobIds, NEW s, jobs'[j].status = s, \A i \in JobIds : i # j => jobs'[i] = jobs[i]
    PROVE  StatusOf' = [StatusOf EXCEPT ![j] = s]
BY DEF StatusOf

(* or stays. *)
LEMMA StatusKept ==
    ASSUME NEW j \in JobIds, jobs'[j].status = jobs[j].status, \A i \in JobIds : i # j => jobs'[i] = jobs[i]
    PROVE  StatusOf' = StatusOf
BY DEF StatusOf

(* A saved identifier publishes a job. *)
LEMMA IssuePublishes ==
    ASSUME TypeInv, WorkerInv, NEW t \in Tasks, ActionOf(t), ~UNCHANGED issued
    PROVE  LifecycleStep
<1>1. PICK r \in {Answer(t), rec[t], Continuation(t)} :
         /\ issued < MaxJobs /\ issued' = issued + 1 /\ UNCHANGED starts
         /\ pc[t] \in {"lookup", "save", "contSave"} /\ jobs' = [jobs EXCEPT ![issued + 1] = r]
  BY JobIssues DEF Issues
<1>2. rec[t] \in Records
  BY <1>1, OwnTypes DEF Locals
<1>3. r.status \in {"queued", "succeeded"}
  BY <1>1, <1>2, SavedStatus
<1>4. issued \in Nat /\ jobs \in [JobIds -> Records \cup {NoRecord}]
  BY DEF TypeInv, TypeOK
<1>5. PICK j \in JobIds : j = issued + 1
  BY <1>1, NextJobId
<1>6. StatusOf' = [StatusOf EXCEPT ![j] = r.status]
  BY <1>1, <1>4, <1>5, StatusWritten
<1>7. j \notin 1..issued /\ 1..issued' = (1..issued) \cup {j}
  BY <1>1, <1>4, <1>5
<1>8. Lifecycle!Publish(j)
  BY <1>1, <1>3, <1>6, <1>7 DEF Lifecycle!Publish, StatusOf
<1> QED
  BY <1>8 DEF LifecycleStep, Lifecycle!Next

(* Every other step begins, reports, ends or withdraws the job that a runner holds, or
   shows nothing. *)
LEMMA RunFollows ==
    ASSUME TypeInv, WorkerInv, NEW t \in Tasks, ActionOf(t), UNCHANGED issued
    PROVE  LifecycleStep
<1>0. /\ starts \in [JobIds -> Nat] /\ jobs \in [JobIds -> Records \cup {NoRecord}]
      /\ issued \in Nat
      /\ Begins(t) /\ Locals(t) /\ Kind(t) /\ Stage(t)
  BY JobBegins, OwnTypes DEF TypeInv, TypeOK, WorkerInv
<1>1. CASE \A i \in JobIds : Undisturbed(i)
  <2>1. starts' = starts
    <3>1. CASE pc[t] = "claim" /\ starts' = [starts EXCEPT ![job[t]] = @ + 1]
      <4>1. job[t] \in JobIds
        BY <1>0, <3>1 DEF Locals, RunLabels
      <4>2. starts'[job[t]] = starts[job[t]] + 1 /\ starts'[job[t]] = starts[job[t]] /\ starts[job[t]] \in Nat
        BY <1>0, <1>1, <3>1, <4>1 DEF Undisturbed
      <4> QED
        BY <4>2
    <3> QED
      BY <1>0, <3>1 DEF Begins
  <2>2. StatusOf' = StatusOf
    BY <1>1 DEF StatusOf, Undisturbed
  <2> QED
    BY <2>1, <2>2 DEF LifecycleStep, Lifecycle!jobVars, StatusOf
<1>2. CASE ~\A i \in JobIds : Undisturbed(i)
  <2>1. \A i \in JobIds : ~Undisturbed(i) => t \in Runners /\ pc[t] \in RunLabels /\ i = job[t]
    BY <1>0, OthersUndisturbed
  <2>2. PICK j \in JobIds : j = job[t] /\ ~Undisturbed(j) /\ t \in Runners /\ pc[t] \in RunLabels
    BY <1>2, <2>1
  <2>3. \A i \in JobIds : i # j => jobs'[i] = jobs[i]
    BY <2>1, <2>2 DEF Undisturbed
  <2>4. j \in 1..issued
    BY <1>0, <2>2 DEF WorkerInv, Holds, JobIds
  <2>5. Writes(t, j)
    BY JobWrites
  <2>6. pc[t] # "read" => rec[t] \in Records
    BY <1>0, <2>2 DEF Locals, RunLabels
  <2>7. CASE pc[t] = "claim"
    <3>1. /\ starts' = [starts EXCEPT ![j] = @ + 1] /\ jobs'[j] = Running(t)
          /\ starts[j] = 0 /\ jobs[j].status \in {"queued", "absent"}
      BY <1>0, <2>2, <2>7 DEF Begins, Undisturbed, Stage, Fresh
    <3>2. StatusOf' = [StatusOf EXCEPT ![j] = "running"] /\ starts' = [starts EXCEPT ![j] = 1]
      BY <1>0, <2>3, <2>6, <2>7, <3>1, SavedStatus, StatusWritten
    <3>3. Lifecycle!Begin(j)
      BY <2>4, <3>1, <3>2 DEF Lifecycle!Begin, StatusOf
    <3> QED
      BY <3>3 DEF LifecycleStep, Lifecycle!Next
  <2>8. CASE pc[t] # "claim"
    <3>1. UNCHANGED starts /\ jobs'[j] # jobs[j]
      BY <1>0, <2>2, <2>8 DEF Begins, Undisturbed
    <3>2. CASE pc[t] \in {"compute", "window"} /\ jobs'[j] = Running(t)
      <4>1. jobs'[j].status = "running" /\ starts[j] = 1 /\ jobs[j].status \in {"running", "absent"}
        BY <1>0, <2>2, <2>6, <3>2, SavedStatus DEF Stage, BegunAs
      <4>2. CASE jobs[j].status = "running"
        BY <2>3, <3>1, <4>1, <4>2, StatusKept DEF LifecycleStep, Lifecycle!jobVars, StatusOf
      <4>3. CASE jobs[j].status = "absent"
        <5>1. StatusOf' = [StatusOf EXCEPT ![j] = "running"]
          BY <2>3, <4>1, StatusWritten
        <5>2. Lifecycle!Report(j)
          BY <3>1, <4>1, <4>3, <5>1 DEF Lifecycle!Report, StatusOf
        <5> QED
          BY <5>2 DEF LifecycleStep, Lifecycle!Next
      <4> QED
        BY <4>1, <4>2, <4>3
    <3>3. CASE pc[t] = "saveDone" /\ jobs'[j] = Succeeded(t)
      <4>1. jobs'[j].status = "succeeded" /\ starts[j] = 1 /\ jobs[j].status \in {"running", "absent"}
        BY <1>0, <2>2, <2>6, <3>3, SavedStatus DEF Stage, BegunAs
      <4>2. StatusOf' = [StatusOf EXCEPT ![j] = "succeeded"]
        BY <2>3, <4>1, StatusWritten
      <4>3. Lifecycle!End(j)
        BY <3>1, <4>1, <4>2 DEF Lifecycle!End, StatusOf
      <4> QED
        BY <4>3 DEF LifecycleStep, Lifecycle!Next
    <3>4. CASE pc[t] = "saveFailed" /\ jobs'[j] = Failed(t)
      <4>1. jobs'[j].status = "failed" /\ starts[j] = 1 /\ jobs[j].status \in {"running", "succeeded", "absent"}
        BY <1>0, <2>2, <2>6, <3>4, SavedStatus DEF Stage, BegunAs
      <4>2. StatusOf' = [StatusOf EXCEPT ![j] = "failed"]
        BY <2>3, <4>1, StatusWritten
      <4>3. Lifecycle!End(j) \/ Lifecycle!Withdraw(j)
        BY <3>1, <4>1, <4>2 DEF Lifecycle!End, Lifecycle!Withdraw, StatusOf
      <4> QED
        BY <4>3 DEF LifecycleStep, Lifecycle!Next
    <3> QED
      BY <1>0, <2>4, <2>5, <2>8, <3>1, <3>2, <3>3, <3>4 DEF Writes
  <2> QED
    BY <2>7, <2>8
<1> QED
  BY <1>1, <1>2

(* A crash is not seen; an expired record is a lost job. *)
LEMMA ExpiryFollows ==
    ASSUME TypeInv, Environment
    PROVE  LifecycleStep
<1>0. jobs \in [JobIds -> Records \cup {NoRecord}] /\ UNCHANGED <<starts, issued>>
  BY EnvironmentMoves DEF TypeInv, TypeOK
<1>1. CASE UNCHANGED jobs
  BY <1>0, <1>1 DEF LifecycleStep, Lifecycle!jobVars
<1>2. ASSUME NEW j \in JobIds, jobs[j] # NoRecord, jobs' = [jobs EXCEPT ![j] = NoRecord]
      PROVE  LifecycleStep
  <2>1. jobs[j].status # "absent" /\ jobs'[j].status = "absent"
    BY <1>0, <1>2 DEF NoRecord, Records, Statuses
  <2>2. StatusOf' = [StatusOf EXCEPT ![j] = "absent"]
    BY <1>0, <1>2, <2>1, StatusWritten
  <2>3. Lifecycle!Expire(j)
    BY <1>0, <2>1, <2>2 DEF Lifecycle!Expire, StatusOf
  <2> QED
    BY <2>3 DEF LifecycleStep, Lifecycle!Next
<1> QED
  BY <1>1, <1>2, EnvironmentMoves

(* In worker mode the queue, the workers, the caches and the crashes of the service are
   invisible: what polls show of a job is the abstract lifecycle. *)
THEOREM JobsFollowLifecycle == Spec /\ mode = "worker" => ImplementsLifecycle
<1>1. Init => Lifecycle!Init
  BY DEF Init, Lifecycle!Init, NoRecord
<1>2. TypeInv /\ WorkerInv /\ [Next]_vars => [Lifecycle!Next]_(Lifecycle!jobVars)
  <2> SUFFICES ASSUME TypeInv, WorkerInv, [Next]_vars PROVE LifecycleStep
    BY DEF LifecycleStep
  <2>1. CASE UNCHANGED vars
    BY <2>1 DEF vars, LifecycleStep, Lifecycle!jobVars
  <2>2. CASE Next
    BY <2>2, StepKinds, IssuePublishes, RunFollows, ExpiryFollows DEF Next
  <2> QED
    BY <2>1, <2>2
<1> QED
  BY <1>1, <1>2, WorkerHolds, TypesHold, PTL DEF Spec, ImplementsLifecycle, Lifecycle!Spec
=============================================================================
