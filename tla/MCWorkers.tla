----------------------------- MODULE MCWorkers -----------------------------
(***************************************************************************)
(* BackfillQueue and WalletTracking for TLC.  They share no state: a       *)
(* behaviour is of one part, chosen at first, and the other stands still.  *)
(*                                                                         *)
(* Two workers drain the jobs of a watchlist entry and of a seed that name *)
(* the same wallet, whose backfill queues its counterparty, or of the seed *)
(* and of a search for the counterparty.  Two runs of the                  *)
(* subscription synchronisation overlap.                                   *)
(***************************************************************************)
EXTENDS BackfillQueue, WalletTracking, TLC

CONSTANTS a, b, r1, r2, r3

VARIABLE part

RequestsShared ==
    r1 :> [wallet |-> a, source |-> "watchlist", depth |-> 2]
        @@ r2 :> [wallet |-> a, source |-> "seed_list", depth |-> 2]
        @@ r3 :> [wallet |-> b, source |-> "search", depth |-> 1]
NeighborsShared == a :> {b} @@ b :> {a}
EvidenceShared == a :> "labeled" @@ b :> "tracked"

Coming == {r \in Requests : asking[r] = "start"}

workerVars == <<part, queueVars, syncVars>>

QueuePart(A) == part = "queue" /\ A /\ UNCHANGED <<part, syncVars>>
SyncPart(A) == part = "sync" /\ A /\ UNCHANGED <<part, queueVars>>

WorkersInit ==
    /\ part \in {"queue", "sync"}
    /\ QueueInit /\ SyncInit
    /\ part = "queue" => setup = "webhook" /\ Coming \in {{r1, r2}, {r2, r3}}
    /\ part = "sync" => Coming = {}

WorkersNext == QueuePart(QueueNext) \/ SyncPart(SyncNext)

WorkersSpec ==
    /\ WorkersInit /\ [][WorkersNext]_workerVars
    /\ \A r \in Requests : WF_workerVars(QueuePart(RequestStep(r)))
    /\ \A w \in Workers : WF_workerVars(QueuePart(WorkerStep(w)))
    /\ WF_workerVars(QueuePart(Tick))
    /\ \A s \in Syncs : WF_workerVars(SyncPart(SyncStep(s)))

(* The variables of both parts keep their types. *)
WorkersTypeOK == QueueTypeOK /\ SyncTypeOK

(* The work ends: every queued job is done or lost, and every wallet to watch gets
   registered. *)
WorkersSettle == Drained /\ EventuallyRegistered
=============================================================================
