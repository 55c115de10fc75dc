---------------------------- MODULE WalletBacklog ----------------------------
(***************************************************************************)
(* What the backfill queue promises to those who enqueue: a job waits      *)
(* until one worker takes it, and then it is done, or waits again, or is   *)
(* lost to a failure.  Lists, rotations, delays and the polls of the       *)
(* workers are absent: BackfillQueue implements this module.               *)
(***************************************************************************)
EXTENDS Naturals

CONSTANTS
    Ids,        \* names of jobs
    Takers      \* those who run them

VARIABLES
    waiting,    \* jobs that wait
    taken,      \* the jobs that each taker has
    ended       \* jobs that are done or lost

backlogVars == <<waiting, taken, ended>>

Init ==
    /\ waiting = {}
    /\ taken = [t \in Takers |-> {}]
    /\ ended = {}

Known == waiting \cup ended \cup UNION {taken[t] : t \in Takers}

(* A new job is enqueued, by a client or by the job that a taker runs. *)
Add(j) ==
    /\ j \notin Known
    /\ waiting' = waiting \cup {j}
    /\ UNCHANGED <<taken, ended>>

(* One taker takes a job that waits, and has no other. *)
Take(t, j) ==
    /\ j \in waiting /\ taken[t] = {}
    /\ waiting' = waiting \ {j}
    /\ taken' = [taken EXCEPT ![t] = {j}]
    /\ UNCHANGED ended

(* Its job ends, or waits again. *)
End(t, j) ==
    /\ j \in taken[t]
    /\ taken' = [taken EXCEPT ![t] = {}]
    /\ ended' = ended \cup {j}
    /\ UNCHANGED waiting

Return(t, j) ==
    /\ j \in taken[t]
    /\ taken' = [taken EXCEPT ![t] = {}]
    /\ waiting' = waiting \cup {j}
    /\ UNCHANGED ended

(* A job that waits is lost by a worker that only looked at it. *)
Drop(j) ==
    /\ j \in waiting
    /\ waiting' = waiting \ {j}
    /\ ended' = ended \cup {j}
    /\ UNCHANGED taken

Next ==
    \E j \in Ids :
        Add(j) \/ Drop(j) \/ \E t \in Takers : Take(t, j) \/ End(t, j) \/ Return(t, j)

Spec == Init /\ [][Next]_backlogVars
=============================================================================
