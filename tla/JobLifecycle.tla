---------------------------- MODULE JobLifecycle ----------------------------
(***************************************************************************)
(* What a client of the wallet analysis service may observe of a job: the  *)
(* status that polling its record returns, and how often the analysis      *)
(* behind it was begun.  Queue, workers, caches and processes are absent:  *)
(* CopilotJobs implements this module.                                     *)
(***************************************************************************)
EXTENDS Naturals

CONSTANT JobIds     \* identifiers a job may be given

VARIABLES
    known,          \* identifiers handed out so far
    status,         \* the status a poll of each job sees, "absent" for a 404
    begun           \* how many times each job's analysis was begun

jobVars == <<known, status, begun>>

Statuses == {"absent", "queued", "running", "succeeded", "failed"}

Init ==
    /\ known = {}
    /\ status = [j \in JobIds |-> "absent"]
    /\ begun = [j \in JobIds |-> 0]

(* A request or a continuation creates a job, waiting or answered at once. *)
Publish(j) ==
    /\ j \notin known
    /\ known' = known \cup {j}
    /\ \E s \in {"queued", "succeeded"} : status' = [status EXCEPT ![j] = s]
    /\ UNCHANGED begun

(* One analysis begins, for a job that waits or whose record has expired. *)
Begin(j) ==
    /\ j \in known
    /\ status[j] \in {"queued", "absent"}
    /\ begun[j] = 0
    /\ begun' = [begun EXCEPT ![j] = 1]
    /\ status' = [status EXCEPT ![j] = "running"]
    /\ UNCHANGED known

(* A progress report brings back a record that expired during the analysis. *)
Report(j) ==
    /\ begun[j] = 1
    /\ status[j] = "absent"
    /\ status' = [status EXCEPT ![j] = "running"]
    /\ UNCHANGED <<known, begun>>

(* The analysis that was begun ends. *)
End(j) ==
    /\ begun[j] = 1
    /\ status[j] \in {"running", "absent"}
    /\ \E s \in {"succeeded", "failed"} : status' = [status EXCEPT ![j] = s]
    /\ UNCHANGED <<known, begun>>

(* A success is withdrawn: its continuation could not be queued.  Failure is final. *)
Withdraw(j) ==
    /\ begun[j] = 1
    /\ status[j] = "succeeded"
    /\ status' = [status EXCEPT ![j] = "failed"]
    /\ UNCHANGED <<known, begun>>

(* The record outlives its time to live. *)
Expire(j) ==
    /\ status[j] # "absent"
    /\ status' = [status EXCEPT ![j] = "absent"]
    /\ UNCHANGED <<known, begun>>

Next ==
    \E j \in JobIds :
        Publish(j) \/ Begin(j) \/ Report(j) \/ End(j) \/ Withdraw(j) \/ Expire(j)

Spec == Init /\ [][Next]_jobVars
=============================================================================
