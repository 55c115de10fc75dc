--------------------------- MODULE MCCopilotJobs ---------------------------
(***************************************************************************)
(* CopilotJobs for TLC: two processes, a request handler and a worker      *)
(* invocation in each, or one process under fairness.  The fair behaviours *)
(* are of two kinds: in worker mode no disturbance, so that what is queued *)
(* must end; in inline mode no worker invocation and a disturbance.        *)
(***************************************************************************)
EXTENDS CopilotJobs, TLC

CONSTANTS p1, p2, c1, c2, w1, w2

HomeWorker == c1 :> p1 @@ c2 :> p2 @@ w1 :> p1 @@ w2 :> p2
HomeFair == c1 :> p1 @@ c2 :> p1 @@ w1 :> p1 @@ w2 :> p1

InlineJobs == 2

FairNext ==
    /\ Next
    /\ mode = "worker" => disturbances' = 0
    /\ mode = "inline" => issued' <= InlineJobs /\ \A w \in Workers : pc'[w] = "idle"

FairBoth == Init /\ [][FairNext]_vars /\ Fairness
=============================================================================
