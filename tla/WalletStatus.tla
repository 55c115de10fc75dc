---------------------------- MODULE WalletStatus ----------------------------
(***************************************************************************)
(* The rows of wallet_tracking_state, which workers and API servers upsert *)
(* without reading them first.  Each upsert is one SQL statement.  The     *)
(* statuses "stale" and "suppressed" exist in the schema, but no code      *)
(* writes them.                                                            *)
(***************************************************************************)
EXTENDS Naturals

CONSTANT Wallets

VARIABLE status         \* the status of each wallet's row, "none" without a row

Statuses == {"none", "candidate", "tracked", "labeled", "scored"}

StatusInit == status = [w \in Wallets |-> "none"]

(* Mutant of CandidateStatus: the row takes the status of the last upsert. *)
CandidateStatusLast(old) == "candidate"

(* A wallet that is discovered again keeps what it has reached. *)
CandidateStatus(old) ==
    IF old \in {"tracked", "labeled", "scored"} THEN old ELSE "candidate"

(* A backfill or a score keeps evidence of labels that it has not found itself. *)
ProgressStatus(old, new) ==
    IF old \in {"labeled", "scored"} /\ new = "tracked" THEN old ELSE new

RecordWalletCandidate(w) ==
    status' = [status EXCEPT ![w] = CandidateStatus(@)]

MarkWalletTracked(w, new) ==
    status' = [status EXCEPT ![w] = ProgressStatus(@, new)]
=============================================================================
