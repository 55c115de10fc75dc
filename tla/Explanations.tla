---------------------------- MODULE Explanations ----------------------------
(***************************************************************************)
(* Explanations of one wallet written by a language model: requests read   *)
(* and write ai_explanations, and a user may have so many a day            *)
(* (service/analyst_explanations.go, db/ai_explanations.go).  An           *)
(* asynchronous request marks its row pending, answers, and leaves the     *)
(* rest to a goroutine.                                                    *)
(*                                                                         *)
(* Time is the age of a row: 0 until the 45 s window of a pending row is   *)
(* over, 1 until the five minutes of a cooldown and of a failed row are    *)
(* over, then 2.  The explanation of a finding takes the same steps        *)
(* without the asynchronous ones.                                          *)
(***************************************************************************)
EXTENDS Naturals, FiniteSets

CONSTANTS
    Prompts,                \* input hashes: a question and what is known of the wallet
    Explainers,             \* goroutines that serve the user's requests
    DailyLimit,             \* defaultAnalystExplanationDailyLimit
    MaxExplains,            \* bound: requests
    MaxExplainFailures      \* bound: failed calls and processes that stop

ASSUME DailyLimitAssumption == DailyLimit \in Nat \ {0}
ASSUME ExplainersAssumption == IsFiniteSet(Explainers)
ASSUME ExplainBoundsAssumption == {MaxExplains, MaxExplainFailures} \subseteq Nat

VARIABLES
    row,                    \* ai_explanations: the row of each prompt
    latest,                 \* the prompt last written, by last_requested_at
    audits,                 \* audit_logs: the user's generations of today
    explain,                \* each goroutine: its next call and its request
    explains, explainFailures,      \* bounded counters
    generated,              \* history: explanations the language model has given
    empty                   \* history: an answer had no content

explainVars == <<row, latest, audits, explain, explains, explainFailures, generated, empty>>

NoPrompt == "no prompt"
ExplanationStatuses == {"none", "pending", "failed", "completed"}
ExplanationRows == [status : ExplanationStatuses \ {"none"}, age : 0..2] \cup {[status |-> "none", age |-> 2]}

(* "task" and "taskSave" are the calls of the goroutine an asynchronous request leaves. *)
ExplainCalls == {"idle", "cache", "latest", "quota", "pending", "generate", "save", "task",
          "taskSave", "fail", "audit"}
NoExplain == [at |-> "idle", prompt |-> NoPrompt, force |-> FALSE, async |-> FALSE]

ExplainInit ==
    /\ row = [p \in Prompts |-> [status |-> "none", age |-> 2]]
    /\ latest = NoPrompt
    /\ audits = 0
    /\ explain = [e \in Explainers |-> NoExplain]
    /\ explains = 0 /\ explainFailures = 0
    /\ generated = 0
    /\ empty = FALSE

Proceeds(e, label) ==
    explain' = [explain EXCEPT ![e] = IF label = "idle" THEN NoExplain ELSE [@ EXCEPT !.at = label]]

Task(e) == explain[e].at \in {"task", "taskSave", "fail"}
-----------------------------------------------------------------------------
ExplainWallet(e, p, force, async) ==
    /\ explain[e].at = "idle" /\ explains < MaxExplains
    /\ explain' = [explain EXCEPT ![e] = [at |-> "cache", prompt |-> p,
                                          force |-> force, async |-> async]]
    /\ explains' = explains + 1
    /\ UNCHANGED <<row, latest, audits, explainFailures, generated, empty>>

(* The query for a completed row names 13 columns and its result is scanned into 16 *)
(* variables: a row that is found is an error.                                      *)
ReadAIExplanationByCacheKey(e) ==
    LET found == row[explain[e].prompt].status = "completed"
    IN
    /\ explain[e].at = "cache"
    /\ Proceeds(e, IF found THEN "idle" ELSE IF explain[e].force THEN "quota" ELSE "latest")
    /\ UNCHANGED <<row, latest, audits, explains, explainFailures, generated, empty>>

(* Mutant of AnswersFallback: a failed generation is not told from a finished one. *)
AnswersQueued(r) == r.status = "pending" /\ r.age = 0

(* A pending row is answered with a summary made without the language model while   *)
(* its window lasts, a failed one until its retry_after.                            *)
AnswersFallback(r) ==
    \/ r.status = "pending" /\ r.age = 0
    \/ r.status = "failed"

(* Whatever prompt the latest row of the wallet is for, it decides; in the cooldown *)
(* its content is the answer, which only a completed row has.                       *)
ReadLatestAIExplanationForScope(e) ==
    LET over == latest = NoPrompt \/ row[latest].age = 2
    IN
    /\ explain[e].at = "latest"
    /\ Proceeds(e, IF over THEN "quota" ELSE "idle")
    /\ empty' = (empty \/ (~over /\ ~AnswersFallback(row[latest])
                                 /\ row[latest].status # "completed"))
    /\ UNCHANGED <<row, latest, audits, explains, explainFailures, generated>>

(* Mutant of Exceeded: the limit itself passes. *)
ExceededLate(count) == count > DailyLimit

Exceeded(count) == count >= DailyLimit

EnforceUserQuota(e) ==
    /\ explain[e].at = "quota"
    /\ Proceeds(e, IF Exceeded(audits) THEN "idle"
               ELSE IF explain[e].async THEN "pending" ELSE "generate")
    /\ UNCHANGED <<row, latest, audits, explains, explainFailures, generated, empty>>
-----------------------------------------------------------------------------
(* One row per prompt: whatever it was, it is replaced. *)
UpsertAIExplanation(e, status) ==
    /\ row' = [row EXCEPT ![explain[e].prompt] = [status |-> status, age |-> 0]]
    /\ latest' = explain[e].prompt

(* The request is answered; the goroutine goes on. *)
UpsertPending(e) ==
    /\ explain[e].at = "pending"
    /\ UpsertAIExplanation(e, "pending")
    /\ Proceeds(e, "task")
    /\ UNCHANGED <<audits, explains, explainFailures, generated, empty>>

(* The language model answers, or a summary made without it does: that one is not   *)
(* kept, and not counted.                                                           *)
GenerateWalletExplanation(e, answers) ==
    LET task == explain[e].at = "task"
    IN
    /\ explain[e].at \in {"generate", "task"}
    /\ Proceeds(e, IF answers THEN IF task THEN "taskSave" ELSE "save"
               ELSE IF task THEN "fail" ELSE "idle")
    /\ generated' = generated + IF answers THEN 1 ELSE 0
    /\ UNCHANGED <<row, latest, audits, explains, explainFailures, empty>>

UpsertCompleted(e) ==
    /\ explain[e].at \in {"save", "taskSave"}
    /\ UpsertAIExplanation(e, "completed")
    /\ Proceeds(e, "audit")
    /\ UNCHANGED <<audits, explains, explainFailures, generated, empty>>

UpsertFailed(e) ==
    /\ explain[e].at = "fail"
    /\ UpsertAIExplanation(e, "failed")
    /\ Proceeds(e, "idle")
    /\ UNCHANGED <<audits, explains, explainFailures, generated, empty>>

RecordGenerationAudit(e) ==
    /\ explain[e].at = "audit"
    /\ audits' = audits + 1
    /\ Proceeds(e, "idle")
    /\ UNCHANGED <<row, latest, explains, explainFailures, generated, empty>>

(* A call to Postgres fails or the process stops.  The goroutine records a          *)
(* generation also when it could not be stored.                                     *)
ExplainFails(e) ==
    /\ explain[e].at # "idle" /\ explainFailures < MaxExplainFailures
    /\ explainFailures' = explainFailures + 1
    /\ \E label \in {"idle"} \cup IF explain[e].at = "taskSave" THEN {"audit"} ELSE {} :
          Proceeds(e, label)
    /\ UNCHANGED <<row, latest, audits, explains, generated, empty>>

(* A window ends.  A goroutine has 25 s, less than the window of the row it wrote. *)
Grow(p) ==
    /\ row[p].age < 2
    /\ ~\E e \in Explainers : Task(e) /\ explain[e].prompt = p
    /\ row' = [row EXCEPT ![p].age = @ + 1]
    /\ UNCHANGED <<latest, audits, explain, explains, explainFailures, generated, empty>>
-----------------------------------------------------------------------------
ExplainStep(e) ==
    \/ ReadAIExplanationByCacheKey(e)
    \/ ReadLatestAIExplanationForScope(e)
    \/ EnforceUserQuota(e)
    \/ UpsertPending(e)
    \/ \E answers \in BOOLEAN : GenerateWalletExplanation(e, answers)
    \/ UpsertCompleted(e)
    \/ UpsertFailed(e)
    \/ RecordGenerationAudit(e)

ExplainNext ==
    \/ \E e \in Explainers :
          \/ \E p \in Prompts, force \in BOOLEAN, async \in BOOLEAN : ExplainWallet(e, p, force, async)
          \/ ExplainStep(e)
          \/ ExplainFails(e)
    \/ \E p \in Prompts : Grow(p)

ExplainSpec == ExplainInit /\ [][ExplainNext]_explainVars
-----------------------------------------------------------------------------
ExplainTypeOK ==
    /\ row \in [Prompts -> ExplanationRows]
    /\ latest \in Prompts \cup {NoPrompt}
    /\ audits \in Nat /\ generated \in Nat
    /\ explain \in [Explainers -> {NoExplain} \cup
                        [at : ExplainCalls \ {"idle"}, prompt : Prompts, force : BOOLEAN, async : BOOLEAN]]
    /\ explains \in 0..MaxExplains /\ explainFailures \in 0..MaxExplainFailures
    /\ empty \in BOOLEAN

(* The day's count is read before the generation and written after it: requests     *)
(* that overlap pass the limit together, never by more than the goroutines beside   *)
(* the last one allowed, and a generation that is not recorded is one of a failure. *)
WithinDailyLimit ==
    generated < DailyLimit + Cardinality(Explainers) + explainFailures

(* Nobody is answered with an empty explanation: a row without content is pending   *)
(* while its goroutine works and marked failed by it, unless a call failed or the   *)
(* process stopped in between.                                                      *)
EmptyPerFailure == empty => explainFailures > 0
=============================================================================
