--------------------------- MODULE RecordsProofs ---------------------------
(***************************************************************************)
(* Proofs about the records that requests write: Explanations, for any     *)
(* prompts and goroutines; Watchlists, for any names, items and clients;   *)
(* AlertRules, for any wallets and tabs; FlowEvidence, for any             *)
(* counterparties and classes and however many transfers; and that all the *)
(* records together behave as each does alone, so that what is proved of   *)
(* one part, here or in EvidenceProofs, holds in the specification that    *)
(* TLC checks. The last part is the types of all the tables: what the      *)
(* invariants before it leave out, the bounds of the counters and what     *)
(* entry features, transfer evidence and recorded signals are made of.     *)
(***************************************************************************)
EXTENDS MCRecords, EvidenceProofs, FiniteSetTheorems, TLAPS

-----------------------------------------------------------------------------
(* Explanations. *)
ExplainTypes ==
    /\ row \in [Prompts -> ExplanationRows]
    /\ latest \in Prompts \cup {NoPrompt}
    /\ audits \in Nat /\ generated \in Nat /\ explainFailures \in Nat
    /\ explain \in [Explainers -> {NoExplain} \cup
                        [at : ExplainCalls \ {"idle"}, prompt : Prompts, force : BOOLEAN, async : BOOLEAN]]
    /\ empty \in BOOLEAN

(* The goroutines that the quota let through and that no generation is recorded of; of these
   the ones the language model has answered. *)
Allowed ==
    {e \in Explainers : explain[e].at \in {"pending", "generate", "save", "task", "taskSave", "audit"}}
AnsweredFor == {e \in Explainers : explain[e].at \in {"save", "taskSave", "audit"}}

(* The one who passed the quota last has found less than the limit; each generation is
   recorded, or will be, or was lost by a failure. *)
QuotaCount ==
    /\ audits + Cardinality(Allowed) < DailyLimit + Cardinality(Explainers)
    /\ generated <= audits + Cardinality(AnsweredFor) + explainFailures

(* Without a failure a pending row is fresh, and a goroutine is at work for it. *)
PendingIsServed ==
    explainFailures = 0 =>
        \A p \in Prompts : row[p].status = "pending" =>
            row[p].age = 0 /\ \E e \in Explainers : Task(e) /\ explain[e].prompt = p

ExplainInv == ExplainTypes /\ QuotaCount /\ PendingIsServed /\ EmptyPerFailure

Requests == {NoExplain} \cup
                [at : ExplainCalls \ {"idle"}, prompt : Prompts, force : BOOLEAN, async : BOOLEAN]

(* The next call of a goroutine is set; its prompt stays. *)
LEMMA GoroutineMoves ==
    ASSUME ExplainTypes, NEW e \in Explainers, explain[e].at # "idle",
           NEW label \in ExplainCalls, Proceeds(e, label)
    PROVE  /\ explain' \in [Explainers -> Requests]
           /\ explain'[e].at = label
           /\ label # "idle" => explain'[e].prompt = explain[e].prompt
           /\ \A f \in Explainers \ {e} : explain'[f] = explain[f]
<1> DEFINE w == IF label = "idle" THEN NoExplain ELSE [explain[e] EXCEPT !.at = label]
<1>1. explain[e] \in [at : ExplainCalls \ {"idle"}, prompt : Prompts, force : BOOLEAN, async : BOOLEAN]
  BY DEF ExplainTypes, NoExplain
<1>2. w \in Requests /\ w.at = label /\ (label # "idle" => w.prompt = explain[e].prompt)
  BY <1>1 DEF Requests, NoExplain
<1>3. explain' = [explain EXCEPT ![e] = w]
  BY DEF Proceeds
<1>4. explain \in [Explainers -> Requests]
  BY DEF ExplainTypes, Requests
<1> HIDE DEF w
<1> QED
  BY <1>2, <1>3, <1>4

(* Every call of a goroutine makes its next call known, and stays with its prompt. *)
GoroutineStep(e, label) ==
    /\ explain[e].at # "idle"
    /\ explain' \in [Explainers -> Requests]
    /\ explain'[e].at = label
    /\ label # "idle" => explain'[e].prompt = explain[e].prompt
    /\ \A f \in Explainers \ {e} : explain'[f] = explain[f]

Upserted(e, status) ==
    /\ row' = [row EXCEPT ![explain[e].prompt] = [status |-> status, age |-> 0]]
    /\ latest' = explain[e].prompt

(* What one step does to the rows, the counts and the goroutines. *)
ExplainMoves ==
    \/ UNCHANGED explainVars
    \/ /\ \E e \in Explainers :
             /\ explain[e].at = "idle" /\ explain'[e].at = "cache"
             /\ explain' \in [Explainers -> Requests]
             /\ \A f \in Explainers \ {e} : explain'[f] = explain[f]
       /\ UNCHANGED <<row, latest, audits, explainFailures, generated, empty>>
    \/ /\ \E e \in Explainers, label \in {"idle", "quota", "latest"} :
             explain[e].at = "cache" /\ GoroutineStep(e, label)
       /\ UNCHANGED <<row, latest, audits, explainFailures, generated, empty>>
    \/ /\ \E e \in Explainers, label \in {"idle", "quota"} :
             explain[e].at = "latest" /\ GoroutineStep(e, label)
       /\ empty' \in BOOLEAN
       /\ empty' => empty \/ (latest # NoPrompt /\ row[latest].age # 2
                                /\ ~AnswersFallback(row[latest]) /\ row[latest].status # "completed")
       /\ UNCHANGED <<row, latest, audits, explainFailures, generated>>
    \/ /\ \E e \in Explainers, label \in {"idle", "pending", "generate"} :
             /\ explain[e].at = "quota" /\ GoroutineStep(e, label)
             /\ label # "idle" => audits < DailyLimit
       /\ UNCHANGED <<row, latest, audits, explainFailures, generated, empty>>
    \/ /\ \E e \in Explainers :
             explain[e].at = "pending" /\ GoroutineStep(e, "task") /\ Upserted(e, "pending")
       /\ UNCHANGED <<audits, explainFailures, generated, empty>>
    \/ /\ \E e \in Explainers :
             \/ explain[e].at = "generate" /\ GoroutineStep(e, "save") /\ generated' = generated + 1
             \/ explain[e].at = "task" /\ GoroutineStep(e, "taskSave") /\ generated' = generated + 1
             \/ explain[e].at = "generate" /\ GoroutineStep(e, "idle") /\ generated' = generated
             \/ explain[e].at = "task" /\ GoroutineStep(e, "fail") /\ generated' = generated
       /\ UNCHANGED <<row, latest, audits, explainFailures, empty>>
    \/ /\ \E e \in Explainers :
             explain[e].at \in {"save", "taskSave"} /\ GoroutineStep(e, "audit") /\ Upserted(e, "completed")
       /\ UNCHANGED <<audits, explainFailures, generated, empty>>
    \/ /\ \E e \in Explainers :
             explain[e].at = "fail" /\ GoroutineStep(e, "idle") /\ Upserted(e, "failed")
       /\ UNCHANGED <<audits, explainFailures, generated, empty>>
    \/ /\ \E e \in Explainers : explain[e].at = "audit" /\ GoroutineStep(e, "idle")
       /\ audits' = audits + 1
       /\ UNCHANGED <<row, latest, explainFailures, generated, empty>>
    \/ /\ \E e \in Explainers :
             \/ GoroutineStep(e, "idle")
             \/ explain[e].at = "taskSave" /\ GoroutineStep(e, "audit")
       /\ explainFailures' = explainFailures + 1
       /\ UNCHANGED <<row, latest, audits, generated, empty>>
    \/ /\ \E p \in Prompts : Grow(p)
       /\ UNCHANGED <<latest, audits, explain, explainFailures, generated, empty>>

(* Every step of the specification is one of these. *)
LEMMA ExplainSteps ==
    ASSUME ExplainTypes, [ExplainNext]_explainVars
    PROVE  ExplainMoves
<1> USE DEF ExplainCalls
<1>1. ASSUME NEW e \in Explainers, NEW p \in Prompts, NEW force \in BOOLEAN, NEW async \in BOOLEAN,
             ExplainWallet(e, p, force, async)
      PROVE  ExplainMoves
  <2> DEFINE w == [at |-> "cache", prompt |-> p, force |-> force, async |-> async]
  <2>1. w \in Requests /\ w.at = "cache"
    BY DEF Requests
  <2>2. explain' = [explain EXCEPT ![e] = w] /\ explain[e].at = "idle"
        /\ UNCHANGED <<row, latest, audits, explainFailures, generated, empty>>
    BY <1>1 DEF ExplainWallet
  <2>3. explain \in [Explainers -> Requests]
    BY DEF ExplainTypes, Requests
  <2> HIDE DEF w
  <2>4. explain'[e].at = "cache" /\ explain' \in [Explainers -> Requests]
        /\ \A f \in Explainers \ {e} : explain'[f] = explain[f]
    BY <2>1, <2>2, <2>3
  <2> QED
    BY <2>2, <2>4 DEF ExplainMoves
<1>2. ASSUME NEW e \in Explainers, ReadAIExplanationByCacheKey(e) PROVE ExplainMoves
  <2>1. PICK label \in {"idle", "quota", "latest"} :
            Proceeds(e, label) /\ explain[e].at = "cache"
            /\ UNCHANGED <<row, latest, audits, explainFailures, generated, empty>>
    BY <1>2 DEF ReadAIExplanationByCacheKey
  <2>2. GoroutineStep(e, label)
    BY <2>1, GoroutineMoves DEF GoroutineStep
  <2> QED
    BY <2>1, <2>2 DEF ExplainMoves
<1>3. ASSUME NEW e \in Explainers, ReadLatestAIExplanationForScope(e) PROVE ExplainMoves
  <2>1. PICK label \in {"idle", "quota"} :
            Proceeds(e, label) /\ explain[e].at = "latest"
            /\ UNCHANGED <<row, latest, audits, explainFailures, generated>>
    BY <1>3 DEF ReadLatestAIExplanationForScope
  <2>2. GoroutineStep(e, label)
    BY <2>1, GoroutineMoves DEF GoroutineStep
  <2>3. empty' \in BOOLEAN
        /\ (empty' => empty \/ (latest # NoPrompt /\ row[latest].age # 2
                                /\ ~AnswersFallback(row[latest]) /\ row[latest].status # "completed"))
    BY <1>3, Zenon DEF ReadLatestAIExplanationForScope, ExplainTypes
  <2> QED
    BY <2>1, <2>2, <2>3 DEF ExplainMoves
<1>4. ASSUME NEW e \in Explainers, EnforceUserQuota(e) PROVE ExplainMoves
  <2>1. PICK label \in {"idle", "pending", "generate"} :
            /\ Proceeds(e, label) /\ explain[e].at = "quota"
            /\ label # "idle" => audits < DailyLimit
            /\ UNCHANGED <<row, latest, audits, explainFailures, generated, empty>>
    BY <1>4, DailyLimitAssumption DEF EnforceUserQuota, Exceeded, ExplainTypes
  <2>2. GoroutineStep(e, label)
    BY <2>1, GoroutineMoves DEF GoroutineStep
  <2> QED
    BY <2>1, <2>2 DEF ExplainMoves
<1>5. ASSUME NEW e \in Explainers, UpsertPending(e) PROVE ExplainMoves
  <2>1. GoroutineStep(e, "task")
    BY <1>5, GoroutineMoves DEF GoroutineStep, UpsertPending
  <2> QED
    BY <1>5, <2>1 DEF ExplainMoves, UpsertPending, UpsertAIExplanation, Upserted
<1>6. ASSUME NEW e \in Explainers, NEW answers \in BOOLEAN, GenerateWalletExplanation(e, answers)
      PROVE  ExplainMoves
  <2>1. PICK label \in {"save", "taskSave", "idle", "fail"} :
            /\ Proceeds(e, label) /\ explain[e].at \in {"generate", "task"}
            /\ label \in {"save", "idle"} <=> explain[e].at = "generate"
            /\ label \in {"save", "taskSave"} <=> answers
            /\ UNCHANGED <<row, latest, audits, explainFailures, empty>>
    BY <1>6 DEF GenerateWalletExplanation
  <2>2. GoroutineStep(e, label)
    BY <2>1, GoroutineMoves DEF GoroutineStep
  <2>3. generated' = generated + IF answers THEN 1 ELSE 0
    BY <1>6 DEF GenerateWalletExplanation
  <2>4. generated' = IF answers THEN generated + 1 ELSE generated
    BY <2>3 DEF ExplainTypes
  <2> QED
    BY <2>1, <2>2, <2>4 DEF ExplainMoves
<1>7. ASSUME NEW e \in Explainers, UpsertCompleted(e) PROVE ExplainMoves
  <2>1. GoroutineStep(e, "audit")
    BY <1>7, GoroutineMoves DEF GoroutineStep, UpsertCompleted
  <2> QED
    BY <1>7, <2>1 DEF ExplainMoves, UpsertCompleted, UpsertAIExplanation, Upserted
<1>8. ASSUME NEW e \in Explainers, UpsertFailed(e) PROVE ExplainMoves
  <2>1. GoroutineStep(e, "idle")
    BY <1>8, GoroutineMoves DEF GoroutineStep, UpsertFailed
  <2> QED
    BY <1>8, <2>1 DEF ExplainMoves, UpsertFailed, UpsertAIExplanation, Upserted
<1>9. ASSUME NEW e \in Explainers, RecordGenerationAudit(e) PROVE ExplainMoves
  <2>1. GoroutineStep(e, "idle")
    BY <1>9, GoroutineMoves DEF GoroutineStep, RecordGenerationAudit
  <2> QED
    BY <1>9, <2>1 DEF ExplainMoves, RecordGenerationAudit
<1>10. ASSUME NEW e \in Explainers, ExplainFails(e) PROVE ExplainMoves
  <2>1. PICK label \in {"idle", "audit"} :
            /\ Proceeds(e, label) /\ explain[e].at # "idle"
            /\ label = "audit" => explain[e].at = "taskSave"
    BY <1>10 DEF ExplainFails
  <2>2. GoroutineStep(e, label)
    BY <2>1, GoroutineMoves DEF GoroutineStep
  <2>3. /\ explainFailures' = explainFailures + 1
        /\ UNCHANGED <<row, latest, audits, generated, empty>>
    BY <1>10 DEF ExplainFails
  <2> QED
    BY <2>1, <2>2, <2>3 DEF ExplainMoves
<1>11. ASSUME NEW p \in Prompts, Grow(p) PROVE ExplainMoves
  BY <1>11 DEF ExplainMoves, Grow
<1> QED
  BY <1>1, <1>2, <1>3, <1>4, <1>5, <1>6, <1>7, <1>8, <1>9, <1>10, <1>11
  DEF ExplainNext, ExplainStep, ExplainMoves

(* The row of one prompt is written. *)
LEMMA RowsTyped ==
    ASSUME ExplainTypes, NEW e \in Explainers, explain[e].at # "idle",
           NEW status \in ExplanationStatuses \ {"none"}, Upserted(e, status)
    PROVE  /\ explain[e].prompt \in Prompts
           /\ row' \in [Prompts -> ExplanationRows] /\ latest' \in Prompts
           /\ row'[explain[e].prompt] = [status |-> status, age |-> 0]
           /\ \A p \in Prompts \ {explain[e].prompt} : row'[p] = row[p]
<1> DEFINE r == [status |-> status, age |-> 0]
<1>1. explain[e].prompt \in Prompts
  BY DEF ExplainTypes, NoExplain
<1>2. r \in ExplanationRows
  BY DEF ExplanationRows
<1>3. row' = [row EXCEPT ![explain[e].prompt] = r] /\ latest' = explain[e].prompt
  BY DEF Upserted
<1>4. row \in [Prompts -> ExplanationRows]
  BY DEF ExplainTypes
<1> HIDE DEF r
<1>5. /\ row' \in [Prompts -> ExplanationRows] /\ latest' \in Prompts
      /\ row'[explain[e].prompt] = r
      /\ \A p \in Prompts \ {explain[e].prompt} : row'[p] = row[p]
  BY <1>1, <1>2, <1>3, <1>4
<1> QED
  BY <1>1, <1>5 DEF r

(* A row grows older. *)
LEMMA GrowTyped ==
    ASSUME ExplainTypes, NEW p \in Prompts, Grow(p)
    PROVE  /\ row' \in [Prompts -> ExplanationRows]
           /\ row'[p].status = row[p].status
           /\ \A q \in Prompts \ {p} : row'[q] = row[q]
<1>1. row[p] \in ExplanationRows /\ row[p].age < 2
  BY DEF ExplainTypes, Grow
<1>2. PICK n \in 0..2 : row[p].age = n /\ row[p].status \in ExplanationStatuses \ {"none"}
  BY <1>1 DEF ExplanationRows
<1> DEFINE r == [row[p] EXCEPT !.age = n + 1]
<1>3. row[p] \in [status : ExplanationStatuses \ {"none"}, age : 0..2]
  BY <1>1, <1>2 DEF ExplanationRows
<1>4. r \in ExplanationRows /\ r.status = row[p].status
  BY <1>1, <1>2, <1>3 DEF ExplanationRows
<1>5. row' = [row EXCEPT ![p] = r]
  BY <1>2 DEF Grow
<1> HIDE DEF r
<1> QED
  BY <1>4, <1>5 DEF ExplainTypes

(* The types are kept. *)
LEMMA ExplainTyped ==
    ASSUME ExplainTypes, ExplainMoves
    PROVE  ExplainTypes'
<1>1. explain' \in [Explainers -> Requests]
  BY DEF ExplainMoves, ExplainTypes, Requests, GoroutineStep, Grow, explainVars
<1>2. row' \in [Prompts -> ExplanationRows] /\ latest' \in Prompts \cup {NoPrompt}
  <2>1. ASSUME NEW e \in Explainers, explain[e].at # "idle",
               NEW status \in {"pending", "failed", "completed"}, Upserted(e, status)
        PROVE  row' \in [Prompts -> ExplanationRows] /\ latest' \in Prompts \cup {NoPrompt}
    BY <2>1, RowsTyped DEF ExplanationStatuses
  <2>2. CASE \E p \in Prompts : Grow(p)
    BY <2>2, GrowTyped DEF Grow, ExplainTypes
  <2>3. CASE UNCHANGED <<row, latest>>
    BY <2>3 DEF ExplainTypes
  <2> QED
    BY <2>1, <2>2, <2>3 DEF ExplainMoves, GoroutineStep, explainVars
<1>3. audits' \in Nat /\ generated' \in Nat /\ explainFailures' \in Nat
  BY DEF ExplainMoves, ExplainTypes, explainVars
<1>4. empty' \in BOOLEAN
  BY Zenon DEF ExplainMoves, ExplainTypes, explainVars
<1> QED
  BY <1>1, <1>2, <1>3, <1>4 DEF ExplainTypes, Requests

(* The sets counted, after a goroutine has gone from one call to another. *)
LEMMA CountsMove ==
    ASSUME ExplainTypes, NEW e \in Explainers, \A f \in Explainers \ {e} : explain'[f] = explain[f]
    PROVE  /\ Cardinality(Allowed) \in Nat /\ Cardinality(Allowed') \in Nat
           /\ Cardinality(AnsweredFor) \in Nat /\ Cardinality(AnsweredFor') \in Nat
           /\ Cardinality(Explainers) \in Nat
           /\ Cardinality(Allowed') <= Cardinality(Explainers)
           /\ (e \in Allowed) = (e \in Allowed') => Cardinality(Allowed') = Cardinality(Allowed)
           /\ e \in Allowed /\ e \notin Allowed' => Cardinality(Allowed') = Cardinality(Allowed) - 1
           /\ (e \in AnsweredFor) = (e \in AnsweredFor')
                  => Cardinality(AnsweredFor') = Cardinality(AnsweredFor)
           /\ e \in AnsweredFor /\ e \notin AnsweredFor'
                  => Cardinality(AnsweredFor') = Cardinality(AnsweredFor) - 1
           /\ e \notin AnsweredFor /\ e \in AnsweredFor'
                  => Cardinality(AnsweredFor') = Cardinality(AnsweredFor) + 1
<1> DEFINE A == Allowed
           B == Allowed'
           G == AnsweredFor
           H == AnsweredFor'
<1>1. /\ A \ {e} = B \ {e} /\ G \ {e} = H \ {e}
      /\ A \subseteq Explainers /\ B \subseteq Explainers /\ G \subseteq Explainers /\ H \subseteq Explainers
  BY DEF Allowed, AnsweredFor
<1> HIDE DEF A, B, G, H
<1>2. /\ IsFiniteSet(A) /\ IsFiniteSet(B) /\ IsFiniteSet(G) /\ IsFiniteSet(H)
      /\ Cardinality(B) <= Cardinality(Explainers)
  BY <1>1, ExplainersAssumption, FS_Subset
<1>3. /\ Cardinality(A) \in Nat /\ Cardinality(B) \in Nat /\ Cardinality(G) \in Nat
      /\ Cardinality(H) \in Nat /\ Cardinality(Explainers) \in Nat
  BY <1>2, ExplainersAssumption, FS_CardinalityType
<1>4. ASSUME NEW S, NEW T, S \ {e} = T \ {e}, IsFiniteSet(S), IsFiniteSet(T)
      PROVE  /\ (e \in S) = (e \in T) => Cardinality(T) = Cardinality(S)
             /\ e \in S /\ e \notin T => Cardinality(S) = Cardinality(T) + 1
             /\ e \notin S /\ e \in T => Cardinality(T) = Cardinality(S) + 1
  <2>1. (e \in S) = (e \in T) => S = T
    BY <1>4
  <2>2. e \in S /\ e \notin T => T = S \ {e}
    BY <1>4
  <2>3. e \notin S /\ e \in T => S = T \ {e}
    BY <1>4
  <2> QED
    BY <1>4, <2>1, <2>2, <2>3, OneLess
<1>5. /\ (e \in A) = (e \in B) => Cardinality(B) = Cardinality(A)
      /\ e \in A /\ e \notin B => Cardinality(A) = Cardinality(B) + 1
      /\ (e \in G) = (e \in H) => Cardinality(H) = Cardinality(G)
      /\ e \in G /\ e \notin H => Cardinality(G) = Cardinality(H) + 1
      /\ e \notin G /\ e \in H => Cardinality(H) = Cardinality(G) + 1
  BY <1>1, <1>2, <1>4
<1>6. /\ (e \in A) = (e \in B) => Cardinality(B) = Cardinality(A)
      /\ e \in A /\ e \notin B => Cardinality(B) = Cardinality(A) - 1
      /\ (e \in G) = (e \in H) => Cardinality(H) = Cardinality(G)
      /\ e \in G /\ e \notin H => Cardinality(H) = Cardinality(G) - 1
      /\ e \notin G /\ e \in H => Cardinality(H) = Cardinality(G) + 1
  BY <1>3, <1>5
<1> QED
  BY <1>2, <1>3, <1>6 DEF A, B, G, H

(* The quota is passed below the limit only, and each generation is accounted for. *)
LEMMA QuotaKept ==
    ASSUME ExplainTypes, QuotaCount, ExplainMoves
    PROVE  QuotaCount'
<1> DEFINE a == Cardinality(Allowed)
           b == Cardinality(Allowed')
           g == Cardinality(AnsweredFor)
           h == Cardinality(AnsweredFor')
           n == Cardinality(Explainers)
           In(f) == f \in Allowed
           After(f) == f \in Allowed'
<1>u. DailyLimit \in Nat \ {0} /\ audits \in Nat /\ generated \in Nat /\ explainFailures \in Nat
      /\ audits + a < DailyLimit + n /\ generated <= audits + g + explainFailures
  BY DailyLimitAssumption DEF ExplainTypes, QuotaCount
<1>q. (audits' + b < DailyLimit + n /\ generated' <= audits' + h + explainFailures') => QuotaCount'
  BY DEF QuotaCount
<1>1. ASSUME NEW e \in Explainers, \A f \in Explainers \ {e} : explain'[f] = explain[f]
      PROVE  /\ a \in Nat /\ b \in Nat /\ g \in Nat /\ h \in Nat /\ n \in Nat /\ b <= n
             /\ (e \in Allowed) = (e \in Allowed') => b = a
             /\ e \in Allowed /\ e \notin Allowed' => b = a - 1
             /\ (e \in AnsweredFor) = (e \in AnsweredFor') => h = g
             /\ e \in AnsweredFor /\ e \notin AnsweredFor' => h = g - 1
             /\ e \notin AnsweredFor /\ e \in AnsweredFor' => h = g + 1
  BY <1>1, CountsMove
<1>2. ASSUME NEW e \in Explainers
      PROVE  /\ e \in Allowed
                    <=> explain[e].at \in {"pending", "generate", "save", "task", "taskSave", "audit"}
             /\ e \in Allowed'
                    <=> explain'[e].at \in {"pending", "generate", "save", "task", "taskSave", "audit"}
             /\ e \in AnsweredFor <=> explain[e].at \in {"save", "taskSave", "audit"}
             /\ e \in AnsweredFor' <=> explain'[e].at \in {"save", "taskSave", "audit"}
  BY DEF Allowed, AnsweredFor
<1>3. (UNCHANGED explain) => b = a /\ h = g
  BY DEF Allowed, AnsweredFor
<1> HIDE DEF a, b, g, h, n
<1>4. CASE UNCHANGED <<explain, audits, generated, explainFailures>>
  BY <1>u, <1>q, <1>3, <1>4
<1>5. ASSUME NEW e \in Explainers,
             explain[e].at \in {"idle", "cache", "latest", "quota"},
             explain'[e].at \in {"idle", "cache", "latest", "quota"},
             \A f \in Explainers \ {e} : explain'[f] = explain[f],
             UNCHANGED <<audits, generated, explainFailures>>
      PROVE  QuotaCount'
  <2>1. e \notin Allowed /\ e \notin Allowed' /\ e \notin AnsweredFor /\ e \notin AnsweredFor'
    BY <1>2, <1>5
  <2>2. b = a /\ h = g
    BY <1>1, <1>5, <2>1
  <2> QED
    BY <1>u, <1>q, <1>5, <2>2
<1>6. ASSUME NEW e \in Explainers, NEW label \in {"pending", "generate"},
             explain[e].at = "quota", GoroutineStep(e, label), audits < DailyLimit,
             UNCHANGED <<audits, generated, explainFailures>>
      PROVE  QuotaCount'
  <2>1. e \notin AnsweredFor /\ e \notin AnsweredFor'
    BY <1>2, <1>6 DEF GoroutineStep
  <2>2. b \in Nat /\ n \in Nat /\ b <= n /\ h = g
    BY <1>1, <1>6, <2>1 DEF GoroutineStep
  <2> QED
    BY <1>u, <1>q, <1>6, <2>2
<1>7. ASSUME NEW e \in Explainers, NEW label,
             \/ explain[e].at = "pending" /\ label = "task"
             \/ explain[e].at \in {"save", "taskSave"} /\ label = "audit",
             GoroutineStep(e, label), UNCHANGED <<audits, generated, explainFailures>>
      PROVE  QuotaCount'
  <2>1. e \in Allowed /\ e \in Allowed' /\ (e \in AnsweredFor) = (e \in AnsweredFor')
    BY <1>2, <1>7 DEF GoroutineStep
  <2>2. b = a /\ h = g
    BY <1>1, <1>7, <2>1 DEF GoroutineStep
  <2> QED
    BY <1>u, <1>q, <1>7, <2>2
<1>8. ASSUME NEW e \in Explainers, NEW label \in {"save", "taskSave"}, explain[e].at \in {"generate", "task"},
             GoroutineStep(e, label), generated' = generated + 1, UNCHANGED <<audits, explainFailures>>
      PROVE  QuotaCount'
  <2>1. e \in Allowed /\ e \in Allowed' /\ e \notin AnsweredFor /\ e \in AnsweredFor'
    BY <1>2, <1>8 DEF GoroutineStep
  <2>2. b = a /\ h = g + 1 /\ g \in Nat
    BY <1>1, <1>8, <2>1 DEF GoroutineStep
  <2> QED
    BY <1>u, <1>q, <1>8, <2>2
<1>9. ASSUME NEW e \in Explainers, NEW label \in {"idle", "fail"}, explain[e].at \in {"generate", "task", "fail"},
             GoroutineStep(e, label), UNCHANGED <<audits, generated, explainFailures>>
      PROVE  QuotaCount'
  <2>1. e \notin Allowed' /\ e \notin AnsweredFor /\ e \notin AnsweredFor'
    BY <1>2, <1>9 DEF GoroutineStep
  <2>2. (b = a \/ b = a - 1) /\ h = g /\ a \in Nat /\ n \in Nat
    BY <1>1, <1>9, <2>1 DEF GoroutineStep
  <2> QED
    BY <1>u, <1>q, <1>9, <2>2
<1>10. ASSUME NEW e \in Explainers, explain[e].at = "audit", GoroutineStep(e, "idle"),
              audits' = audits + 1, UNCHANGED <<generated, explainFailures>>
       PROVE  QuotaCount'
  <2>1. e \in Allowed /\ e \notin Allowed' /\ e \in AnsweredFor /\ e \notin AnsweredFor'
    BY <1>2, <1>10 DEF GoroutineStep
  <2>2. b = a - 1 /\ h = g - 1 /\ a \in Nat /\ g \in Nat /\ n \in Nat
    BY <1>1, <1>10, <2>1 DEF GoroutineStep
  <2> QED
    BY <1>u, <1>q, <1>10, <2>2
<1>11. ASSUME NEW e \in Explainers,
              GoroutineStep(e, "idle") \/ (explain[e].at = "taskSave" /\ GoroutineStep(e, "audit")),
              explainFailures' = explainFailures + 1, UNCHANGED <<audits, generated>>
       PROVE  QuotaCount'
  <2>1. (e \in Allowed' => e \in Allowed) /\ (e \in AnsweredFor' => e \in AnsweredFor)
    BY <1>2, <1>11 DEF GoroutineStep
  <2>2. (b = a \/ b = a - 1) /\ (h = g \/ h = g - 1) /\ a \in Nat /\ g \in Nat /\ n \in Nat
    BY <1>1, <1>11, <2>1 DEF GoroutineStep
  <2> QED
    BY <1>u, <1>q, <1>11, <2>2
<1>12. ASSUME NEW e \in Explainers, NEW label \in {"idle", "quota", "latest"},
              explain[e].at \in {"cache", "latest", "quota"}, GoroutineStep(e, label),
              UNCHANGED <<audits, generated, explainFailures>>
       PROVE  QuotaCount'
  BY <1>5, <1>12 DEF GoroutineStep
<1>13. CASE UNCHANGED explainVars
  BY <1>4, <1>13 DEF explainVars
<1> QED
  BY <1>4, <1>5, <1>6, <1>7, <1>8, <1>9, <1>10, <1>11, <1>12, <1>13 DEF ExplainMoves

(* A pending row is served by the goroutine that made it, unless a request failed. *)
LEMMA PendingKept ==
    ASSUME ExplainTypes, PendingIsServed, EmptyPerFailure, ExplainMoves
    PROVE  PendingIsServed' /\ EmptyPerFailure'
<1>1. ASSUME explainFailures' = 0 PROVE explainFailures = 0
  BY <1>1 DEF ExplainMoves, explainVars, ExplainTypes
<1>2. ASSUME explainFailures' = 0, NEW p \in Prompts, row'[p].status = "pending"
      PROVE  row'[p].age = 0 /\ \E e \in Explainers : Task(e)' /\ explain'[e].prompt = p
  <2>1. ASSUME row[p].status = "pending"
        PROVE  row[p].age = 0 /\ \E e \in Explainers : Task(e) /\ explain[e].prompt = p
    BY <1>1, <1>2, <2>1 DEF PendingIsServed
  <2>2. ASSUME NEW e \in Explainers, \A f \in Explainers \ {e} : explain'[f] = explain[f],
               Task(e) => Task(e)' /\ explain'[e].prompt = explain[e].prompt, row'[p] = row[p]
        PROVE  row'[p].age = 0 /\ \E f \in Explainers : Task(f)' /\ explain'[f].prompt = p
    <3>1. PICK f \in Explainers : Task(f) /\ explain[f].prompt = p
      BY <1>2, <2>1, <2>2
    <3>2. Task(f)' /\ explain'[f].prompt = p
      BY <2>2, <3>1 DEF Task
    <3> QED
      BY <1>2, <2>1, <2>2, <3>2
  <2>3. ASSUME NEW e \in Explainers, NEW status \in {"failed", "completed"}, NEW label,
               explain[e].at # "idle", GoroutineStep(e, label), Upserted(e, status)
        PROVE  row'[p].age = 0 /\ \E f \in Explainers : Task(f)' /\ explain'[f].prompt = p
    <3>0. status \in ExplanationStatuses \ {"none"}
      BY DEF ExplanationStatuses
    <3>t. /\ row'[explain[e].prompt] = [status |-> status, age |-> 0]
          /\ \A q \in Prompts \ {explain[e].prompt} : row'[q] = row[q]
      BY <2>3, <3>0, RowsTyped
    <3>s. row'[explain[e].prompt].status = status
      BY <3>t
    <3>1. p # explain[e].prompt /\ row'[p] = row[p]
      BY <1>2, <3>t, <3>s
    <3>2. PICK f \in Explainers : Task(f) /\ explain[f].prompt = p
      BY <1>2, <2>1, <3>1
    <3>3. f # e
      BY <3>1, <3>2
    <3> QED
      BY <1>2, <2>1, <2>3, <3>1, <3>2, <3>3 DEF Task, GoroutineStep
  <2>4. CASE UNCHANGED <<explain, row>>
    BY <1>2, <2>1, <2>4 DEF Task
  <2>5. CASE \E e \in Explainers : /\ explain[e].at = "idle"
                                   /\ \A f \in Explainers \ {e} : explain'[f] = explain[f]
                                   /\ UNCHANGED row
    BY <2>2, <2>5 DEF Task
  <2>6. CASE \E e \in Explainers : explain[e].at \in {"cache", "latest", "quota", "generate", "audit"}
                                     /\ (\E label : GoroutineStep(e, label)) /\ UNCHANGED row
    BY <2>2, <2>6 DEF Task, GoroutineStep
  <2>7. CASE \E e \in Explainers : explain[e].at = "pending" /\ GoroutineStep(e, "task")
                                     /\ Upserted(e, "pending")
    <3>1. PICK e \in Explainers : explain[e].at = "pending" /\ GoroutineStep(e, "task")
                                     /\ Upserted(e, "pending")
      BY <2>7
    <3>2. Task(e)' /\ explain'[e].prompt = explain[e].prompt
      BY <3>1 DEF Task, GoroutineStep
    <3>t. /\ row'[explain[e].prompt] = [status |-> "pending", age |-> 0]
          /\ \A q \in Prompts \ {explain[e].prompt} : row'[q] = row[q]
      <4>1. explain[e].at # "idle" /\ "pending" \in ExplanationStatuses \ {"none"}
        BY <3>1 DEF ExplanationStatuses
      <4> QED
        BY <3>1, <4>1, RowsTyped
    <3>3. row'[explain[e].prompt].age = 0
          /\ (p # explain[e].prompt => row'[p] = row[p])
      BY <3>t
    <3>4. CASE p = explain[e].prompt
      BY <3>2, <3>3, <3>4
    <3>5. CASE p # explain[e].prompt
      BY <2>2, <3>1, <3>2, <3>3, <3>5 DEF GoroutineStep
    <3> QED
      BY <3>4, <3>5
  <2>8. CASE \E e \in Explainers, label \in {"taskSave", "fail"} : explain[e].at = "task"
                                     /\ GoroutineStep(e, label) /\ UNCHANGED row
    BY <2>2, <2>8 DEF Task, GoroutineStep
  <2>9. CASE explainFailures' = explainFailures + 1
    BY <1>1, <1>2, <2>9
  <2>10. ASSUME NEW q \in Prompts, Grow(q), UNCHANGED explain
         PROVE  row'[p].age = 0 /\ \E e \in Explainers : Task(e)' /\ explain'[e].prompt = p
    <3>1. row[p].status = "pending"
      BY <1>2, <2>10, GrowTyped
    <3>2. PICK e \in Explainers : Task(e) /\ explain[e].prompt = p
      BY <2>1, <3>1
    <3>3. p # q
      BY <2>10, <3>2 DEF Grow
    <3>4. row'[p] = row[p]
      BY <2>10, <3>3, GrowTyped
    <3> QED
      BY <2>1, <2>10, <3>1, <3>2, <3>4 DEF Task
  <2> QED
    BY <2>3, <2>4, <2>5, <2>6, <2>7, <2>8, <2>9, <2>10
    DEF ExplainMoves, explainVars, GoroutineStep
<1>3. ASSUME empty', explainFailures' = 0 PROVE FALSE
  <2>1. explainFailures = 0 /\ ~empty
    BY <1>1, <1>3 DEF EmptyPerFailure, ExplainTypes
  <2>2. /\ latest # NoPrompt /\ row[latest].age # 2
        /\ ~AnswersFallback(row[latest]) /\ row[latest].status # "completed"
    BY <1>3, <2>1 DEF ExplainMoves, explainVars
  <2>3. latest \in Prompts /\ row[latest] \in ExplanationRows
    BY <2>2 DEF ExplainTypes
  <2>4. row[latest].status \in ExplanationStatuses \ {"none"}
    BY <2>2, <2>3 DEF ExplanationRows
  <2>5. row[latest].status = "pending" /\ row[latest].age # 0
    BY <2>2, <2>4 DEF AnswersFallback, ExplanationStatuses
  <2> QED
    BY <2>1, <2>3, <2>5 DEF PendingIsServed
<1>4. explainFailures' \in Nat
  BY ExplainTyped DEF ExplainTypes
<1> QED
  BY <1>2, <1>3, <1>4 DEF PendingIsServed, EmptyPerFailure

(* The invariant holds at first. *)
LEMMA ExplainStarts == ExplainInit => ExplainInv
<1> SUFFICES ASSUME ExplainInit PROVE ExplainInv
  OBVIOUS
<1>1. ExplainTypes
  BY DEF ExplainInit, ExplainTypes, ExplanationRows
<1>2. Allowed = {} /\ AnsweredFor = {}
  BY DEF ExplainInit, Allowed, AnsweredFor, NoExplain
<1>3. Cardinality(Allowed) = 0 /\ Cardinality(AnsweredFor) = 0 /\ Cardinality(Explainers) \in Nat
  BY <1>2, FS_EmptySet, FS_CardinalityType, ExplainersAssumption
<1>4. QuotaCount
  BY <1>3, DailyLimitAssumption DEF QuotaCount, ExplainInit
<1>5. PendingIsServed /\ EmptyPerFailure
  BY DEF PendingIsServed, EmptyPerFailure, ExplainInit
<1> QED
  BY <1>1, <1>4, <1>5 DEF ExplainInv

(* The invariant holds always. *)
LEMMA ExplainInvHolds == ExplainSpec => []ExplainInv
<1>1. ASSUME ExplainInv, [ExplainNext]_explainVars PROVE ExplainInv'
  BY <1>1, ExplainSteps, ExplainTyped, QuotaKept, PendingKept DEF ExplainInv
<1> QED
  BY <1>1, ExplainStarts, PTL DEF ExplainSpec

(* A user's generations of a day stay within the limit and the goroutines that overlap. *)
THEOREM DailyLimitHolds == ExplainSpec => [](WithinDailyLimit /\ EmptyPerFailure)
<1>1. ASSUME ExplainInv PROVE WithinDailyLimit
  <2>1. /\ audits + Cardinality(Allowed) < DailyLimit + Cardinality(Explainers)
        /\ generated <= audits + Cardinality(AnsweredFor) + explainFailures
        /\ audits \in Nat /\ generated \in Nat /\ explainFailures \in Nat
    BY <1>1 DEF ExplainInv, QuotaCount, ExplainTypes
  <2>2. AnsweredFor \subseteq Allowed /\ Allowed \subseteq Explainers
    BY DEF Allowed, AnsweredFor
  <2>3. /\ Cardinality(AnsweredFor) <= Cardinality(Allowed)
        /\ Cardinality(AnsweredFor) \in Nat /\ Cardinality(Allowed) \in Nat
        /\ Cardinality(Explainers) \in Nat
    BY <2>2, FS_Subset, FS_CardinalityType, ExplainersAssumption
  <2> QED
    BY <2>1, <2>3, DailyLimitAssumption DEF WithinDailyLimit
<1> QED
  BY <1>1, ExplainInvHolds, PTL DEF ExplainInv
-----------------------------------------------------------------------------
(* Watchlists. *)
WatchCalls == {"idle", "count", "create", "delete", "rename", "add", "change", "remove", "total", "write"}
SavedLists == [name : Names \cup {"none"}, items : SUBSET Items]
WatchRequests ==
    [at : WatchCalls, list : Nat, item : ItemKeys \cup {"none"}, name : Names \cup {"none"},
     read : SavedLists]

WatchTypes ==
    /\ created \in Nat /\ DOMAIN lists \subseteq 1..created
    /\ lists \in [DOMAIN lists -> SavedLists]
    /\ client \in [Clients -> WatchRequests]
    /\ \A c \in Clients : client[c].at \in {"add", "change"} => client[c].item \in ItemKeys
    /\ overlapped \in BOOLEAN

(* The last to find room for a list found less than the limit. *)
Creating == {c \in Clients : client[c].at = "create"}
ListCount ==
    /\ IsFiniteSet(DOMAIN lists)
    /\ Cardinality(DOMAIN lists) + Cardinality(Creating) < MaxWatchlists + Cardinality(Clients)

(* The items there are, and those there will be when the request has written its list. *)
SavedItems == {p \in (DOMAIN lists) \X Items : p[2] \in lists[p[1]].items}
ItemsAfter(c) == {p \in SavedItems : p[1] # client[c].list} \cup ({client[c].list} \X client[c].read.items)

(* A request that is alone writes what it found room for. *)
AloneIsWithin ==
    ~overlapped =>
        /\ \A c \in Clients, d \in Clients : client[c].at # "idle" /\ client[d].at # "idle" => c = d
        /\ Cardinality(DOMAIN lists) <= MaxWatchlists
        /\ IsFiniteSet(SavedItems) /\ Total <= MaxItems
        /\ \A c \in Clients :
              /\ client[c].at = "create" => Cardinality(DOMAIN lists) < MaxWatchlists
              /\ client[c].at \in {"total", "write"} => /\ client[c].list \in DOMAIN lists
                                                        /\ IsFiniteSet(ItemsAfter(c))
              /\ client[c].at = "total" => Cardinality(ItemsAfter(c)) <= Total + 1
              /\ client[c].at = "write" => Cardinality(ItemsAfter(c)) <= MaxItems

WatchInv == WatchTypes /\ ListCount /\ AloneIsWithin

(* A request goes on, with the wallet and the list it is for. *)
ClientGoes(c, label) ==
    /\ client[c].at # "idle"
    /\ client' \in [Clients -> WatchRequests]
    /\ client'[c].at = label
    /\ label # "idle" => client'[c].list = client[c].list /\ client'[c].item = client[c].item
    /\ \A d \in Clients \ {c} : client'[d] = client[d]

(* A request is answered. *)
LEMMA AnsweredMoves ==
    ASSUME WatchTypes, NEW c \in Clients, client[c].at # "idle", Answered(c)
    PROVE  ClientGoes(c, "idle")
<1>1. NoClientRequest \in WatchRequests /\ NoClientRequest.at = "idle"
  BY DEF NoClientRequest, WatchRequests, WatchCalls, SavedLists, NoList
<1>2. client' = [client EXCEPT ![c] = NoClientRequest]
  BY DEF Answered
<1> QED
  BY <1>1, <1>2 DEF ClientGoes, WatchTypes

(* A request goes on to its next call, with the list it has read. *)
LEMMA ContinuesMoves ==
    ASSUME WatchTypes, NEW c \in Clients, client[c].at # "idle",
           NEW label \in WatchCalls \ {"idle"}, NEW w \in SavedLists, Continues(c, label, w)
    PROVE  ClientGoes(c, label) /\ client'[c].read = w
<1> DEFINE q == [client[c] EXCEPT !.at = label, !.read = w]
<1>1. client[c] \in WatchRequests
  BY DEF WatchTypes
<1>2. /\ q \in WatchRequests /\ q.at = label /\ q.read = w
      /\ q.list = client[c].list /\ q.item = client[c].item
  BY <1>1 DEF WatchRequests
<1>3. client' = [client EXCEPT ![c] = q]
  BY DEF Continues
<1> HIDE DEF q
<1> QED
  BY <1>2, <1>3 DEF ClientGoes, WatchTypes

(* The lists, with one more of the name. *)
ListsWith(n) ==
    [l \in DOMAIN lists \cup {created + 1} |->
        IF l = created + 1 THEN [name |-> n, items |-> {}] ELSE lists[l]]

(* What one step does to the lists and the requests. *)
WatchMoves ==
    \/ UNCHANGED watchVars
    \/ /\ \E c \in Clients :
             /\ client[c].at = "idle"
             /\ client' \in [Clients -> WatchRequests]
             /\ client'[c].at \in {"count", "rename", "delete", "add", "change", "remove"}
             /\ client'[c].at \in {"add", "change"} => client'[c].item \in ItemKeys
             /\ \A d \in Clients \ {c} : client'[d] = client[d]
             /\ overlapped' = (overlapped \/ \E d \in Clients : client[d].at # "idle")
       /\ UNCHANGED <<driver, lists, created>>
    \/ /\ \E c \in Clients, label \in {"idle", "create"} :
             /\ client[c].at = "count" /\ ClientGoes(c, label)
             /\ label = "create" => Cardinality(DOMAIN lists) < MaxWatchlists
       /\ UNCHANGED <<driver, lists, created, overlapped>>
    \/ /\ \E c \in Clients :
             /\ client[c].at = "create" /\ ClientGoes(c, "idle")
             /\ lists' = ListsWith(client[c].name)
       /\ created' = created + 1
       /\ UNCHANGED <<driver, overlapped>>
    \/ /\ \E c \in Clients :
             /\ client[c].at = "delete" /\ ClientGoes(c, "idle")
             /\ lists' = [m \in (DOMAIN lists) \ {client[c].list} |-> lists[m]]
       /\ UNCHANGED <<driver, created, overlapped>>
    \/ /\ \E c \in Clients :
             /\ client[c].at \in {"rename", "add", "change", "remove"}
             /\ \/ ClientGoes(c, "idle")
                \/ /\ FindWatchlist(c) /\ client[c].list \in DOMAIN lists
                   /\ \E label \in {"write", "total"} : ClientGoes(c, label)
       /\ UNCHANGED <<driver, lists, created, overlapped>>
    \/ /\ \E c \in Clients :
             /\ client[c].at = "total"
             /\ \/ ClientGoes(c, "idle")
                \/ ClientGoes(c, "write") /\ client'[c].read = client[c].read /\ ~Reached(Total, MaxItems)
       /\ UNCHANGED <<driver, lists, created, overlapped>>
    \/ /\ \E c \in Clients :
             /\ client[c].at = "write" /\ ClientGoes(c, "idle")
             /\ \/ UNCHANGED lists
                \/ client[c].list \in DOMAIN lists /\ UpdateWatchlist(client[c].list, client[c].read)
       /\ UNCHANGED <<driver, created, overlapped>>

(* The list that a request has changed is one, with at most one item that was not there. *)
LEMMA FoundTyped ==
    ASSUME WatchTypes, NEW c \in Clients, FindWatchlist(c)
    PROVE  \/ ClientGoes(c, "idle")
           \/ /\ client[c].list \in DOMAIN lists
              /\ \E label \in {"write", "total"} : ClientGoes(c, label)
              /\ \/ client'[c].read.items \subseteq lists[client[c].list].items
                 \/ /\ client'[c].at = "total"
                    /\ \E i : client'[c].read.items \subseteq lists[client[c].list].items \cup {i}
                 \/ /\ client'[c].at = "write"
                    /\ \E i : \E j \in lists[client[c].list].items :
                          client'[c].read.items \subseteq (lists[client[c].list].items \ {j}) \cup {i}
<1> DEFINE l == client[c].list
           k == client[c].item
           w == lists[l]
           others == {i \in w.items : i.key # k}
<1>0. client[c].at \in {"rename", "add", "change", "remove"} /\ client[c] \in WatchRequests
  BY DEF FindWatchlist, WatchTypes
<1>1. CASE Answered(c)
  BY <1>0, <1>1, AnsweredMoves
<1>2. CASE l \in DOMAIN lists /\ client[c].at = "rename"
           /\ Continues(c, "write", [w EXCEPT !.name = client[c].name])
  <2>1. w \in SavedLists /\ client[c].name \in Names \cup {"none"}
    BY <1>0, <1>2 DEF WatchTypes, WatchRequests
  <2>2. [w EXCEPT !.name = client[c].name] \in SavedLists
        /\ [w EXCEPT !.name = client[c].name].items = w.items
    BY <2>1 DEF SavedLists
  <2> QED
    BY <1>0, <1>2, <2>2, ContinuesMoves DEF WatchCalls
<1>3. ASSUME NEW label \in {"write", "total"}, NEW X \in SUBSET Items, l \in DOMAIN lists,
             Continues(c, label, [w EXCEPT !.items = X])
      PROVE  ClientGoes(c, label) /\ client'[c].read.items = X
  <2>1. w \in SavedLists
    BY <1>0, <1>3 DEF WatchTypes
  <2>2. [w EXCEPT !.items = X] \in SavedLists /\ [w EXCEPT !.items = X].items = X
    BY <2>1 DEF SavedLists
  <2> QED
    BY <1>0, <1>3, <2>2, ContinuesMoves DEF WatchCalls
<1>4. CASE /\ l \in DOMAIN lists /\ client[c].at = "add"
           /\ Continues(c, "total", [w EXCEPT !.items = others \cup {[key |-> k, changed |-> FALSE]}])
  <2>1. w.items \subseteq Items /\ [key |-> k, changed |-> FALSE] \in Items
    BY <1>4 DEF WatchTypes, SavedLists, Items
  <2>2. ClientGoes(c, "total") /\ client'[c].read.items = others \cup {[key |-> k, changed |-> FALSE]}
    BY <1>3, <1>4, <2>1
  <2>3. client'[c].read.items \subseteq w.items \cup {[key |-> k, changed |-> FALSE]}
    BY <2>2
  <2> QED
    BY <1>4, <2>2, <2>3 DEF ClientGoes
<1>5. CASE /\ l \in DOMAIN lists /\ client[c].at = "change" /\ others # w.items
           /\ Continues(c, "write", [w EXCEPT !.items = others \cup {[key |-> k, changed |-> TRUE]}])
  <2>1. w.items \subseteq Items /\ [key |-> k, changed |-> TRUE] \in Items
    BY <1>5 DEF WatchTypes, SavedLists, Items
  <2>2. ClientGoes(c, "write") /\ client'[c].read.items = others \cup {[key |-> k, changed |-> TRUE]}
    BY <1>3, <1>5, <2>1
  <2>3. PICK j \in w.items : j \notin others
    BY <1>5
  <2>4. client'[c].read.items \subseteq (w.items \ {j}) \cup {[key |-> k, changed |-> TRUE]}
    BY <2>2, <2>3
  <2> QED
    BY <1>5, <2>2, <2>3, <2>4 DEF ClientGoes
<1>6. CASE /\ l \in DOMAIN lists /\ client[c].at = "remove"
           /\ Continues(c, "write", [w EXCEPT !.items = others])
  <2>1. w.items \subseteq Items
    BY <1>6 DEF WatchTypes, SavedLists
  <2>2. ClientGoes(c, "write") /\ client'[c].read.items = others
    BY <1>3, <1>6, <2>1
  <2> QED
    BY <1>6, <2>2
<1>7. ASSUME l \in DOMAIN lists, ~Answered(c), client[c].at # "rename"
      PROVE  (others # w.items) # (client[c].at = "add")
  BY <1>7 DEF FindWatchlist
<1>8. CASE client[c].at = "rename"
  BY <1>1, <1>2, <1>8 DEF FindWatchlist
<1>9. CASE client[c].at = "add"
  BY <1>1, <1>4, <1>9 DEF FindWatchlist
<1>10. CASE client[c].at = "change"
  BY <1>1, <1>5, <1>7, <1>10 DEF FindWatchlist
<1>11. CASE client[c].at = "remove"
  BY <1>1, <1>6, <1>11 DEF FindWatchlist
<1> QED
  BY <1>0, <1>8, <1>9, <1>10, <1>11

(* A request begins, and meets those under way. *)
LEMMA BeginMoves ==
    ASSUME WatchTypes, NEW c \in Clients, NEW q \in WatchRequests, Begin(c, q),
           q.at \in {"count", "rename", "delete", "add", "change", "remove"},
           q.at \in {"add", "change"} => q.item \in ItemKeys
    PROVE  WatchMoves
<1>1. /\ client[c].at = "idle" /\ client' = [client EXCEPT ![c] = q]
      /\ overlapped' = (overlapped \/ \E d \in Clients : client[d].at # "idle")
      /\ UNCHANGED <<driver, lists, created>>
  BY DEF Begin
<1>2. client'[c] = q /\ client' \in [Clients -> WatchRequests]
      /\ \A d \in Clients \ {c} : client'[d] = client[d]
  BY <1>1 DEF WatchTypes
<1> QED
  BY <1>1, <1>2 DEF WatchMoves

(* Every step of the specification is one of these. *)
LEMMA WatchSteps ==
    ASSUME WatchTypes, [WatchNext]_watchVars
    PROVE  WatchMoves
<1>r. ASSUME NEW at \in WatchCalls, NEW n \in Names \cup {"none"}
      PROVE  /\ [NoClientRequest EXCEPT !.at = at, !.name = n] \in WatchRequests
             /\ [NoClientRequest EXCEPT !.at = at, !.name = n].at = at
  BY DEF NoClientRequest, WatchRequests, SavedLists, NoList
<1>s. ASSUME NEW at \in WatchCalls, NEW l \in Nat, NEW n \in Names \cup {"none"}
      PROVE  /\ [NoClientRequest EXCEPT !.at = at, !.list = l, !.name = n] \in WatchRequests
             /\ [NoClientRequest EXCEPT !.at = at, !.list = l, !.name = n].at = at
  BY DEF NoClientRequest, WatchRequests, SavedLists, NoList
<1>l. \A l \in DOMAIN lists : l \in Nat
  BY DEF WatchTypes
<1>1. ASSUME NEW c \in Clients, NEW n \in Names, CreateWatchlist(c, n) PROVE WatchMoves
  <2> DEFINE q == [NoClientRequest EXCEPT !.at = "count", !.name = n]
  <2>1. q \in WatchRequests /\ q.at = "count" /\ Begin(c, q)
    BY <1>1, <1>r DEF WatchCalls, CreateWatchlist
  <2> HIDE DEF q
  <2> QED
    BY <2>1, BeginMoves
<1>2. ASSUME NEW c \in Clients, NEW l \in DOMAIN lists, NEW n \in Names \cup {"none"},
             NEW what \in {"rename", "delete"}, OnList(c, what, l, n)
      PROVE  WatchMoves
  <2> DEFINE q == [NoClientRequest EXCEPT !.at = what, !.list = l, !.name = n]
  <2>1. q \in WatchRequests /\ q.at = what /\ Begin(c, q)
    <3>1. what \in WatchCalls /\ l \in Nat
      BY <1>2, <1>l DEF WatchCalls
    <3>2. q \in WatchRequests /\ q.at = what
      BY <3>1, <1>s
    <3> QED
      BY <1>2, <3>2 DEF OnList
  <2> HIDE DEF q
  <2> QED
    BY <2>1, BeginMoves
<1>3. ASSUME NEW c \in Clients, NEW l \in DOMAIN lists, NEW k \in ItemKeys,
             NEW what \in {"add", "change", "remove"}, OnItem(c, what, l, k)
      PROVE  WatchMoves
  <2> DEFINE q == [NoClientRequest EXCEPT !.at = what, !.list = l, !.item = k]
  <2>1. q \in WatchRequests /\ q.at = what /\ q.item = k /\ Begin(c, q)
    <3>1. what \in WatchCalls /\ l \in Nat /\ k \in ItemKeys \cup {"none"}
      BY <1>3, <1>l DEF WatchCalls
    <3>2. q \in WatchRequests /\ q.at = what /\ q.item = k
      BY <3>1 DEF NoClientRequest, WatchRequests, SavedLists, NoList
    <3> QED
      BY <1>3, <3>2 DEF OnItem
  <2> HIDE DEF q
  <2> QED
    BY <2>1, BeginMoves
<1>4. ASSUME NEW c \in Clients, CountWatchlists(c) PROVE WatchMoves
  <2>1. client[c].at = "count" /\ UNCHANGED <<driver, lists, created, overlapped>>
    BY <1>4 DEF CountWatchlists
  <2>2. CASE Answered(c)
    BY <2>1, <2>2, AnsweredMoves DEF WatchMoves
  <2>3. CASE ~Reached(Cardinality(DOMAIN lists), MaxWatchlists) /\ Continues(c, "create", NoList)
    <3>1. NoList \in SavedLists
      BY DEF NoList, SavedLists
    <3>2. ClientGoes(c, "create")
      BY <2>1, <2>3, <3>1, ContinuesMoves DEF WatchCalls
    <3>3. IsFiniteSet(DOMAIN lists)
      <4>1. 1 \in Int /\ created \in Int /\ DOMAIN lists \subseteq 1..created
        BY DEF WatchTypes
      <4>2. IsFiniteSet(1..created)
        BY <4>1, FS_Interval
      <4> QED
        BY <4>1, <4>2, FS_Subset
    <3>4. Cardinality(DOMAIN lists) < MaxWatchlists
      BY <2>3, <3>3, FS_CardinalityType, LimitsAssumption DEF Reached
    <3> QED
      BY <2>1, <3>2, <3>4 DEF WatchMoves
  <2> QED
    BY <1>4, <2>2, <2>3 DEF CountWatchlists
<1>5. ASSUME NEW c \in Clients, InsertWatchlist(c) PROVE WatchMoves
  BY <1>5, AnsweredMoves DEF InsertWatchlist, WatchMoves, ListsWith
<1>6. ASSUME NEW c \in Clients, DeleteWatchlist(c) PROVE WatchMoves
  BY <1>6, AnsweredMoves DEF DeleteWatchlist, WatchMoves
<1>7. ASSUME NEW c \in Clients, FindWatchlist(c) PROVE WatchMoves
  <2>1. client[c].at \in {"rename", "add", "change", "remove"}
        /\ UNCHANGED <<driver, lists, created, overlapped>>
    BY <1>7 DEF FindWatchlist
  <2> QED
    BY <1>7, <2>1, FoundTyped DEF WatchMoves
<1>8. ASSUME NEW c \in Clients, TotalItems(c) PROVE WatchMoves
  <2>1. client[c].at = "total" /\ UNCHANGED <<driver, lists, created, overlapped>>
    BY <1>8 DEF TotalItems
  <2>2. CASE Answered(c)
    BY <2>1, <2>2, AnsweredMoves DEF WatchMoves
  <2>3. CASE ~Reached(Total, MaxItems) /\ Continues(c, "write", client[c].read)
    <3>1. client[c].read \in SavedLists
      BY DEF WatchTypes, WatchRequests
    <3>2. ClientGoes(c, "write") /\ client'[c].read = client[c].read
      BY <2>1, <2>3, <3>1, ContinuesMoves DEF WatchCalls
    <3> QED
      BY <2>1, <2>3, <3>2 DEF WatchMoves
  <2> QED
    BY <1>8, <2>2, <2>3 DEF TotalItems
<1>9. ASSUME NEW c \in Clients, WriteWatchlist(c) PROVE WatchMoves
  BY <1>9, AnsweredMoves DEF WriteWatchlist, WatchMoves
<1> QED
  BY <1>1, <1>2, <1>3, <1>4, <1>5, <1>6, <1>7, <1>8, <1>9 DEF WatchNext, ClientStep, WatchMoves

(* A list is added; there are no more items. *)
LEMMA InsertedTyped ==
    ASSUME WatchTypes, NEW n \in Names \cup {"none"},
           lists' = ListsWith(n)
    PROVE  /\ DOMAIN lists' = DOMAIN lists \cup {created + 1} /\ created + 1 \notin DOMAIN lists
           /\ lists' \in [DOMAIN lists' -> SavedLists]
           /\ SavedItems' = SavedItems
<1> DEFINE w == [name |-> n, items |-> {}]
<1>1. w \in SavedLists /\ w.items = {}
  BY DEF SavedLists
<1>2. /\ lists' = [l \in DOMAIN lists \cup {created + 1} |-> IF l = created + 1 THEN w ELSE lists[l]]
      /\ lists \in [DOMAIN lists -> SavedLists]
      /\ created + 1 \notin DOMAIN lists
  BY DEF WatchTypes, ListsWith
<1> HIDE DEF w
<1>4. /\ DOMAIN lists' = DOMAIN lists \cup {created + 1}
      /\ lists'[created + 1] = w /\ \A l \in DOMAIN lists : lists'[l] = lists[l]
      /\ lists' \in [DOMAIN lists' -> SavedLists]
  BY <1>1, <1>2
<1>5. SavedItems' = {p \in (DOMAIN lists') \X Items : p[2] \in lists'[p[1]].items}
  BY DEF SavedItems
<1>6. SavedItems' = SavedItems
  BY <1>1, <1>4, <1>5 DEF SavedItems
<1> QED
  BY <1>2, <1>4, <1>6

(* A list is deleted, with its items. *)
LEMMA DeletedTyped ==
    ASSUME WatchTypes, NEW l, lists' = [m \in (DOMAIN lists) \ {l} |-> lists[m]]
    PROVE  /\ DOMAIN lists' = DOMAIN lists \ {l}
           /\ lists' \in [DOMAIN lists' -> SavedLists]
           /\ SavedItems' \subseteq SavedItems
<1>1. /\ DOMAIN lists' = DOMAIN lists \ {l}
      /\ lists' \in [DOMAIN lists' -> SavedLists]
      /\ \A m \in DOMAIN lists' : lists'[m] = lists[m]
  BY DEF WatchTypes
<1>2. SavedItems' = {p \in (DOMAIN lists') \X Items : p[2] \in lists'[p[1]].items}
  BY DEF SavedItems
<1> QED
  BY <1>1, <1>2 DEF SavedItems

(* A list is written as the request read and changed it. *)
LEMMA WrittenTyped ==
    ASSUME WatchTypes, NEW c \in Clients, client[c].list \in DOMAIN lists,
           UpdateWatchlist(client[c].list, client[c].read)
    PROVE  /\ DOMAIN lists' = DOMAIN lists
           /\ lists' \in [DOMAIN lists' -> SavedLists]
           /\ SavedItems' \in {SavedItems, ItemsAfter(c)}
<1> DEFINE l == client[c].list
           w == client[c].read
           v == IF driver = "postgres" THEN [lists[l] EXCEPT !.name = w.name] ELSE w
<1>1. w \in SavedLists /\ lists[l] \in SavedLists
  BY DEF WatchTypes, WatchRequests
<1>2. v \in SavedLists /\ v.items \in {lists[l].items, w.items}
  BY <1>1 DEF SavedLists
<1>3. lists' = [lists EXCEPT ![l] = v]
  BY DEF UpdateWatchlist
<1>4. w.items \subseteq Items
  BY <1>1 DEF SavedLists
<1> HIDE DEF v
<1>5. /\ DOMAIN lists' = DOMAIN lists /\ lists' \in [DOMAIN lists' -> SavedLists]
      /\ lists'[l] = v /\ \A m \in DOMAIN lists \ {l} : lists'[m] = lists[m]
  BY <1>2, <1>3 DEF WatchTypes
<1>6. SavedItems' = {p \in (DOMAIN lists') \X Items : p[2] \in lists'[p[1]].items}
  BY DEF SavedItems
<1>7. CASE v.items = lists[l].items
  <2>1. SavedItems' = SavedItems
    BY <1>5, <1>6, <1>7 DEF SavedItems
  <2> QED
    BY <1>5, <2>1
<1>8. CASE v.items = w.items
  <2>1. \A p \in (DOMAIN lists) \X Items :
            p[2] \in lists'[p[1]].items <=> IF p[1] = l THEN p[2] \in w.items ELSE p[2] \in lists[p[1]].items
    BY <1>5, <1>8
  <2>2. SavedItems' \subseteq ItemsAfter(c)
    BY <1>5, <1>6, <2>1 DEF SavedItems, ItemsAfter
  <2>3. ItemsAfter(c) \subseteq SavedItems'
    <3>1. ASSUME NEW p \in ItemsAfter(c) PROVE p \in SavedItems'
      <4>1. CASE p \in SavedItems /\ p[1] # l
        BY <1>5, <1>6, <2>1, <4>1 DEF SavedItems
      <4>2. CASE p \in {l} \X w.items
        <5>1. p \in (DOMAIN lists) \X Items /\ p[1] = l /\ p[2] \in w.items
          BY <1>4, <4>2
        <5> QED
          BY <1>5, <1>6, <2>1, <5>1
      <4> QED
        BY <3>1, <4>1, <4>2 DEF ItemsAfter
    <3> QED
      BY <3>1
  <2> QED
    BY <1>5, <2>2, <2>3
<1> QED
  BY <1>2, <1>7, <1>8

(* What one step does to the lists. *)
ListMoves ==
    \/ UNCHANGED <<lists, created>>
    \/ /\ created' = created + 1
       /\ DOMAIN lists' = DOMAIN lists \cup {created + 1} /\ created + 1 \notin DOMAIN lists
       /\ SavedItems' = SavedItems
       /\ \E c \in Clients : client[c].at = "create" /\ ClientGoes(c, "idle")
    \/ /\ created' = created
       /\ DOMAIN lists' \subseteq DOMAIN lists
       /\ SavedItems' \subseteq SavedItems
       /\ \E c \in Clients : client[c].at = "delete" /\ ClientGoes(c, "idle")
    \/ /\ created' = created
       /\ DOMAIN lists' = DOMAIN lists
       /\ \E c \in Clients :
             /\ client[c].at = "write" /\ ClientGoes(c, "idle") /\ client[c].list \in DOMAIN lists
             /\ SavedItems' \in {SavedItems, ItemsAfter(c)}

(* So the steps of requests do this to the lists. *)
LEMMA ListsMove ==
    ASSUME WatchTypes, WatchMoves
    PROVE  ListMoves /\ lists' \in [DOMAIN lists' -> SavedLists]
<1>0. UNCHANGED lists => lists' \in [DOMAIN lists' -> SavedLists]
  BY DEF WatchTypes
<1>1. ASSUME NEW c \in Clients, client[c].at = "create", ClientGoes(c, "idle"), created' = created + 1,
             lists' = ListsWith(client[c].name)
      PROVE  ListMoves /\ lists' \in [DOMAIN lists' -> SavedLists]
  <2>1. client[c].name \in Names \cup {"none"}
    BY DEF WatchTypes, WatchRequests
  <2> QED
    BY <1>1, <2>1, InsertedTyped DEF ListMoves
<1>2. ASSUME NEW c \in Clients, client[c].at = "delete", ClientGoes(c, "idle"), created' = created,
             lists' = [m \in (DOMAIN lists) \ {client[c].list} |-> lists[m]]
      PROVE  ListMoves /\ lists' \in [DOMAIN lists' -> SavedLists]
  <2>1. PICK l : l = client[c].list
    OBVIOUS
  <2>2. /\ DOMAIN lists' = DOMAIN lists \ {l}
        /\ lists' \in [DOMAIN lists' -> SavedLists]
        /\ SavedItems' \subseteq SavedItems
    BY <1>2, <2>1, DeletedTyped
  <2> QED
    BY <1>2, <2>2 DEF ListMoves
<1>3. ASSUME NEW c \in Clients, client[c].at = "write", ClientGoes(c, "idle"), created' = created,
             client[c].list \in DOMAIN lists, UpdateWatchlist(client[c].list, client[c].read)
      PROVE  ListMoves /\ lists' \in [DOMAIN lists' -> SavedLists]
  BY <1>3, WrittenTyped DEF ListMoves
<1>4. UNCHANGED <<lists, created>> => ListMoves
  BY DEF ListMoves
<1> QED
  BY <1>0, <1>1, <1>2, <1>3, <1>4 DEF WatchMoves, watchVars

(* The types are kept. *)
LEMMA WatchTyped ==
    ASSUME WatchTypes, WatchMoves
    PROVE  WatchTypes'
<1>1. lists' \in [DOMAIN lists' -> SavedLists] /\ ListMoves
  BY ListsMove
<1>2. created' \in Nat /\ DOMAIN lists' \subseteq 1..created'
  BY <1>1 DEF ListMoves, WatchTypes
<1>3. client' \in [Clients -> WatchRequests]
  BY DEF WatchMoves, WatchTypes, ClientGoes, watchVars
<1>4. \A c \in Clients : client'[c].at \in {"add", "change"} => client'[c].item \in ItemKeys
  BY DEF WatchMoves, WatchTypes, ClientGoes, watchVars
<1>5. overlapped' \in BOOLEAN
  BY Zenon DEF WatchMoves, WatchTypes, watchVars
<1> QED
  BY <1>1, <1>2, <1>3, <1>4, <1>5 DEF WatchTypes

(* How many requests are about to add a list, after one of them has moved. *)
LEMMA CreatingMoves ==
    ASSUME NEW c \in Clients, \A d \in Clients \ {c} : client'[d] = client[d]
    PROVE  /\ Cardinality(Creating) \in Nat /\ Cardinality(Creating') \in Nat
           /\ Cardinality(Clients) \in Nat /\ Cardinality(Creating') <= Cardinality(Clients)
           /\ client[c].at # "create" /\ client'[c].at # "create"
                  => Cardinality(Creating') = Cardinality(Creating)
           /\ client[c].at = "create" /\ client'[c].at # "create"
                  => Cardinality(Creating') = Cardinality(Creating) - 1
<1> DEFINE A == Creating
           B == Creating'
<1>1. /\ A \ {c} = B \ {c} /\ A \subseteq Clients /\ B \subseteq Clients
      /\ c \in A <=> client[c].at = "create"
      /\ c \in B <=> client'[c].at = "create"
  BY DEF Creating
<1> HIDE DEF A, B
<1>2. /\ IsFiniteSet(A) /\ IsFiniteSet(B) /\ Cardinality(B) <= Cardinality(Clients)
      /\ Cardinality(A) \in Nat /\ Cardinality(B) \in Nat /\ Cardinality(Clients) \in Nat
  BY <1>1, ClientsAssumption, FS_Subset, FS_CardinalityType
<1>3. c \notin A /\ c \notin B => Cardinality(B) = Cardinality(A)
  <2>1. c \notin A /\ c \notin B => A = B
    BY <1>1
  <2> QED
    BY <2>1
<1>4. c \in A /\ c \notin B => Cardinality(B) = Cardinality(A) - 1
  <2>1. c \in A /\ c \notin B => B = A \ {c}
    BY <1>1
  <2>2. c \in A => Cardinality(A) = Cardinality(A \ {c}) + 1 /\ Cardinality(A \ {c}) \in Nat
    BY <1>2, OneLess
  <2> QED
    BY <1>2, <2>1, <2>2
<1> QED
  BY <1>1, <1>2, <1>3, <1>4 DEF A, B

(* Room for a list is found below the limit only. *)
LEMMA ListCountKept ==
    ASSUME WatchTypes, ListCount, WatchMoves
    PROVE  ListCount'
<1> DEFINE a == Cardinality(Creating)
           b == Cardinality(Creating')
           m == Cardinality(DOMAIN lists)
           k == Cardinality(DOMAIN lists')
           n == Cardinality(Clients)
<1>u. /\ IsFiniteSet(DOMAIN lists) /\ m + a < MaxWatchlists + n /\ m \in Nat
      /\ MaxWatchlists \in Nat \ {0} /\ ListMoves
  BY LimitsAssumption, ListsMove, FS_CardinalityType DEF ListCount
<1>q. IsFiniteSet(DOMAIN lists') /\ k + b < MaxWatchlists + n => ListCount'
  BY DEF ListCount
<1>1. ASSUME NEW c \in Clients, \A d \in Clients \ {c} : client'[d] = client[d]
      PROVE  /\ a \in Nat /\ b \in Nat /\ n \in Nat /\ b <= n
             /\ client[c].at # "create" /\ client'[c].at # "create" => b = a
             /\ client[c].at = "create" /\ client'[c].at # "create" => b = a - 1
  BY <1>1, CreatingMoves
<1>2. /\ IsFiniteSet(DOMAIN lists') /\ k \in Nat
      /\ (DOMAIN lists' \subseteq DOMAIN lists => k <= m)
      /\ \A x : DOMAIN lists' = DOMAIN lists \cup {x} /\ x \notin DOMAIN lists => k = m + 1
  <2>1. DOMAIN lists' \subseteq DOMAIN lists \/ \E x : DOMAIN lists' = DOMAIN lists \cup {x}
    BY <1>u DEF ListMoves
  <2>2. IsFiniteSet(DOMAIN lists')
    BY <1>u, <2>1, FS_Subset, FS_AddElement
  <2> QED
    BY <1>u, <2>2, FS_Subset, FS_CardinalityType, OneMore
<1>3. ((UNCHANGED client) => b = a) /\ ((UNCHANGED lists) => k = m)
  BY DEF Creating
<1> HIDE DEF a, b, m, k, n
<1>4. CASE UNCHANGED watchVars
  <2>1. b = a /\ k = m
    BY <1>3, <1>4 DEF watchVars
  <2> QED
    BY <1>u, <1>q, <1>2, <2>1
<1>5. ASSUME NEW c \in Clients, client[c].at # "create", client'[c].at # "create",
             \A d \in Clients \ {c} : client'[d] = client[d], DOMAIN lists' \subseteq DOMAIN lists
      PROVE  ListCount'
  BY <1>u, <1>q, <1>1, <1>2, <1>5
<1>6. ASSUME NEW c \in Clients, client[c].at = "count", ClientGoes(c, "create"),
             Cardinality(DOMAIN lists) < MaxWatchlists, UNCHANGED lists
      PROVE  ListCount'
  <2>1. m < MaxWatchlists /\ k <= m
    BY <1>2, <1>6 DEF m
  <2>2. b \in Nat /\ n \in Nat /\ b <= n
    BY <1>1, <1>6 DEF ClientGoes
  <2> QED
    BY <1>u, <1>q, <1>2, <2>1, <2>2
<1>7. ASSUME NEW c \in Clients, client[c].at = "create", ClientGoes(c, "idle"),
             DOMAIN lists' = DOMAIN lists \cup {created + 1}, created + 1 \notin DOMAIN lists
      PROVE  ListCount'
  <2>1. a \in Nat /\ b \in Nat /\ n \in Nat /\ b = a - 1
    BY <1>1, <1>7 DEF ClientGoes
  <2>2. k = m + 1
    BY <1>2, <1>7
  <2> QED
    BY <1>u, <1>q, <1>2, <2>1, <2>2
<1>8. CASE ListMoves /\ ~UNCHANGED <<lists, created>>
  BY <1>5, <1>7, <1>8 DEF ListMoves, ClientGoes
<1>9. CASE UNCHANGED lists
  <2>1. DOMAIN lists' \subseteq DOMAIN lists
    BY <1>9
  <2>2. ASSUME NEW c \in Clients, client[c].at # "create", NEW label \in WatchCalls \ {"create"},
               ClientGoes(c, label)
        PROVE  ListCount'
    BY <1>5, <2>1, <2>2 DEF ClientGoes
  <2>3. ASSUME NEW c \in Clients, client[c].at = "idle",
               client'[c].at \in {"count", "rename", "delete", "add", "change", "remove"},
               \A d \in Clients \ {c} : client'[d] = client[d]
        PROVE  ListCount'
    BY <1>5, <2>1, <2>3
  <2>4. CASE \E c \in Clients : client[c].at = "create" /\ ClientGoes(c, "idle")
             /\ lists' = ListsWith(client[c].name)
    <3>1. PICK x : lists' = ListsWith(x)
      BY <2>4
    <3>2. created + 1 \in DOMAIN lists
      BY <1>9, <3>1 DEF ListsWith
    <3> QED
      BY <3>2 DEF WatchTypes
  <2>5. {"idle", "write", "total"} \subseteq WatchCalls \ {"create"}
    BY DEF WatchCalls
  <2>6. \/ UNCHANGED watchVars
        \/ \E c \in Clients :
              /\ client[c].at = "idle"
              /\ client'[c].at \in {"count", "rename", "delete", "add", "change", "remove"}
              /\ \A d \in Clients \ {c} : client'[d] = client[d]
        \/ \E c \in Clients, label \in {"idle", "write", "total"} :
              client[c].at # "create" /\ ClientGoes(c, label)
        \/ \E c \in Clients : client[c].at = "count" /\ ClientGoes(c, "create")
                              /\ Cardinality(DOMAIN lists) < MaxWatchlists
        \/ \E c \in Clients : client[c].at = "create" /\ ClientGoes(c, "idle")
                              /\ lists' = ListsWith(client[c].name)
    BY DEF WatchMoves
  <2> QED
    BY <1>4, <1>6, <1>9, <2>2, <2>3, <2>4, <2>5, <2>6
<1>10. CASE UNCHANGED <<lists, created>>
  BY <1>9, <1>10
<1> QED
  BY <1>u, <1>8, <1>10

(* A subset of a set and one more element has at most one more. *)
LEMMA AddedAtMost ==
    ASSUME NEW S, NEW T, NEW x, IsFiniteSet(S), T \subseteq S \cup {x}
    PROVE  /\ IsFiniteSet(T) /\ Cardinality(T) \in Nat /\ Cardinality(S) \in Nat
           /\ Cardinality(T) <= Cardinality(S) + 1
<1>1. /\ IsFiniteSet(S \cup {x}) /\ Cardinality(S) \in Nat
      /\ Cardinality(S \cup {x}) \in {Cardinality(S), Cardinality(S) + 1}
  BY FS_AddElement, FS_CardinalityType
<1>2. /\ IsFiniteSet(T) /\ Cardinality(T) <= Cardinality(S \cup {x}) /\ Cardinality(T) \in Nat
  BY <1>1, FS_Subset, FS_CardinalityType
<1> QED
  BY <1>1, <1>2

(* The items after a request has written the list it changed. *)
LEMMA FoundCounts ==
    ASSUME WatchTypes, IsFiniteSet(SavedItems), NEW c \in Clients, FindWatchlist(c),
           NEW label \in {"write", "total"}, ClientGoes(c, label), UNCHANGED lists
    PROVE  /\ client[c].list \in DOMAIN lists
           /\ IsFiniteSet(ItemsAfter(c)')
           /\ Cardinality(ItemsAfter(c)') <= Total + 1
           /\ label = "write" => Cardinality(ItemsAfter(c)') <= Total
<1> DEFINE l == client[c].list
           old == lists[l].items
           new == client'[c].read.items
           N == ItemsAfter(c)'
<1>1. /\ l \in DOMAIN lists
      /\ \/ new \subseteq old
         \/ label = "total" /\ \E i : new \subseteq old \cup {i}
         \/ label = "write" /\ \E i : \E j \in old : new \subseteq (old \ {j}) \cup {i}
  BY FoundTyped DEF ClientGoes
<1>2. /\ N = {p \in SavedItems : p[1] # l} \cup ({l} \X new)
  <2>1. SavedItems' = SavedItems
    BY DEF SavedItems
  <2>2. client'[c].list = l
    BY DEF ClientGoes
  <2> QED
    BY <2>1, <2>2 DEF ItemsAfter
<1>3. old \subseteq Items
  BY <1>1 DEF WatchTypes, SavedLists
<1>4. \A i \in old : <<l, i>> \in SavedItems
  BY <1>1, <1>3 DEF SavedItems
<1> HIDE DEF l, old, new, N
<1>5. Total = Cardinality(SavedItems) /\ Total \in Nat
  BY FS_CardinalityType DEF Total, SavedItems
<1>6. CASE new \subseteq old
  <2>1. N \subseteq SavedItems
    BY <1>2, <1>4, <1>6
  <2>2. IsFiniteSet(N) /\ Cardinality(N) <= Total /\ Cardinality(N) \in Nat
    BY <1>5, <2>1, FS_Subset, FS_CardinalityType
  <2> QED
    BY <1>1, <1>5, <2>2 DEF l, N
<1>7. CASE label = "total" /\ \E i : new \subseteq old \cup {i}
  <2>1. PICK i : new \subseteq old \cup {i}
    BY <1>7
  <2>2. N \subseteq SavedItems \cup {<<l, i>>}
    BY <1>2, <1>4, <2>1
  <2>3. IsFiniteSet(N) /\ Cardinality(N) <= Total + 1
    BY <1>5, <2>2, AddedAtMost
  <2> QED
    BY <1>1, <1>7, <2>3 DEF l, N
<1>8. CASE label = "write" /\ \E i : \E j \in old : new \subseteq (old \ {j}) \cup {i}
  <2>1. PICK i, j : j \in old /\ new \subseteq (old \ {j}) \cup {i}
    BY <1>8
  <2>2. <<l, j>> \in SavedItems
    BY <1>4, <2>1
  <2>3. N \subseteq (SavedItems \ {<<l, j>>}) \cup {<<l, i>>}
    BY <1>2, <1>4, <2>1
  <2>4. IsFiniteSet(SavedItems \ {<<l, j>>})
        /\ Total = Cardinality(SavedItems \ {<<l, j>>}) + 1
    BY <1>5, <2>2, OneLess, FS_RemoveElement
  <2>5. IsFiniteSet(N) /\ Cardinality(N) <= Cardinality(SavedItems \ {<<l, j>>}) + 1
        /\ Cardinality(N) \in Nat
    BY <2>3, <2>4, AddedAtMost
  <2> QED
    BY <1>1, <1>5, <2>4, <2>5 DEF l, N
<1> QED
  BY <1>1, <1>6, <1>7, <1>8

(* What a step of the one request there is leaves. *)
LEMMA AloneAfter ==
    ASSUME WatchTypes, AloneIsWithin, ~overlapped, NEW c \in Clients, NEW label \in WatchCalls,
           ClientGoes(c, label),
           IsFiniteSet(SavedItems'), Cardinality(SavedItems') <= MaxItems,
           Cardinality(DOMAIN lists') <= MaxWatchlists,
           label = "create" => Cardinality(DOMAIN lists') < MaxWatchlists,
           label \in {"total", "write"} => client'[c].list \in DOMAIN lists' /\ IsFiniteSet(ItemsAfter(c)'),
           label = "total" => Cardinality(ItemsAfter(c)') <= Total' + 1,
           label = "write" => Cardinality(ItemsAfter(c)') <= MaxItems
    PROVE  AloneIsWithin'
<1>1. \A d \in Clients \ {c} : client[d].at = "idle" /\ client'[d].at = "idle"
  BY DEF AloneIsWithin, ClientGoes
<1>2. Total' = Cardinality(SavedItems')
  BY DEF Total, SavedItems
<1>3. client'[c].at = label
  BY DEF ClientGoes
<1> QED
  BY <1>1, <1>2, <1>3, Zenon DEF AloneIsWithin

(* A request that is alone stays within the plan. *)
LEMMA AloneKept ==
    ASSUME WatchTypes, ListCount, AloneIsWithin, WatchMoves
    PROVE  AloneIsWithin'
<1> SUFFICES ASSUME ~overlapped' PROVE AloneIsWithin'
  BY DEF AloneIsWithin
<1>0. ~overlapped
  BY DEF WatchMoves, watchVars
<1>u. /\ IsFiniteSet(SavedItems) /\ Total <= MaxItems /\ Total = Cardinality(SavedItems)
      /\ Total \in Nat /\ MaxItems \in Nat \ {0} /\ MaxWatchlists \in Nat \ {0}
      /\ IsFiniteSet(DOMAIN lists) /\ Cardinality(DOMAIN lists) \in Nat
      /\ Cardinality(DOMAIN lists) <= MaxWatchlists
  BY <1>0, LimitsAssumption, FS_CardinalityType DEF AloneIsWithin, ListCount, Total, SavedItems
<1>s. (UNCHANGED lists) => SavedItems' = SavedItems /\ Total' = Total
  BY DEF SavedItems, Total
<1>c. {"idle", "write", "total", "create"} \subseteq WatchCalls
  BY DEF WatchCalls
<1>1. CASE UNCHANGED watchVars
  <2>1. UNCHANGED <<lists, client, overlapped>>
    BY <1>1 DEF watchVars
  <2> QED
    BY <2>1 DEF AloneIsWithin, SavedItems, ItemsAfter, Total
<1>2. CASE /\ \E c \in Clients :
                 /\ client[c].at = "idle"
                 /\ client'[c].at \in {"count", "rename", "delete", "add", "change", "remove"}
                 /\ \A d \in Clients \ {c} : client'[d] = client[d]
                 /\ overlapped' = (overlapped \/ \E d \in Clients : client[d].at # "idle")
           /\ UNCHANGED lists
  <2>1. PICK c \in Clients :
                 /\ client'[c].at \in {"count", "rename", "delete", "add", "change", "remove"}
                 /\ \A d \in Clients \ {c} : client'[d].at = "idle"
    BY <1>2
  <2> QED
    BY <1>s, <1>u, <1>2, <2>1 DEF AloneIsWithin
<1>3. ASSUME NEW c \in Clients, NEW label \in {"idle", "create"}, ClientGoes(c, label),
             label = "create" => Cardinality(DOMAIN lists) < MaxWatchlists, UNCHANGED lists
      PROVE  AloneIsWithin'
  BY <1>0, <1>s, <1>u, <1>c, <1>3, AloneAfter
<1>4. ASSUME NEW c \in Clients, client[c].at = "create", ClientGoes(c, "idle"),
             lists' = ListsWith(client[c].name)
      PROVE  AloneIsWithin'
  <2>1. client[c].name \in Names \cup {"none"}
    BY DEF WatchTypes, WatchRequests
  <2>2. /\ DOMAIN lists' = DOMAIN lists \cup {created + 1} /\ created + 1 \notin DOMAIN lists
        /\ SavedItems' = SavedItems
    BY <1>4, <2>1, InsertedTyped
  <2>3. Cardinality(DOMAIN lists) < MaxWatchlists
    BY <1>0, <1>4 DEF AloneIsWithin
  <2>4. Cardinality(DOMAIN lists') = Cardinality(DOMAIN lists) + 1
    BY <1>u, <2>2, OneMore
  <2>5. Cardinality(DOMAIN lists') <= MaxWatchlists
    BY <1>u, <2>3, <2>4
  <2> QED
    BY <1>0, <1>u, <1>c, <1>4, <2>2, <2>5, AloneAfter
<1>5. ASSUME NEW c \in Clients, ClientGoes(c, "idle"), DOMAIN lists' \subseteq DOMAIN lists,
             SavedItems' \subseteq SavedItems
      PROVE  AloneIsWithin'
  <2>1. IsFiniteSet(SavedItems') /\ Cardinality(SavedItems') <= Cardinality(SavedItems)
        /\ Cardinality(SavedItems') \in Nat
    BY <1>u, <1>5, FS_Subset, FS_CardinalityType
  <2>2. Cardinality(DOMAIN lists') <= Cardinality(DOMAIN lists) /\ Cardinality(DOMAIN lists') \in Nat
    BY <1>u, <1>5, FS_Subset, FS_CardinalityType
  <2>3. Cardinality(SavedItems') <= MaxItems /\ Cardinality(DOMAIN lists') <= MaxWatchlists
    BY <1>u, <2>1, <2>2
  <2> QED
    BY <1>0, <1>c, <1>5, <2>1, <2>3, AloneAfter
<1>6. ASSUME NEW c \in Clients, NEW label \in {"write", "total"}, FindWatchlist(c), ClientGoes(c, label),
             UNCHANGED lists
      PROVE  AloneIsWithin'
  <2>1. /\ client[c].list \in DOMAIN lists
        /\ IsFiniteSet(ItemsAfter(c)')
        /\ Cardinality(ItemsAfter(c)') <= Total + 1
        /\ label = "write" => Cardinality(ItemsAfter(c)') <= Total
    BY <1>u, <1>6, FoundCounts
  <2>2. Cardinality(ItemsAfter(c)') \in Nat
    BY <2>1, FS_CardinalityType
  <2>3. label = "write" => Cardinality(ItemsAfter(c)') <= MaxItems
    BY <1>u, <2>1, <2>2
  <2>4. client'[c].list = client[c].list
    BY <1>6 DEF ClientGoes
  <2> QED
    BY <1>0, <1>s, <1>u, <1>c, <1>6, <2>1, <2>3, <2>4, AloneAfter
<1>7. ASSUME NEW c \in Clients, client[c].at = "total", ClientGoes(c, "write"),
             client'[c].read = client[c].read, ~Reached(Total, MaxItems), UNCHANGED lists
      PROVE  AloneIsWithin'
  <2>1. client'[c].list = client[c].list
    BY <1>7 DEF ClientGoes
  <2>2. ItemsAfter(c)' = ItemsAfter(c)
    BY <1>s, <1>7, <2>1 DEF ItemsAfter
  <2>3. /\ client[c].list \in DOMAIN lists /\ IsFiniteSet(ItemsAfter(c))
        /\ Cardinality(ItemsAfter(c)) <= Total + 1
    BY <1>0, <1>7 DEF AloneIsWithin
  <2>4. Cardinality(ItemsAfter(c)) \in Nat /\ Total < MaxItems
    BY <1>u, <1>7, <2>3, FS_CardinalityType DEF Reached
  <2>5. Cardinality(ItemsAfter(c)) <= MaxItems
    BY <1>u, <2>3, <2>4
  <2> QED
    BY <1>0, <1>s, <1>u, <1>c, <1>7, <2>1, <2>2, <2>3, <2>5, AloneAfter
<1>8. ASSUME NEW c \in Clients, client[c].at = "write", ClientGoes(c, "idle"),
             client[c].list \in DOMAIN lists, UpdateWatchlist(client[c].list, client[c].read)
      PROVE  AloneIsWithin'
  <2>1. DOMAIN lists' = DOMAIN lists /\ SavedItems' \in {SavedItems, ItemsAfter(c)}
    BY <1>8, WrittenTyped
  <2>2. IsFiniteSet(ItemsAfter(c)) /\ Cardinality(ItemsAfter(c)) <= MaxItems
    BY <1>0, <1>8 DEF AloneIsWithin
  <2>3. IsFiniteSet(SavedItems') /\ Cardinality(SavedItems') <= MaxItems
    BY <1>u, <2>1, <2>2
  <2> QED
    BY <1>0, <1>u, <1>c, <1>8, <2>1, <2>3, AloneAfter
<1>9. ASSUME NEW c \in Clients, client[c].at = "delete", ClientGoes(c, "idle"),
             lists' = [m \in (DOMAIN lists) \ {client[c].list} |-> lists[m]]
      PROVE  AloneIsWithin'
  <2>1. PICK l : l = client[c].list
    OBVIOUS
  <2>2. DOMAIN lists' = DOMAIN lists \ {l} /\ SavedItems' \subseteq SavedItems
    BY <1>9, <2>1, DeletedTyped
  <2> QED
    BY <1>5, <1>9, <2>2
<1> QED
  BY <1>1, <1>2, <1>3, <1>4, <1>6, <1>7, <1>8, <1>9 DEF WatchMoves

(* The invariant holds at first. *)
LEMMA WatchStarts == WatchInit => WatchInv
<1> SUFFICES ASSUME WatchInit PROVE WatchInv
  OBVIOUS
<1>1. /\ lists = [l \in {} |-> NoList] /\ created = 0 /\ overlapped = FALSE
      /\ client = [c \in Clients |-> NoClientRequest]
  BY DEF WatchInit
<1>2. NoClientRequest \in WatchRequests /\ NoClientRequest.at = "idle"
  BY DEF NoClientRequest, WatchRequests, WatchCalls, SavedLists, NoList
<1>3. WatchTypes
  BY <1>1, <1>2 DEF WatchTypes
<1>4. DOMAIN lists = {} /\ Creating = {} /\ SavedItems = {}
  BY <1>1, <1>2 DEF Creating, SavedItems
<1>5. /\ Cardinality(DOMAIN lists) = 0 /\ Cardinality(Creating) = 0 /\ Total = 0
      /\ IsFiniteSet(DOMAIN lists) /\ IsFiniteSet(SavedItems) /\ Cardinality(Clients) \in Nat
  BY <1>4, FS_EmptySet, FS_CardinalityType, ClientsAssumption DEF Total, SavedItems
<1>6. ListCount
  BY <1>5, LimitsAssumption DEF ListCount
<1>7. AloneIsWithin
  BY <1>1, <1>2, <1>5, LimitsAssumption DEF AloneIsWithin
<1> QED
  BY <1>3, <1>6, <1>7 DEF WatchInv

(* The invariant holds always. *)
LEMMA WatchInvHolds == WatchSpec => []WatchInv
<1>1. ASSUME WatchInv, [WatchNext]_watchVars PROVE WatchInv'
  BY <1>1, WatchSteps, WatchTyped, ListCountKept, AloneKept DEF WatchInv
<1> QED
  BY <1>1, WatchStarts, PTL DEF WatchSpec

(* The lists and items of an owner stay within the plan, but for requests that overlap. *)
THEOREM PlanLimitsHold == WatchSpec => []WithinPlanLimits
<1>1. ASSUME WatchInv PROVE WithinPlanLimits
  <2>1. Creating \subseteq Clients
    BY DEF Creating
  <2>2. Cardinality(Creating) \in Nat /\ Cardinality(Clients) \in Nat
    BY <2>1, ClientsAssumption, FS_Subset, FS_CardinalityType
  <2>3. Cardinality(DOMAIN lists) \in Nat
        /\ Cardinality(DOMAIN lists) + Cardinality(Creating) < MaxWatchlists + Cardinality(Clients)
    BY <1>1, FS_CardinalityType DEF WatchInv, ListCount
  <2> QED
    BY <1>1, <2>2, <2>3, LimitsAssumption DEF WatchInv, AloneIsWithin, WithinPlanLimits
<1> QED
  BY <1>1, WatchInvHolds, PTL
-----------------------------------------------------------------------------
(* Alert rules. *)
TabCalls ==
    {"idle", "lists", "new list", "detail", "add", "write", "rules", "count", "new rule", "read", "patch"}
TabStates ==
    [at : TabCalls, wallet : Trackable \cup {"none"}, list : Nat, items : SUBSET Trackable, rule : Nat,
     what : {"none", "enabled", "snooze"}, row : RuleRows]

(* A tab that tracks a wallet has a list, one that changes a rule shows it. *)
RuleTypes ==
    /\ day \in Nat /\ storesItems \in BOOLEAN /\ crossed \in BOOLEAN
    /\ tracked \in Seq(SUBSET Trackable)
    /\ ruleRows \in Seq(RuleRows)
    /\ page \in [Tabs -> Seq(RuleRows)]
    /\ tab \in [Tabs -> TabStates]
    /\ \A b \in Tabs :
          /\ tab[b].at \in {"lists", "new list", "detail", "add", "write", "rules", "count", "new rule"}
                => tab[b].wallet \in Trackable /\ tab[b].rule = 0
          /\ tab[b].at \in {"detail", "add", "write", "rules", "count", "new rule"}
                => tab[b].list \in DOMAIN tracked
          /\ tab[b].at \in {"read", "patch"}
                => /\ tab[b].rule \in DOMAIN ruleRows /\ tab[b].rule \in DOMAIN page[b]
                   /\ tab[b].what \in {"enabled", "snooze"}

(* What is said to be tracked has its rule.  While one tab at a time is at work it is on its
   list, and so is the wallet of the tab that comes to the rules; a tab that writes a list
   back has all that is on it. *)
SaidOfList(a) ==
    /\ a[2] \in DOMAIN tracked /\ a[3] \in DOMAIN ruleRows
    /\ ruleRows[a[3]].list = a[2]
ListHas(a) == storesItems => a[1] \in tracked[a[2]]
TabActive(b) ==
    /\ tab[b].at \in {"rules", "count", "new rule"} /\ storesItems
          => tab[b].wallet \in tracked[tab[b].list]
    /\ tab[b].at = "write" => tracked[tab[b].list] \cup {tab[b].wallet} \subseteq tab[b].items
ActiveIsSo ==
    /\ \A a \in active : SaidOfList(a)
    /\ ~crossed => (\A a \in active : ListHas(a)) /\ (\A b \in Tabs : TabActive(b))

(* The one tab at work has found what it makes missing. *)
AloneTracks ==
    ~crossed =>
        /\ \A b \in Tabs, c \in Tabs : tab[b].at # "idle" /\ tab[c].at # "idle" => b = c
        /\ Len(tracked) <= 1 /\ Cardinality(Live) <= RuleLimit
        /\ \A r \in Live, q \in Live : ruleRows[r].list = ruleRows[q].list => r = q
        /\ \A b \in Tabs :
              /\ tab[b].at = "new list" => tracked = <<>>
              /\ tab[b].at \in {"count", "new rule"} => RulesOf(tab[b].list) = {}
              /\ tab[b].at = "new rule" => Cardinality(Live) < RuleLimit

(* What was said of the rules is so; a tab that changes a rule leaves the rest of it. *)
SaidOfRules ==
    /\ \A s \in saidEnabled : s[1] \in DOMAIN ruleRows
    /\ \A s \in saidSnooze : s[1] \in DOMAIN ruleRows
    /\ ~crossed =>
        /\ \A s \in saidEnabled : ruleRows[s[1]].enabled = s[2]
        /\ \A s \in saidSnooze : ruleRows[s[1]].snooze = s[2]
        /\ \A b \in Tabs :
              /\ tab[b].at \in {"read", "patch"} /\ tab[b].what = "enabled"
                    => \A s \in saidEnabled : s[1] # tab[b].rule
              /\ tab[b].at \in {"read", "patch"} /\ tab[b].what = "snooze"
                    => \A s \in saidSnooze : s[1] # tab[b].rule
              /\ tab[b].at = "patch" /\ tab[b].what = "enabled"
                    => tab[b].row.snooze = ruleRows[tab[b].rule].snooze
              /\ tab[b].at = "patch" /\ tab[b].what = "snooze"
                    => tab[b].row.enabled = ruleRows[tab[b].rule].enabled

RulesInv == RuleTypes /\ ActiveIsSo /\ AloneTracks /\ SaidOfRules

TabGoes(b, label) ==
    /\ tab[b].at # "idle"
    /\ tab' \in [Tabs -> TabStates] /\ tab'[b].at = label
    /\ \A c \in Tabs \ {b} : tab'[c] = tab[c]
KeepsTab(b) ==
    /\ tab'[b].wallet = tab[b].wallet /\ tab'[b].list = tab[b].list
    /\ tab'[b].rule = tab[b].rule /\ tab'[b].what = tab[b].what

NextTracked == Len(tracked) + 1
NextRow == Len(ruleRows) + 1

(* What is done to the lists and the rules. *)
ListAdded ==
    /\ tracked' \in Seq(SUBSET Trackable) /\ Len(tracked') = NextTracked
    /\ \A l \in DOMAIN tracked : tracked'[l] = tracked[l]
ItemAdded(b) ==
    /\ tracked' \in Seq(SUBSET Trackable) /\ Len(tracked') = Len(tracked)
    /\ \A l \in DOMAIN tracked : l # tab[b].list => tracked'[l] = tracked[l]
    /\ storesItems => tracked'[tab[b].list] = tab[b].items
    /\ ~storesItems => tracked' = tracked
RowAdded(b) ==
    /\ ruleRows' \in Seq(RuleRows) /\ Len(ruleRows') = NextRow
    /\ \A r \in DOMAIN ruleRows : ruleRows'[r] = ruleRows[r]
    /\ ruleRows'[NextRow].list = tab[b].list
RowSet(r, row1) ==
    /\ ruleRows' \in Seq(RuleRows) /\ Len(ruleRows') = Len(ruleRows)
    /\ \A q \in DOMAIN ruleRows : q # r => ruleRows'[q] = ruleRows[q]
    /\ ruleRows'[r].list = ruleRows[r].list /\ ruleRows'[r].live = ruleRows[r].live
    /\ ruleRows'[r].enabled = row1.enabled /\ ruleRows'[r].snooze = row1.snooze
RowGone(r) ==
    /\ ruleRows' \in Seq(RuleRows) /\ Len(ruleRows') = Len(ruleRows)
    /\ \A q \in DOMAIN ruleRows : q # r => ruleRows'[q] = ruleRows[q]
    /\ ruleRows'[r].list = ruleRows[r].list /\ ruleRows'[r].live = FALSE
    /\ ruleRows'[r].enabled = ruleRows[r].enabled /\ ruleRows'[r].snooze = ruleRows[r].snooze

(* The lists and rules are numbered. *)
LEMMA ListsTyped ==
    ASSUME RuleTypes
    PROVE  /\ tracked \in Seq(SUBSET Trackable) /\ ruleRows \in Seq(RuleRows)
           /\ Len(tracked) \in Nat /\ DOMAIN tracked = 1..Len(tracked) /\ DOMAIN tracked \subseteq Nat
           /\ Len(ruleRows) \in Nat /\ DOMAIN ruleRows = 1..Len(ruleRows) /\ DOMAIN ruleRows \subseteq Nat
<1>1. tracked \in Seq(SUBSET Trackable) /\ ruleRows \in Seq(RuleRows)
  BY DEF RuleTypes
<1> QED
  BY <1>1

(* What a tab is at work on. *)
LEMMA TabsTyped == ASSUME RuleTypes, NEW b \in Tabs PROVE tab[b] \in TabStates
BY DEF RuleTypes

(* A tab that is idle. *)
LEMMA NoTabTyped == NoTab \in TabStates /\ NoTab.at = "idle"
BY DEF NoTab, TabStates, TabCalls, NoRow, RuleRows

(* The state of one tab is set. *)
LEMMA TabSet ==
    ASSUME RuleTypes, NEW b \in Tabs, NEW w \in TabStates, tab' = [tab EXCEPT ![b] = w]
    PROVE  /\ tab' \in [Tabs -> TabStates] /\ tab'[b] = w
           /\ \A c \in Tabs \ {b} : tab'[c] = tab[c]
BY DEF RuleTypes

(* A tab goes on to its next request. *)
LEMMA TabProceedsMoves ==
    ASSUME RuleTypes, NEW b \in Tabs, tab[b].at # "idle", NEW label \in TabCalls, TabProceeds(b, label)
    PROVE  TabGoes(b, label) /\ KeepsTab(b) /\ tab'[b].row = tab[b].row
<1> DEFINE w == [tab[b] EXCEPT !.at = label]
<1>1. /\ w \in TabStates /\ w.at = label /\ w.wallet = tab[b].wallet /\ w.list = tab[b].list
      /\ w.rule = tab[b].rule /\ w.what = tab[b].what /\ w.row = tab[b].row
  BY TabsTyped DEF TabStates
<1>2. tab' = [tab EXCEPT ![b] = w]
  BY DEF TabProceeds
<1> HIDE DEF w
<1> QED
  BY <1>1, <1>2, TabSet DEF TabGoes, KeepsTab

(* A tab is done. *)
LEMMA TabEndsMoves ==
    ASSUME RuleTypes, NEW b \in Tabs, tab[b].at # "idle", TabEnds(b)
    PROVE  TabGoes(b, "idle")
BY NoTabTyped, TabSet DEF TabEnds, TabGoes

(* A tab has found its list. *)
LEMMA TabFindsList ==
    ASSUME RuleTypes, NEW b \in Tabs, tab[b].at # "idle", NEW n \in Nat,
           tab' = [tab EXCEPT ![b].at = "detail", ![b].list = n]
    PROVE  /\ TabGoes(b, "detail") /\ tab'[b].list = n
           /\ tab'[b].wallet = tab[b].wallet /\ tab'[b].rule = tab[b].rule
<1> DEFINE w == [tab[b] EXCEPT !.at = "detail", !.list = n]
<1>1. /\ w \in TabStates /\ w.at = "detail" /\ w.wallet = tab[b].wallet /\ w.list = n
      /\ w.rule = tab[b].rule
  BY TabsTyped DEF TabStates, TabCalls
<1>2. tab' = [tab EXCEPT ![b] = w]
  OBVIOUS
<1> HIDE DEF w
<1> QED
  BY <1>1, <1>2, TabSet DEF TabGoes

TabHolds(b, S) == tab' = [tab EXCEPT ![b].at = "write", ![b].items = S]

(* A tab holds the list it will write back, and the rest of its request as it was. *)
LEMMA TabHoldsList ==
    ASSUME RuleTypes, NEW b \in Tabs, tab[b].at # "idle", NEW S, S \subseteq Trackable, TabHolds(b, S)
    PROVE  TabGoes(b, "write") /\ KeepsTab(b) /\ tab'[b].items = S
<1> DEFINE w == [tab[b] EXCEPT !.at = "write", !.items = S]
<1>1. /\ w \in TabStates /\ w.at = "write" /\ w.wallet = tab[b].wallet /\ w.list = tab[b].list
      /\ w.rule = tab[b].rule /\ w.what = tab[b].what /\ w.items = S
  BY TabsTyped DEF TabStates, TabCalls
<1>2. tab' = [tab EXCEPT ![b] = w]
  BY DEF TabHolds
<1> HIDE DEF w
<1> QED
  BY <1>1, <1>2, TabSet DEF TabGoes, KeepsTab

(* A tab has read the rule it changes. *)
LEMMA TabReadsRule ==
    ASSUME RuleTypes, NEW b \in Tabs, tab[b].at # "idle", NEW v \in RuleRows,
           tab' = [tab EXCEPT ![b].at = "patch", ![b].row = v]
    PROVE  TabGoes(b, "patch") /\ KeepsTab(b) /\ tab'[b].row = v
<1> DEFINE w == [tab[b] EXCEPT !.at = "patch", !.row = v]
<1>1. /\ w \in TabStates /\ w.at = "patch" /\ w.wallet = tab[b].wallet /\ w.list = tab[b].list
      /\ w.rule = tab[b].rule /\ w.what = tab[b].what /\ w.row = v
  BY TabsTyped DEF TabStates, TabCalls
<1>2. tab' = [tab EXCEPT ![b] = w]
  OBVIOUS
<1> HIDE DEF w
<1> QED
  BY <1>1, <1>2, TabSet DEF TabGoes, KeepsTab

(* The statements: a list is added, *)
LEMMA InsertListMoves == ASSUME RuleTypes, InsertTrackedList PROVE ListAdded
<1>1. tracked \in Seq(SUBSET Trackable) /\ {} \in SUBSET Trackable /\ tracked' = Append(tracked, {})
  BY DEF RuleTypes, InsertTrackedList
<1> QED
  BY <1>1 DEF ListAdded, NextTracked

(* an item is added to a list, *)
LEMMA InsertItemMoves ==
    ASSUME RuleTypes, NEW b \in Tabs, tab[b].at = "write", InsertItem(b)
    PROVE  ItemAdded(b)
<1>1. /\ tab[b].list \in DOMAIN tracked
      /\ tracked \in Seq(SUBSET Trackable) /\ storesItems \in BOOLEAN
  BY DEF RuleTypes
<1>2. CASE storesItems
  <2>1. tracked' = [tracked EXCEPT ![tab[b].list] = tab[b].items]
    BY <1>2 DEF InsertItem
  <2>2. tab[b].items \in SUBSET Trackable
    BY TabsTyped DEF TabStates
  <2> PICK l, S : l = tab[b].list /\ S = tab[b].items
    OBVIOUS
  <2>3. /\ tracked' = [tracked EXCEPT ![l] = S] /\ l \in DOMAIN tracked /\ S \in SUBSET Trackable
        /\ tracked \in Seq(SUBSET Trackable)
    BY <1>1, <2>1, <2>2
  <2>4. /\ tracked' \in Seq(SUBSET Trackable) /\ Len(tracked') = Len(tracked) /\ tracked'[l] = S
        /\ \A k \in DOMAIN tracked : k # l => tracked'[k] = tracked[k]
    BY <2>3
  <2> QED
    BY <1>2, <2>4 DEF ItemAdded
<1>3. CASE ~storesItems
  BY <1>1, <1>3 DEF ItemAdded, InsertItem
<1> QED
  BY <1>2, <1>3

(* a rule is added, *)
LEMMA InsertRuleMoves ==
    ASSUME RuleTypes, NEW b \in Tabs, InsertRule(b)
    PROVE  RowAdded(b) /\ ruleRows' # <<>>
<1> DEFINE w == [list |-> tab[b].list, live |-> TRUE, enabled |-> TRUE, snooze |-> 0]
<1>1. w \in RuleRows /\ w.list = tab[b].list
  BY TabsTyped DEF RuleRows, TabStates
<1>2. ruleRows' = Append(ruleRows, w) /\ ruleRows \in Seq(RuleRows)
  BY DEF InsertRule, RuleTypes
<1> HIDE DEF w
<1> QED
  BY <1>1, <1>2 DEF RowAdded, NextRow

(* the row of a rule is written, *)
LEMMA RowWritten ==
    ASSUME ruleRows \in Seq(RuleRows), NEW r \in DOMAIN ruleRows, NEW v \in RuleRows,
           ruleRows' = [ruleRows EXCEPT ![r] = v]
    PROVE  /\ ruleRows' \in Seq(RuleRows) /\ Len(ruleRows') = Len(ruleRows) /\ ruleRows'[r] = v
           /\ \A q \in DOMAIN ruleRows : q # r => ruleRows'[q] = ruleRows[q]
OBVIOUS

(* with what the tab asks for, *)
LEMMA UpdateRuleMoves ==
    ASSUME RuleTypes, NEW b \in Tabs, tab[b].rule \in DOMAIN ruleRows, UpdateRule(b)
    PROVE  RowSet(tab[b].rule, tab[b].row)
<1> DEFINE r == tab[b].rule
           v == [ruleRows[r] EXCEPT !.enabled = tab[b].row.enabled, !.snooze = tab[b].row.snooze]
<1>1. ruleRows \in Seq(RuleRows) /\ ruleRows[r] \in RuleRows /\ tab[b].row \in RuleRows
  <2>1. ruleRows \in Seq(RuleRows)
    BY DEF RuleTypes
  <2>2. ruleRows[r] \in RuleRows
    BY <2>1
  <2>3. tab[b] \in TabStates
    BY TabsTyped
  <2> QED
    BY <2>1, <2>2, <2>3 DEF TabStates
<1>2. /\ v \in RuleRows /\ v.list = ruleRows[r].list /\ v.live = ruleRows[r].live
      /\ v.enabled = tab[b].row.enabled /\ v.snooze = tab[b].row.snooze
  BY <1>1 DEF RuleRows
<1>3. ruleRows' = [ruleRows EXCEPT ![r] = v]
  BY DEF UpdateRule
<1> HIDE DEF v
<1> QED
  BY <1>1, <1>2, <1>3, RowWritten DEF RowSet

(* a rule is deleted. *)
LEMMA DeleteRuleMoves ==
    ASSUME RuleTypes, NEW r \in DOMAIN ruleRows, ruleRows' = [ruleRows EXCEPT ![r].live = FALSE]
    PROVE  RowGone(r)
<1> DEFINE v == [ruleRows[r] EXCEPT !.live = FALSE]
<1>1. ruleRows \in Seq(RuleRows) /\ ruleRows[r] \in RuleRows
  <2>1. ruleRows \in Seq(RuleRows)
    BY DEF RuleTypes
  <2> QED
    BY <2>1
<1>2. /\ v \in RuleRows /\ v.list = ruleRows[r].list /\ v.live = FALSE
      /\ v.enabled = ruleRows[r].enabled /\ v.snooze = ruleRows[r].snooze
  BY <1>1 DEF RuleRows
<1>3. ruleRows' = [ruleRows EXCEPT ![r] = v]
  OBVIOUS
<1> HIDE DEF v
<1> QED
  BY <1>1, <1>2, <1>3, RowWritten DEF RowGone

(* What the requests do, each with what it has read. *)
RuleFrame == storesItems' = storesItems /\ day' = day /\ crossed' = crossed
TabBegun(b) ==
    /\ tab[b].at = "idle" /\ tab' \in [Tabs -> TabStates]
    /\ \A c \in Tabs \ {b} : tab'[c] = tab[c]
    /\ crossed' \in BOOLEAN /\ (~crossed' => ~crossed /\ \A c \in Tabs : tab[c].at = "idle")
    /\ UNCHANGED <<storesItems, day, tracked, ruleRows, page>>
TrackBegun(b) ==
    /\ TabBegun(b) /\ tab'[b].at = "lists" /\ tab'[b].wallet \in Trackable /\ tab'[b].rule = 0
    /\ UNCHANGED said
ToggleBegun(b, r, what) ==
    /\ TabBegun(b) /\ tab'[b].at = "read" /\ tab'[b].rule = r /\ tab'[b].what = what
    /\ r \in DOMAIN ruleRows /\ r \in DOMAIN page[b] /\ what \in {"enabled", "snooze"}
    /\ saidEnabled' = IF what = "enabled" THEN {s \in saidEnabled : s[1] # r} ELSE saidEnabled
    /\ saidSnooze' = IF what = "snooze" THEN {s \in saidSnooze : s[1] # r} ELSE saidSnooze
    /\ active' = active
ListFound(b) ==
    /\ \/ tab[b].at = "lists" /\ TabGoes(b, "new list") /\ KeepsTab(b) /\ tracked = <<>>
          /\ tracked' = tracked
       \/ tab[b].at = "lists" /\ TabGoes(b, "detail") /\ tab'[b].list \in DOMAIN tracked
          /\ tab'[b].wallet = tab[b].wallet /\ tab'[b].rule = tab[b].rule /\ tracked' = tracked
       \/ tab[b].at = "new list" /\ TabGoes(b, "detail") /\ tab'[b].list = NextTracked
          /\ tab'[b].wallet = tab[b].wallet /\ tab'[b].rule = tab[b].rule /\ ListAdded
    /\ RuleFrame /\ UNCHANGED <<ruleRows, page, said>>
ItemFound(b) ==
    /\ \/ tab[b].at = "detail" /\ TabGoes(b, "rules") /\ tab[b].wallet \in tracked[tab[b].list]
          /\ tracked' = tracked
       \/ tab[b].at = "detail" /\ TabGoes(b, "add") /\ tracked' = tracked
       \/ tab[b].at = "add" /\ TabGoes(b, "rules") /\ tab[b].wallet \in tracked[tab[b].list]
          /\ tracked' = tracked
       \/ tab[b].at = "add" /\ TabGoes(b, "write") /\ tracked' = tracked
          /\ tab'[b].items = tracked[tab[b].list] \cup {tab[b].wallet}
       \/ tab[b].at = "write" /\ TabGoes(b, "rules") /\ ItemAdded(b)
    /\ KeepsTab(b) /\ RuleFrame /\ UNCHANGED <<ruleRows, page, said>>
RuleSought(b) ==
    /\ \/ tab[b].at = "rules" /\ TabGoes(b, "count") /\ KeepsTab(b) /\ RulesOf(tab[b].list) = {}
       \/ tab[b].at = "count" /\ TabGoes(b, "new rule") /\ KeepsTab(b) /\ Cardinality(Live) < RuleLimit
       \/ tab[b].at = "count" /\ TabGoes(b, "idle")
       \/ tab[b].at = "read" /\ TabGoes(b, "idle")
       \/ tab[b].at = "patch" /\ TabGoes(b, "idle")
    /\ RuleFrame /\ UNCHANGED <<tracked, ruleRows, page, said>>
RuleFound(b, r) ==
    /\ tab[b].at = "rules" /\ TabGoes(b, "idle") /\ r \in RulesOf(tab[b].list)
    /\ active' = active \cup {<<tab[b].wallet, tab[b].list, r>>}
    /\ RuleFrame /\ UNCHANGED <<tracked, ruleRows, page, saidEnabled, saidSnooze>>
RuleMade(b) ==
    /\ tab[b].at = "new rule" /\ TabGoes(b, "idle") /\ RowAdded(b)
    /\ active' = active \cup {<<tab[b].wallet, tab[b].list, NextRow>>}
    /\ RuleFrame /\ UNCHANGED <<tracked, page, saidEnabled, saidSnooze>>
PageOpened(b) ==
    /\ tab[b].at = "idle" /\ page' \in [Tabs -> Seq(RuleRows)]
    /\ \A c \in Tabs \ {b} : page'[c] = page[c]
    /\ RuleFrame /\ UNCHANGED <<tracked, ruleRows, tab, said>>
RuleRead(b) ==
    /\ tab[b].at = "read" /\ TabGoes(b, "patch") /\ KeepsTab(b)
    /\ tab[b].what = "enabled" => tab'[b].row.snooze = ruleRows[tab[b].rule].snooze
    /\ tab[b].what = "snooze" => tab'[b].row.enabled = ruleRows[tab[b].rule].enabled
    /\ RuleFrame /\ UNCHANGED <<tracked, ruleRows, page, said>>
RulePatched(b) ==
    /\ tab[b].at = "patch" /\ TabGoes(b, "idle") /\ RowSet(tab[b].rule, tab[b].row)
    /\ page' \in [Tabs -> Seq(RuleRows)] /\ \A c \in Tabs \ {b} : page'[c] = page[c]
    /\ saidEnabled' = IF tab[b].what = "enabled"
                      THEN {s \in saidEnabled : s[1] # tab[b].rule} \cup {<<tab[b].rule, tab[b].row.enabled>>}
                      ELSE saidEnabled
    /\ saidSnooze' = IF tab[b].what = "snooze"
                     THEN {s \in saidSnooze : s[1] # tab[b].rule} \cup {<<tab[b].rule, tab[b].row.snooze>>}
                     ELSE saidSnooze
    /\ RuleFrame /\ UNCHANGED <<tracked, active>>
TabFailed(b) ==
    /\ TabGoes(b, "idle")
    /\ \/ UNCHANGED <<tracked, ruleRows>>
       \/ tab[b].at = "new list" /\ ListAdded /\ UNCHANGED ruleRows
       \/ tab[b].at = "write" /\ ItemAdded(b) /\ UNCHANGED ruleRows
       \/ tab[b].at = "new rule" /\ RowAdded(b) /\ UNCHANGED tracked
       \/ tab[b].at = "patch" /\ RowSet(tab[b].rule, tab[b].row) /\ UNCHANGED tracked
    /\ saidEnabled' = {s \in saidEnabled : s[1] # tab[b].rule}
    /\ saidSnooze' = {s \in saidSnooze : s[1] # tab[b].rule}
    /\ RuleFrame /\ UNCHANGED <<page, active>>
RuleDeleted(r) ==
    /\ r \in DOMAIN ruleRows /\ RowGone(r)
    /\ RuleFrame /\ UNCHANGED <<tracked, page, tab, said>>
RulesStay ==
    /\ day' \in Nat
    /\ UNCHANGED <<storesItems, crossed, tracked, ruleRows, page, tab, said>>

TabMoves(b) ==
    \/ TrackBegun(b) \/ ListFound(b) \/ ItemFound(b) \/ RuleSought(b) \/ RuleMade(b) \/ PageOpened(b)
    \/ RuleRead(b) \/ RulePatched(b) \/ TabFailed(b)
    \/ \E r \in DOMAIN ruleRows, what \in {"enabled", "snooze"} : ToggleBegun(b, r, what)
    \/ \E r \in DOMAIN ruleRows : RuleFound(b, r)
RuleMoves ==
    \/ \E b \in Tabs : TabMoves(b)
    \/ \E r \in DOMAIN ruleRows : RuleDeleted(r)
    \/ RulesStay

(* The requests: a user tracks a wallet, *)
LEMMA TrackMoves == ASSUME RuleTypes, NEW b \in Tabs, NEW w \in Trackable, Track(b, w) PROVE TrackBegun(b)
<1> DEFINE v == [NoTab EXCEPT !.at = "lists", !.wallet = w]
<1>1. v \in TabStates /\ v.at = "lists" /\ v.wallet = w /\ v.rule = 0
  BY NoTabTyped DEF NoTab, TabStates, TabCalls
<1>2. tab' = [tab EXCEPT ![b] = v]
  BY DEF Track, BeginTab
<1>3. /\ tab[b].at = "idle" /\ crossed' \in BOOLEAN
      /\ ~crossed' => ~crossed /\ \A c \in Tabs : tab[c].at = "idle"
      /\ UNCHANGED <<storesItems, day, tracked, ruleRows, page, said>>
  BY DEF Track, BeginTab, RuleTypes
<1> HIDE DEF v
<1> QED
  BY <1>1, <1>2, <1>3, TabSet DEF TrackBegun, TabBegun

(* or changes a rule; *)
LEMMA ToggleMoves ==
    ASSUME RuleTypes, NEW b \in Tabs, NEW r \in DOMAIN ruleRows, NEW what \in {"enabled", "snooze"},
           Toggle(b, r, what)
    PROVE  ToggleBegun(b, r, what)
<1> DEFINE v == [NoTab EXCEPT !.at = "read", !.rule = r, !.what = what]
<1>1. v \in TabStates /\ v.at = "read" /\ v.rule = r /\ v.what = what
  <2>1. r \in Nat
    BY ListsTyped
  <2> QED
    BY <2>1, NoTabTyped DEF NoTab, TabStates, TabCalls
<1>2. tab' = [tab EXCEPT ![b] = v]
  BY DEF Toggle, BeginTab
<1>3. /\ tab[b].at = "idle" /\ crossed' \in BOOLEAN
      /\ ~crossed' => ~crossed /\ \A c \in Tabs : tab[c].at = "idle"
      /\ UNCHANGED <<storesItems, day, tracked, ruleRows, page>>
  BY DEF Toggle, BeginTab, RuleTypes
<1> HIDE DEF v
<1> QED
  BY <1>1, <1>2, <1>3, TabSet DEF Toggle, ToggleBegun, TabBegun

(* the tab finds the list, *)
LEMMA FindTrackedListMoves ==
    ASSUME RuleTypes, NEW b \in Tabs, FindTrackedList(b)
    PROVE  ListFound(b)
<1>1. /\ tab[b].at = "lists" /\ RuleFrame /\ tracked' = tracked /\ tab[b].at # "idle"
      /\ UNCHANGED <<ruleRows, page, said>>
  BY DEF FindTrackedList, tabFrame, RuleFrame
<1>2. CASE tracked = <<>>
  BY <1>1, <1>2, TabProceedsMoves DEF FindTrackedList, ListFound, TabCalls
<1>3. CASE tracked # <<>>
  <2>1. PICK l \in DOMAIN tracked : tab' = [tab EXCEPT ![b].at = "detail", ![b].list = l]
    BY <1>3 DEF FindTrackedList
  <2>2. l \in Nat
    BY ListsTyped
  <2> QED
    BY <1>1, <2>1, <2>2, TabFindsList DEF ListFound
<1> QED
  BY <1>2, <1>3

(* or makes it, *)
LEMMA CreateTrackedListMoves ==
    ASSUME RuleTypes, NEW b \in Tabs, CreateTrackedList(b)
    PROVE  ListFound(b)
<1>1. /\ tab[b].at = "new list" /\ RuleFrame /\ ListAdded /\ tab[b].at # "idle"
      /\ UNCHANGED <<ruleRows, page, said>>
  BY InsertListMoves DEF CreateTrackedList, tabFrame, RuleFrame
<1>2. NextTracked \in Nat /\ Len(tracked') = NextTracked
  <2>1. Len(tracked) \in Nat /\ Len(tracked') = NextTracked
    BY <1>1, ListsTyped DEF ListAdded
  <2> QED
    BY <2>1 DEF NextTracked
<1>3. tab' = [tab EXCEPT ![b].at = "detail", ![b].list = NextTracked]
  BY <1>2 DEF CreateTrackedList
<1> QED
  BY <1>1, <1>2, <1>3, TabFindsList DEF ListFound

(* finds the wallet on it, *)
LEMMA ReadTrackedListMoves ==
    ASSUME RuleTypes, NEW b \in Tabs, ReadTrackedList(b)
    PROVE  ItemFound(b)
<1>1. /\ tab[b].at = "detail" /\ RuleFrame /\ tracked' = tracked /\ tab[b].at # "idle"
      /\ UNCHANGED <<ruleRows, page, said>>
  BY DEF ReadTrackedList, tabFrame, RuleFrame
<1>2. CASE tab[b].wallet \in tracked[tab[b].list]
  BY <1>1, <1>2, TabProceedsMoves DEF ReadTrackedList, ItemFound, TabCalls
<1>3. CASE tab[b].wallet \notin tracked[tab[b].list]
  BY <1>1, <1>3, TabProceedsMoves DEF ReadTrackedList, ItemFound, TabCalls
<1> QED
  BY <1>2, <1>3

(* or adds it to the list as it is, *)
LEMMA AddTrackedItemMoves ==
    ASSUME RuleTypes, NEW b \in Tabs, AddTrackedItem(b)
    PROVE  ItemFound(b)
<1>1. /\ tab[b].at = "add" /\ RuleFrame /\ tab[b].at # "idle" /\ tracked' = tracked
      /\ UNCHANGED <<ruleRows, page, said>>
  BY DEF AddTrackedItem, tabFrame, RuleFrame
<1>2. CASE tab[b].wallet \in tracked[tab[b].list]
  <2>1. TabProceeds(b, "rules")
    BY <1>2 DEF AddTrackedItem, TabProceeds
  <2>2. TabGoes(b, "rules") /\ KeepsTab(b)
    BY <1>1, <2>1, TabProceedsMoves DEF TabCalls
  <2> QED
    BY <1>1, <1>2, <2>2 DEF ItemFound
<1>3. CASE tab[b].wallet \notin tracked[tab[b].list]
  <2> PICK S : S = tracked[tab[b].list] \cup {tab[b].wallet}
    OBVIOUS
  <2>1. TabHolds(b, S)
    BY <1>3 DEF AddTrackedItem, TabHolds
  <2>2. tab[b].list \in DOMAIN tracked /\ tab[b].wallet \in Trackable /\ tracked \in Seq(SUBSET Trackable)
    BY <1>1 DEF RuleTypes
  <2>3. S \subseteq Trackable
    BY <2>2
  <2>4. TabGoes(b, "write") /\ KeepsTab(b) /\ tab'[b].items = S
    BY <1>1, <2>1, <2>3, TabHoldsList
  <2> QED
    BY <1>1, <2>4 DEF ItemFound
<1> QED
  BY <1>2, <1>3

(* and writes that back, *)
LEMMA WriteTrackedListMoves ==
    ASSUME RuleTypes, NEW b \in Tabs, WriteTrackedList(b)
    PROVE  ItemFound(b)
<1>1. /\ tab[b].at = "write" /\ RuleFrame /\ tab[b].at # "idle" /\ ItemAdded(b)
      /\ UNCHANGED <<ruleRows, page, said>>
  BY InsertItemMoves DEF WriteTrackedList, tabFrame, RuleFrame
<1>2. TabGoes(b, "rules") /\ KeepsTab(b)
  BY <1>1, TabProceedsMoves DEF WriteTrackedList, TabCalls
<1> QED
  BY <1>1, <1>2 DEF ItemFound

(* finds the rule, *)
LEMMA FindTrackedRuleMoves ==
    ASSUME RuleTypes, NEW b \in Tabs, FindTrackedRule(b)
    PROVE  RuleSought(b) \/ \E r \in DOMAIN ruleRows : RuleFound(b, r)
<1>1. /\ tab[b].at = "rules" /\ RuleFrame /\ tab[b].at # "idle"
      /\ UNCHANGED <<tracked, ruleRows, page, saidEnabled, saidSnooze>>
  BY DEF FindTrackedRule, tabFrame, RuleFrame
<1>2. CASE RulesOf(tab[b].list) = {}
  <2>1. TabProceeds(b, "count") /\ UNCHANGED active
    BY <1>2 DEF FindTrackedRule, MatchingRules
  <2> QED
    BY <1>1, <1>2, <2>1, TabProceedsMoves DEF RuleSought, TabCalls, said
<1>3. CASE RulesOf(tab[b].list) # {}
  <2>1. TabEnds(b) /\ \E r \in RulesOf(tab[b].list) : SaidActive(b, r)
    BY <1>3 DEF FindTrackedRule, MatchingRules
  <2>2. PICK r \in RulesOf(tab[b].list) : SaidActive(b, r)
    BY <2>1
  <2>3. r \in DOMAIN ruleRows
    BY DEF RulesOf, Live
  <2>4. RuleFound(b, r)
    BY <1>1, <2>1, <2>2, TabEndsMoves DEF RuleFound, SaidActive
  <2> QED
    BY <2>3, <2>4
<1> QED
  BY <1>2, <1>3

(* The rules that are not deleted can be counted. *)
LEMMA LiveFinite == ASSUME RuleTypes PROVE IsFiniteSet(Live) /\ Cardinality(Live) \in Nat
<1>1. Live \subseteq 1..Len(ruleRows) /\ Len(ruleRows) \in Nat
  BY ListsTyped DEF Live
<1> QED
  <2>1. IsFiniteSet(1..Len(ruleRows))
    BY <1>1, FS_Interval
  <2> QED
    BY <1>1, <2>1, FS_Subset, FS_CardinalityType

(* counts the rules there are, *)
LEMMA CountRulesMoves ==
    ASSUME RuleTypes, NEW b \in Tabs, CountRules(b)
    PROVE  RuleSought(b)
<1>1. /\ tab[b].at = "count" /\ RuleFrame /\ tab[b].at # "idle"
      /\ UNCHANGED <<tracked, ruleRows, page, said>>
  BY DEF CountRules, tabFrame, RuleFrame
<1>2. CASE Cardinality(Live) >= RuleLimit
  BY <1>1, <1>2, TabEndsMoves DEF CountRules, RuleSought
<1>3. CASE ~(Cardinality(Live) >= RuleLimit)
  <2>1. Cardinality(Live) < RuleLimit
    BY <1>3, LiveFinite, RuleLimitAssumption
  <2>2. TabProceeds(b, "new rule")
    BY <1>3 DEF CountRules
  <2> QED
    BY <1>1, <2>1, <2>2, TabProceedsMoves DEF RuleSought, TabCalls
<1> QED
  BY <1>2, <1>3

(* and adds one; *)
LEMMA CreateTrackedRuleMoves ==
    ASSUME RuleTypes, NEW b \in Tabs, CreateTrackedRule(b)
    PROVE  RuleMade(b)
<1>1. /\ tab[b].at = "new rule" /\ RuleFrame /\ tab[b].at # "idle" /\ RowAdded(b)
      /\ UNCHANGED <<tracked, page, saidEnabled, saidSnooze>>
  BY InsertRuleMoves DEF CreateTrackedRule, tabFrame, RuleFrame
<1>2. active' = active \cup {<<tab[b].wallet, tab[b].list, NextRow>>}
  <2>1. Len(ruleRows') = NextRow
    BY <1>1 DEF RowAdded
  <2> QED
    BY <2>1 DEF CreateTrackedRule, SaidActive
<1> QED
  BY <1>1, <1>2, TabEndsMoves DEF CreateTrackedRule, RuleMade

(* a page is opened, *)
LEMMA OpenAlertsMoves ==
    ASSUME RuleTypes, NEW b \in Tabs, OpenAlerts(b)
    PROVE  PageOpened(b)
<1>1. page \in [Tabs -> Seq(RuleRows)] /\ ruleRows \in Seq(RuleRows) /\ page' = [page EXCEPT ![b] = ruleRows]
  BY DEF RuleTypes, OpenAlerts
<1>2. page' \in [Tabs -> Seq(RuleRows)] /\ \A c \in Tabs \ {b} : page'[c] = page[c]
  BY <1>1
<1> QED
  BY <1>2 DEF OpenAlerts, PageOpened, RuleFrame, tabFrame

(* the rule it shows is read, *)
LEMMA ReadRuleMoves ==
    ASSUME RuleTypes, NEW b \in Tabs, ReadRule(b)
    PROVE  RuleSought(b) \/ RuleRead(b)
<1>1. /\ tab[b].at = "read" /\ RuleFrame /\ tab[b].at # "idle"
      /\ UNCHANGED <<tracked, ruleRows, page, said>>
  BY DEF ReadRule, tabFrame, RuleFrame
<1>2. CASE tab[b].rule \notin Live
  BY <1>1, <1>2, TabEndsMoves DEF ReadRule, RuleSought
<1>3. CASE tab[b].rule \in Live
  <2> DEFINE stored == ruleRows[tab[b].rule]
             shown == page[b][tab[b].rule]
             new == Changed(tab[b].what, stored, shown)
  <2>1. stored \in RuleRows /\ shown \in RuleRows
    <3>1. tab[b].rule \in DOMAIN ruleRows /\ tab[b].rule \in DOMAIN page[b]
      BY <1>1 DEF RuleTypes
    <3>2. ruleRows \in Seq(RuleRows) /\ page[b] \in Seq(RuleRows)
      BY DEF RuleTypes
    <3> QED
      BY <3>1, <3>2
  <2>2. /\ new \in RuleRows
        /\ tab[b].what = "enabled" => new.snooze = stored.snooze
        /\ tab[b].what = "snooze" => new.enabled = stored.enabled
    <3>1. day \in Nat
      BY DEF RuleTypes
    <3> HIDE DEF stored, shown
    <3>2. CASE tab[b].what = "enabled"
      BY <2>1, <3>2 DEF Changed, RuleRows
    <3>3. CASE tab[b].what = "snooze"
      <4> DEFINE until == IF shown.snooze > day THEN 0 ELSE day + 1
      <4>1. until \in Nat
        BY <3>1
      <4>2. new = [stored EXCEPT !.snooze = until]
        BY <3>3 DEF Changed
      <4> HIDE DEF until, new
      <4> QED
        BY <2>1, <3>3, <4>1, <4>2 DEF RuleRows
    <3>4. tab[b].what \in {"enabled", "snooze"}
      BY <1>1 DEF RuleTypes
    <3> QED
      BY <3>2, <3>3, <3>4
  <2>3. tab' = [tab EXCEPT ![b].at = "patch", ![b].row = new]
    BY <1>3 DEF ReadRule
  <2> HIDE DEF new
  <2> QED
    BY <1>1, <2>2, <2>3, TabReadsRule DEF RuleRead
<1> QED
  BY <1>2, <1>3

(* and changed; *)
LEMMA PatchRuleMoves ==
    ASSUME RuleTypes, NEW b \in Tabs, PatchRule(b)
    PROVE  RuleSought(b) \/ RulePatched(b)
<1>1. /\ tab[b].at = "patch" /\ RuleFrame /\ TabGoes(b, "idle") /\ tracked' = tracked /\ active' = active
  BY TabEndsMoves DEF PatchRule, tabFrame, RuleFrame
<1>2. CASE tab[b].rule \notin Live
  BY <1>1, <1>2 DEF PatchRule, RuleSought, said
<1>3. CASE tab[b].rule \in Live
  <2>1. tab[b].rule \in DOMAIN ruleRows /\ tab[b].rule \in DOMAIN page[b]
    BY <1>1 DEF RuleTypes
  <2>2. RowSet(tab[b].rule, tab[b].row)
    BY <1>3, <2>1, UpdateRuleMoves DEF PatchRule
  <2>3. page' = [page EXCEPT ![b][tab[b].rule] = ruleRows'[tab[b].rule]]
    BY <1>3 DEF PatchRule
  <2>4. ruleRows'[tab[b].rule] \in RuleRows
    BY <2>1, <2>2, ListsTyped DEF RowSet
  <2>5. page' \in [Tabs -> Seq(RuleRows)] /\ \A c \in Tabs \ {b} : page'[c] = page[c]
    <3> DEFINE new == [page[b] EXCEPT ![tab[b].rule] = ruleRows'[tab[b].rule]]
    <3>1. page \in [Tabs -> Seq(RuleRows)]
      BY DEF RuleTypes
    <3>2. new \in Seq(RuleRows)
      BY <2>1, <2>4, <3>1
    <3>3. page' = [page EXCEPT ![b] = new]
      BY <2>3
    <3> HIDE DEF new
    <3> QED
      BY <3>1, <3>2, <3>3
  <2>6. /\ saidEnabled' = IF tab[b].what = "enabled"
                      THEN {s \in saidEnabled : s[1] # tab[b].rule} \cup {<<tab[b].rule, tab[b].row.enabled>>}
                      ELSE saidEnabled
        /\ saidSnooze' = IF tab[b].what = "snooze"
                     THEN {s \in saidSnooze : s[1] # tab[b].rule} \cup {<<tab[b].rule, tab[b].row.snooze>>}
                     ELSE saidSnooze
    BY <1>3 DEF PatchRule
  <2> QED
    BY <1>1, <2>2, <2>5, <2>6 DEF RulePatched
<1> QED
  BY <1>2, <1>3

(* and any of them may fail, before or after its statement. *)
LEMMA TabFailsMoves ==
    ASSUME RuleTypes, NEW b \in Tabs, TabFails(b)
    PROVE  TabFailed(b)
<1>1. /\ tab[b].at # "idle" /\ TabGoes(b, "idle") /\ RuleFrame /\ UNCHANGED <<page, active>>
      /\ saidEnabled' = {s \in saidEnabled : s[1] # tab[b].rule}
      /\ saidSnooze' = {s \in saidSnooze : s[1] # tab[b].rule}
  BY TabEndsMoves DEF TabFails, RuleFrame
<1>2. \/ UNCHANGED <<tracked, ruleRows>>
      \/ tab[b].at = "new list" /\ InsertTrackedList /\ UNCHANGED ruleRows
      \/ tab[b].at = "write" /\ InsertItem(b) /\ UNCHANGED ruleRows
      \/ tab[b].at = "new rule" /\ InsertRule(b) /\ UNCHANGED tracked
      \/ tab[b].at = "patch" /\ tab[b].rule \in Live /\ UpdateRule(b) /\ UNCHANGED tracked
  BY DEF TabFails
<1>3. CASE UNCHANGED <<tracked, ruleRows>>
  BY <1>1, <1>3 DEF TabFailed
<1>4. CASE tab[b].at = "new list" /\ InsertTrackedList /\ UNCHANGED ruleRows
  BY <1>1, <1>4, InsertListMoves DEF TabFailed
<1>5. CASE tab[b].at = "write" /\ InsertItem(b) /\ UNCHANGED ruleRows
  BY <1>1, <1>5, InsertItemMoves DEF TabFailed
<1>6. CASE tab[b].at = "new rule" /\ InsertRule(b) /\ UNCHANGED tracked
  BY <1>1, <1>6, InsertRuleMoves DEF TabFailed
<1>7. CASE tab[b].at = "patch" /\ tab[b].rule \in Live /\ UpdateRule(b) /\ UNCHANGED tracked
  <2>1. RowSet(tab[b].rule, tab[b].row)
    BY <1>7, UpdateRuleMoves DEF Live
  <2> QED
    BY <1>1, <1>7, <2>1 DEF TabFailed
<1> QED
  BY <1>2, <1>3, <1>4, <1>5, <1>6, <1>7

(* Every step of the specification is one of these. *)
LEMMA RuleSteps == ASSUME RuleTypes, [RulesNext]_ruleVars PROVE RuleMoves
<1>1. ASSUME NEW b \in Tabs, NEW w \in Trackable, Track(b, w) PROVE TabMoves(b)
  BY <1>1, TrackMoves DEF TabMoves
<1>2. ASSUME NEW b \in Tabs, OpenAlerts(b) PROVE TabMoves(b)
  BY <1>2, OpenAlertsMoves DEF TabMoves
<1>3. ASSUME NEW b \in Tabs, NEW r \in DOMAIN ruleRows, NEW what \in {"enabled", "snooze"}, Toggle(b, r, what)
      PROVE  TabMoves(b)
  BY <1>3, ToggleMoves DEF TabMoves
<1>4. ASSUME NEW b \in Tabs, TabStep(b) PROVE TabMoves(b)
  BY <1>4, FindTrackedListMoves, CreateTrackedListMoves, ReadTrackedListMoves, AddTrackedItemMoves,
     WriteTrackedListMoves, FindTrackedRuleMoves, CountRulesMoves, CreateTrackedRuleMoves, ReadRuleMoves, PatchRuleMoves
     DEF TabStep, TabMoves
<1>5. ASSUME NEW b \in Tabs, TabFails(b) PROVE TabMoves(b)
  BY <1>5, TabFailsMoves DEF TabMoves
<1>6. ASSUME NEW r \in DOMAIN ruleRows, DeleteRule(r) PROVE RuleDeleted(r)
  BY <1>6, DeleteRuleMoves DEF DeleteRule, RuleDeleted, RuleFrame
<1>7. ASSUME DayPasses PROVE RulesStay
  <2>1. day \in Nat /\ day' = day + 1
    BY <1>7 DEF DayPasses, RuleTypes
  <2>2. day' \in Nat
    BY <2>1
  <2> QED
    BY <1>7, <2>2 DEF DayPasses, RulesStay, said
<1>8. ASSUME UNCHANGED ruleVars PROVE RulesStay
  BY <1>8 DEF ruleVars, RulesStay, RuleTypes, said
<1> QED
  BY <1>1, <1>2, <1>3, <1>4, <1>5, <1>6, <1>7, <1>8 DEF RulesNext, RuleMoves

(* Lists and rules are never lost, only written and changed. *)
TrackedGrown ==
    tracked' \in Seq(SUBSET Trackable) /\ DOMAIN tracked \subseteq DOMAIN tracked'
RowsGrown ==
    /\ ruleRows' \in Seq(RuleRows) /\ DOMAIN ruleRows \subseteq DOMAIN ruleRows'
    /\ \A r \in DOMAIN ruleRows : ruleRows'[r].list = ruleRows[r].list

(* Nothing is lost where nothing is written, *)
LEMMA SameGrown ==
    ASSUME RuleTypes
    PROVE  (tracked' = tracked => TrackedGrown) /\ (ruleRows' = ruleRows => RowsGrown)
BY DEF RuleTypes, TrackedGrown, RowsGrown

(* when a list is added, *)
LEMMA ListAddedGrows ==
    ASSUME RuleTypes, ListAdded
    PROVE  TrackedGrown /\ NextTracked \in DOMAIN tracked'
<1>1. tracked' \in Seq(SUBSET Trackable) /\ Len(tracked') = Len(tracked) + 1
  BY DEF ListAdded, NextTracked
<1>2. Len(tracked) \in Nat /\ DOMAIN tracked = 1..Len(tracked)
  BY ListsTyped
<1>3. DOMAIN tracked' = 1..(Len(tracked) + 1)
  BY <1>1
<1> QED
  BY <1>1, <1>2, <1>3 DEF TrackedGrown, NextTracked

(* or a wallet on it, *)
LEMMA ItemAddedGrows ==
    ASSUME RuleTypes, NEW b \in Tabs, ItemAdded(b)
    PROVE  TrackedGrown
<1>1. tracked' \in Seq(SUBSET Trackable) /\ Len(tracked') = Len(tracked)
  BY DEF ItemAdded
<1>2. DOMAIN tracked = 1..Len(tracked)
  BY ListsTyped
<1>3. DOMAIN tracked' = 1..Len(tracked)
  BY <1>1
<1> QED
  BY <1>1, <1>2, <1>3 DEF TrackedGrown

(* or a rule, *)
LEMMA RowAddedGrows ==
    ASSUME RuleTypes, NEW b \in Tabs, RowAdded(b)
    PROVE  /\ RowsGrown /\ NextRow \in DOMAIN ruleRows' /\ NextRow \notin DOMAIN ruleRows
           /\ DOMAIN ruleRows' = DOMAIN ruleRows \cup {NextRow}
<1>1. /\ ruleRows' \in Seq(RuleRows) /\ Len(ruleRows') = Len(ruleRows) + 1
      /\ \A r \in DOMAIN ruleRows : ruleRows'[r] = ruleRows[r]
  BY DEF RowAdded, NextRow
<1>2. Len(ruleRows) \in Nat /\ DOMAIN ruleRows = 1..Len(ruleRows)
  BY ListsTyped
<1>3. DOMAIN ruleRows' = 1..(Len(ruleRows) + 1)
  BY <1>1
<1> QED
  BY <1>1, <1>2, <1>3 DEF RowsGrown, NextRow

(* and when a rule is changed or deleted. *)
LEMMA RowSetGrows ==
    ASSUME RuleTypes, NEW r \in DOMAIN ruleRows, NEW row1, RowSet(r, row1) \/ RowGone(r)
    PROVE  RowsGrown /\ DOMAIN ruleRows' = DOMAIN ruleRows
<1>1. /\ ruleRows' \in Seq(RuleRows) /\ Len(ruleRows') = Len(ruleRows)
      /\ \A q \in DOMAIN ruleRows : ruleRows'[q].list = ruleRows[q].list
  BY DEF RowSet, RowGone
<1>2. DOMAIN ruleRows = 1..Len(ruleRows)
  BY ListsTyped
<1>3. DOMAIN ruleRows' = 1..Len(ruleRows)
  BY <1>1
<1> QED
  BY <1>1, <1>2, <1>3 DEF RowsGrown

(* The rule a tab changes exists. *)
LEMMA PatchedIsRow ==
    ASSUME RuleTypes, NEW b \in Tabs, tab[b].at \in {"read", "patch"}
    PROVE  tab[b].rule \in DOMAIN ruleRows
BY DEF RuleTypes

(* So no step of a tab loses anything, *)
LEMMA TabGrows == ASSUME RuleTypes, NEW b \in Tabs, TabMoves(b) PROVE TrackedGrown /\ RowsGrown
<1>1. CASE ListFound(b) \/ ItemFound(b)
  BY <1>1, SameGrown, ListAddedGrows, ItemAddedGrows DEF ListFound, ItemFound
<1>2. CASE RuleMade(b)
  BY <1>2, SameGrown, RowAddedGrows DEF RuleMade
<1>3. CASE RulePatched(b)
  <2>1. tab[b].rule \in DOMAIN ruleRows /\ RowSet(tab[b].rule, tab[b].row) /\ tracked' = tracked
    BY <1>3, PatchedIsRow DEF RulePatched
  <2> QED
    BY <2>1, SameGrown, RowSetGrows
<1>4. CASE TabFailed(b)
  <2>1. CASE tab[b].at = "patch" /\ RowSet(tab[b].rule, tab[b].row) /\ UNCHANGED tracked
    <3>1. tab[b].rule \in DOMAIN ruleRows
      BY <2>1, PatchedIsRow
    <3> QED
      BY <2>1, <3>1, SameGrown, RowSetGrows
  <2> QED
    BY <1>4, <2>1, SameGrown, ListAddedGrows, ItemAddedGrows, RowAddedGrows DEF TabFailed
<1> QED
  BY <1>1, <1>2, <1>3, <1>4, SameGrown
     DEF TabMoves, TrackBegun, TabBegun, RuleSought, PageOpened, RuleRead, ToggleBegun, RuleFound

(* and no step at all. *)
LEMMA RulesGrow == ASSUME RuleTypes, RuleMoves PROVE TrackedGrown /\ RowsGrown
<1>1. ASSUME NEW r \in DOMAIN ruleRows, RuleDeleted(r) PROVE TrackedGrown /\ RowsGrown
  BY <1>1, SameGrown, RowSetGrows DEF RuleDeleted
<1> QED
  BY <1>1, TabGrows, SameGrown DEF RuleMoves, RulesStay

(* What the types ask of a tab. *)
TabFits(b) ==
    /\ tab[b].at \in {"lists", "new list", "detail", "add", "write", "rules", "count", "new rule"}
          => tab[b].wallet \in Trackable /\ tab[b].rule = 0
    /\ tab[b].at \in {"detail", "add", "write", "rules", "count", "new rule"}
          => tab[b].list \in DOMAIN tracked
    /\ tab[b].at \in {"read", "patch"}
          => /\ tab[b].rule \in DOMAIN ruleRows /\ tab[b].rule \in DOMAIN page[b]
             /\ tab[b].what \in {"enabled", "snooze"}

(* What the types say of one tab. *)
LEMMA TabsFit == ASSUME RuleTypes, NEW b \in Tabs PROVE TabFits(b)
BY DEF RuleTypes, TabFits

(* A tab that has not moved, and whose page has not, fits what there is. *)
LEMMA OthersFit ==
    ASSUME RuleTypes, TrackedGrown, RowsGrown, NEW c \in Tabs,
           tab'[c] = tab[c], page'[c] = page[c] \/ tab[c].at = "idle"
    PROVE  TabFits(c)'
<1>1. TabFits(c)
  BY TabsFit
<1> QED
  BY <1>1 DEF TabFits, TrackedGrown, RowsGrown

(* The tab that moved fits what there is. *)
LEMMA MoverFits == ASSUME RuleTypes, NEW b \in Tabs, TabMoves(b) PROVE TabFits(b)'
<1>1. TabFits(b) /\ TrackedGrown /\ RowsGrown
  BY TabsFit, TabGrows
<1>2. CASE TrackBegun(b)
  BY <1>2 DEF TrackBegun, TabFits
<1>3. CASE ListFound(b)
  BY <1>1, <1>3, ListAddedGrows DEF ListFound, TabFits, TabGoes, KeepsTab
<1>4. CASE ItemFound(b)
  BY <1>1, <1>4 DEF ItemFound, TabFits, TabGoes, KeepsTab, TrackedGrown
<1>5. CASE RuleSought(b)
  BY <1>1, <1>5 DEF RuleSought, TabFits, TabGoes, KeepsTab
<1>6. CASE RuleMade(b)
  BY <1>6 DEF RuleMade, TabFits, TabGoes
<1>7. CASE PageOpened(b)
  BY <1>7 DEF PageOpened, TabFits
<1>8. CASE RuleRead(b)
  BY <1>1, <1>8 DEF RuleRead, TabFits, TabGoes, KeepsTab
<1>9. CASE RulePatched(b)
  BY <1>9 DEF RulePatched, TabFits, TabGoes
<1>10. CASE TabFailed(b)
  BY <1>10 DEF TabFailed, TabFits, TabGoes
<1>11. ASSUME NEW r \in DOMAIN ruleRows, NEW what \in {"enabled", "snooze"}, ToggleBegun(b, r, what)
       PROVE  TabFits(b)'
  BY <1>11 DEF ToggleBegun, TabBegun, TabFits
<1>12. ASSUME NEW r \in DOMAIN ruleRows, RuleFound(b, r) PROVE TabFits(b)'
  BY <1>12 DEF RuleFound, TabFits, TabGoes
<1> QED
  BY <1>2, <1>3, <1>4, <1>5, <1>6, <1>7, <1>8, <1>9, <1>10, <1>11, <1>12 DEF TabMoves

(* The tabs that did not move. *)
LEMMA OthersStay ==
    ASSUME RuleTypes, NEW b \in Tabs, TabMoves(b)
    PROVE  /\ tab' \in [Tabs -> TabStates] /\ page' \in [Tabs -> Seq(RuleRows)]
           /\ \A c \in Tabs \ {b} : tab'[c] = tab[c] /\ page'[c] = page[c]
           /\ day' = day /\ storesItems' = storesItems /\ crossed' \in BOOLEAN
<1>1. tab \in [Tabs -> TabStates] /\ page \in [Tabs -> Seq(RuleRows)] /\ crossed \in BOOLEAN
  BY DEF RuleTypes
<1>2. CASE TrackBegun(b) \/ \E r \in DOMAIN ruleRows, what \in {"enabled", "snooze"} : ToggleBegun(b, r, what)
  BY <1>1, <1>2 DEF TrackBegun, ToggleBegun, TabBegun
<1>3. CASE ListFound(b) \/ ItemFound(b) \/ RuleSought(b)
  BY <1>1, <1>3 DEF ListFound, ItemFound, RuleSought, TabGoes, RuleFrame
<1>4. CASE RuleMade(b) \/ PageOpened(b) \/ RuleRead(b) \/ RulePatched(b) \/ TabFailed(b)
  BY <1>1, <1>4 DEF RuleMade, PageOpened, RuleRead, RulePatched, TabFailed, TabGoes, RuleFrame
<1>5. CASE \E r \in DOMAIN ruleRows : RuleFound(b, r)
  BY <1>1, <1>5 DEF RuleFound, TabGoes, RuleFrame
<1> QED
  BY <1>2, <1>3, <1>4, <1>5 DEF TabMoves

(* The types are kept. *)
LEMMA RuleTypesKept == ASSUME RuleTypes, RuleMoves PROVE RuleTypes'
<1>1. TrackedGrown /\ RowsGrown
  BY RulesGrow
<1>2. ASSUME NEW b \in Tabs, TabMoves(b)
      PROVE  /\ day' \in Nat /\ storesItems' \in BOOLEAN /\ crossed' \in BOOLEAN
             /\ page' \in [Tabs -> Seq(RuleRows)] /\ tab' \in [Tabs -> TabStates]
             /\ \A c \in Tabs : TabFits(c)'
  <2>1. day \in Nat /\ storesItems \in BOOLEAN
    BY DEF RuleTypes
  <2>2. TabFits(b)'
    BY <1>2, MoverFits
  <2>3. ASSUME NEW c \in Tabs \ {b} PROVE TabFits(c)'
    BY <1>1, <1>2, OthersStay, OthersFit
  <2> QED
    BY <1>2, <2>1, <2>2, <2>3, OthersStay
<1>3. ASSUME \/ \E r \in DOMAIN ruleRows : RuleDeleted(r)
             \/ RulesStay
      PROVE  /\ day' \in Nat /\ storesItems' \in BOOLEAN /\ crossed' \in BOOLEAN
             /\ page' \in [Tabs -> Seq(RuleRows)] /\ tab' \in [Tabs -> TabStates]
             /\ \A c \in Tabs : TabFits(c)'
  <2>1. /\ page' = page /\ tab' = tab /\ crossed' = crossed /\ storesItems' = storesItems /\ day' \in Nat
    BY <1>3 DEF RuleDeleted, RulesStay, RuleFrame, RuleTypes
  <2>2. ASSUME NEW c \in Tabs PROVE TabFits(c)'
    BY <1>1, <2>1, OthersFit
  <2>3. /\ page \in [Tabs -> Seq(RuleRows)] /\ tab \in [Tabs -> TabStates] /\ crossed \in BOOLEAN
        /\ storesItems \in BOOLEAN
    BY DEF RuleTypes
  <2> QED
    BY <2>1, <2>2, <2>3
<1>4. /\ day' \in Nat /\ storesItems' \in BOOLEAN /\ crossed' \in BOOLEAN
      /\ page' \in [Tabs -> Seq(RuleRows)] /\ tab' \in [Tabs -> TabStates]
      /\ \A c \in Tabs : TabFits(c)'
  BY <1>2, <1>3 DEF RuleMoves
<1> QED
  BY <1>1, <1>4 DEF RuleTypes, TrackedGrown, RowsGrown, TabFits

(* No rule comes to be live, or changes its list. *)
LiveKept == Live' \subseteq Live /\ \A r \in Live : ruleRows'[r].list = ruleRows[r].list

(* Which rules live, after a step that writes none, *)
LEMMA RowsSameLive == ASSUME RuleTypes, ruleRows' = ruleRows PROVE LiveKept
BY DEF LiveKept, Live

(* or that changes or deletes one. *)
LEMMA RowSetLive ==
    ASSUME RuleTypes, NEW r \in DOMAIN ruleRows, NEW row1, RowSet(r, row1) \/ RowGone(r)
    PROVE  LiveKept
<1>1. DOMAIN ruleRows' = DOMAIN ruleRows /\ RowsGrown
  BY RowSetGrows
<1>2. \A q \in DOMAIN ruleRows : ruleRows'[q].live => ruleRows[q].live
  BY DEF RowSet, RowGone
<1> QED
  BY <1>1, <1>2 DEF LiveKept, Live, RowsGrown

(* The rules that live are no more than before. *)
LEMMA KeptCount ==
    ASSUME RuleTypes, LiveKept
    PROVE  Cardinality(Live') \in Nat /\ Cardinality(Live') <= Cardinality(Live)
<1>1. IsFiniteSet(Live) /\ Live' \subseteq Live
  BY LiveFinite DEF LiveKept
<1> QED
  BY <1>1, FS_Subset, FS_CardinalityType

(* What no list or rule was made for, as one tab alone finds it. *)
TabAlone(b) ==
    /\ tab[b].at = "new list" => tracked = <<>>
    /\ tab[b].at \in {"count", "new rule"} => RulesOf(tab[b].list) = {}
    /\ tab[b].at = "new rule" => Cardinality(Live) < RuleLimit
OneRuleEach == \A r \in Live, q \in Live : ruleRows[r].list = ruleRows[q].list => r = q
OneTab == \A b \in Tabs, c \in Tabs : tab[b].at # "idle" /\ tab[c].at # "idle" => b = c

(* The invariant, tab by tab. *)
LEMMA AloneIs ==
    AloneTracks <=>
        (~crossed => /\ OneTab /\ Len(tracked) <= 1 /\ Cardinality(Live) <= RuleLimit /\ OneRuleEach
                     /\ \A b \in Tabs : TabAlone(b))
BY DEF AloneTracks, OneTab, OneRuleEach, TabAlone

(* With no new rule, no list has a second one. *)
LEMMA KeptRules ==
    ASSUME RuleTypes, LiveKept, OneRuleEach, Cardinality(Live) <= RuleLimit
    PROVE  OneRuleEach' /\ Cardinality(Live') <= RuleLimit
<1>1. OneRuleEach'
  BY DEF OneRuleEach, LiveKept
<1>2. Cardinality(Live) \in Nat /\ Cardinality(Live') \in Nat /\ Cardinality(Live') <= Cardinality(Live)
  BY LiveFinite, KeptCount
<1> QED
  BY <1>1, <1>2, RuleLimitAssumption

(* An idle tab has found nothing. *)
LEMMA IdleAlone == ASSUME NEW b \in Tabs, tab[b].at = "idle" PROVE TabAlone(b)
BY DEF TabAlone

(* The list made where there was none is the only one. *)
LEMMA FirstList == ASSUME tracked = <<>>, ListAdded PROVE Len(tracked') <= 1
<1>1. Len(tracked) = 0
  OBVIOUS
<1>2. Len(tracked') = Len(tracked) + 1
  BY DEF ListAdded, NextTracked
<1> QED
  BY <1>1, <1>2

(* The tab that is alone makes one list, and one rule for it, within the limit. *)
LEMMA AloneTracksKept ==
    ASSUME RuleTypes, AloneTracks, RuleMoves
    PROVE  AloneTracks'
<1> SUFFICES ASSUME ~crossed'
             PROVE  /\ OneTab' /\ Len(tracked') <= 1 /\ Cardinality(Live') <= RuleLimit /\ OneRuleEach'
                    /\ \A c \in Tabs : TabAlone(c)'
  BY DEF AloneTracks, OneTab, OneRuleEach, TabAlone
<1>1. ~crossed
  BY DEF RuleMoves, TabMoves, TrackBegun, ToggleBegun, TabBegun, ListFound, ItemFound, RuleSought,
     RuleMade,
         PageOpened, RuleRead, RulePatched, TabFailed, RuleFound, RuleDeleted, RulesStay, RuleFrame
<1>2. /\ OneTab /\ Len(tracked) <= 1 /\ Cardinality(Live) <= RuleLimit /\ OneRuleEach
      /\ \A b \in Tabs : TabAlone(b)
  BY <1>1, AloneIs
<1>3. ASSUME NEW b \in Tabs, TabBegun(b), tab'[b].at \in {"lists", "read"}
      PROVE  /\ OneTab' /\ Len(tracked') <= 1 /\ Cardinality(Live') <= RuleLimit /\ OneRuleEach'
             /\ \A c \in Tabs : TabAlone(c)'
  <2>1. tracked' = tracked /\ ruleRows' = ruleRows
    BY <1>3 DEF TabBegun
  <2>2. Cardinality(Live') <= RuleLimit /\ OneRuleEach'
    BY <1>2, <2>1, RowsSameLive, KeptRules
  <2>3. \A c \in Tabs \ {b} : tab'[c].at = "idle"
    BY <1>3 DEF TabBegun
  <2>4. OneTab'
    BY <2>3 DEF OneTab
  <2>5. \A c \in Tabs : TabAlone(c)'
    BY <1>3, <2>3 DEF TabAlone
  <2> QED
    BY <1>2, <2>1, <2>2, <2>4, <2>5
<1>4. ASSUME NEW b \in Tabs, tab[b].at # "idle", \A c \in Tabs \ {b} : tab'[c] = tab[c]
      PROVE  OneTab' /\ \A c \in Tabs \ {b} : TabAlone(c)'
  <2>1. \A c \in Tabs \ {b} : tab'[c].at = "idle"
    BY <1>2, <1>4 DEF OneTab
  <2> QED
    BY <2>1 DEF OneTab, TabAlone
<1>5. ASSUME NEW b \in Tabs, ListFound(b)
      PROVE  /\ OneTab' /\ Len(tracked') <= 1 /\ Cardinality(Live') <= RuleLimit /\ OneRuleEach'
             /\ \A c \in Tabs : TabAlone(c)'
  <2>1. tab[b].at # "idle" /\ (\A c \in Tabs \ {b} : tab'[c] = tab[c]) /\ ruleRows' = ruleRows
    BY <1>5 DEF ListFound, TabGoes
  <2>2. TabAlone(b)' /\ Len(tracked') <= 1
    <3>1. CASE tab[b].at = "new list" /\ TabGoes(b, "detail") /\ ListAdded
      <4>1. Len(tracked') <= 1
        BY <1>2, <3>1, FirstList DEF TabAlone
      <4> QED
        BY <3>1, <4>1 DEF TabAlone, TabGoes
    <3>2. CASE tracked' = tracked
      BY <1>2, <1>5, <3>2 DEF ListFound, TabAlone, TabGoes
    <3> QED
      BY <1>5, <3>1, <3>2 DEF ListFound
  <2> QED
    BY <1>2, <1>4, <2>1, <2>2, RowsSameLive, KeptRules
<1>6. ASSUME NEW b \in Tabs, ItemFound(b)
      PROVE  /\ OneTab' /\ Len(tracked') <= 1 /\ Cardinality(Live') <= RuleLimit /\ OneRuleEach'
             /\ \A c \in Tabs : TabAlone(c)'
  <2>1. tab[b].at # "idle" /\ (\A c \in Tabs \ {b} : tab'[c] = tab[c]) /\ ruleRows' = ruleRows
    BY <1>6 DEF ItemFound, TabGoes
  <2>2. TabAlone(b)' /\ Len(tracked') = Len(tracked)
    BY <1>6 DEF ItemFound, TabAlone, TabGoes, ItemAdded
  <2> QED
    BY <1>2, <1>4, <2>1, <2>2, RowsSameLive, KeptRules
<1>7. ASSUME NEW b \in Tabs, RuleSought(b)
      PROVE  /\ OneTab' /\ Len(tracked') <= 1 /\ Cardinality(Live') <= RuleLimit /\ OneRuleEach'
             /\ \A c \in Tabs : TabAlone(c)'
  <2>1. /\ tab[b].at # "idle" /\ (\A c \in Tabs \ {b} : tab'[c] = tab[c])
        /\ ruleRows' = ruleRows /\ tracked' = tracked
    BY <1>7 DEF RuleSought, TabGoes
  <2>2. TabAlone(b)'
    <3>1. tab'[b].at \in {"count", "new rule"} => tab'[b].list = tab[b].list /\ RulesOf(tab[b].list) = {}
      BY <1>2, <1>7 DEF RuleSought, TabAlone, TabGoes, KeepsTab
    <3>2. /\ tab'[b].at # "new list"
          /\ tab'[b].at = "new rule" => Cardinality(Live) < RuleLimit
      BY <1>7 DEF RuleSought, TabGoes
    <3> QED
      BY <2>1, <3>1, <3>2 DEF TabAlone, RulesOf, Live
  <2> QED
    BY <1>2, <1>4, <2>1, <2>2, RowsSameLive, KeptRules
<1>8. ASSUME NEW b \in Tabs,
             \/ \E r \in DOMAIN ruleRows : RuleFound(b, r)
             \/ RuleRead(b)
      PROVE  /\ OneTab' /\ Len(tracked') <= 1 /\ Cardinality(Live') <= RuleLimit /\ OneRuleEach'
             /\ \A c \in Tabs : TabAlone(c)'
  <2>1. /\ tab[b].at # "idle" /\ (\A c \in Tabs \ {b} : tab'[c] = tab[c])
        /\ ruleRows' = ruleRows /\ tracked' = tracked /\ tab'[b].at \in {"idle", "patch"}
    BY <1>8 DEF RuleFound, RuleRead, TabGoes
  <2>2. TabAlone(b)'
    BY <2>1 DEF TabAlone
  <2> QED
    BY <1>2, <1>4, <2>1, <2>2, RowsSameLive, KeptRules
<1>9. ASSUME NEW b \in Tabs, tab[b].at = "new rule", TabGoes(b, "idle"), RowAdded(b), tracked' = tracked
      PROVE  /\ OneTab' /\ Len(tracked') <= 1 /\ Cardinality(Live') <= RuleLimit /\ OneRuleEach'
             /\ \A c \in Tabs : TabAlone(c)'
  <2>1. OneTab' /\ \A c \in Tabs : TabAlone(c)'
    BY <1>4, <1>9 DEF TabGoes, TabAlone
  <2>2. /\ Cardinality(Live) < RuleLimit /\ RulesOf(tab[b].list) = {} /\ NextRow \notin DOMAIN ruleRows
        /\ DOMAIN ruleRows' = DOMAIN ruleRows \cup {NextRow} /\ ruleRows'[NextRow].list = tab[b].list
        /\ \A r \in DOMAIN ruleRows : ruleRows'[r] = ruleRows[r]
    BY <1>2, <1>9, RowAddedGrows DEF TabAlone, RowAdded
  <2>3. Live' \subseteq Live \cup {NextRow} /\ NextRow \notin Live
    BY <2>2 DEF Live
  <2>4. OneRuleEach'
    BY <1>2, <2>2, <2>3 DEF OneRuleEach, RulesOf, Live
  <2>5. Cardinality(Live') <= RuleLimit
    <3>1. /\ IsFiniteSet(Live \cup {NextRow})
          /\ Cardinality(Live \cup {NextRow}) = Cardinality(Live) + 1 /\ Cardinality(Live) \in Nat
      BY <2>3, LiveFinite, OneMore, FS_AddElement
    <3>2. Cardinality(Live') \in Nat /\ Cardinality(Live') <= Cardinality(Live) + 1
      BY <2>3, <3>1, FS_Subset, FS_CardinalityType
    <3> QED
      BY <2>2, <3>1, <3>2, RuleLimitAssumption
  <2> QED
    BY <1>2, <1>9, <2>1, <2>4, <2>5
<1>10. ASSUME NEW b \in Tabs, tab[b].at = "patch", TabGoes(b, "idle"), RowSet(tab[b].rule, tab[b].row),
              tracked' = tracked
       PROVE  /\ OneTab' /\ Len(tracked') <= 1 /\ Cardinality(Live') <= RuleLimit /\ OneRuleEach'
              /\ \A c \in Tabs : TabAlone(c)'
  <2>1. OneTab' /\ \A c \in Tabs : TabAlone(c)'
    BY <1>4, <1>10 DEF TabGoes, TabAlone
  <2>2. tab[b].rule \in DOMAIN ruleRows
    BY <1>10, PatchedIsRow
  <2> QED
    BY <1>2, <1>10, <2>1, <2>2, RowSetLive, KeptRules
<1>11. ASSUME NEW b \in Tabs, TabFailed(b)
       PROVE  /\ OneTab' /\ Len(tracked') <= 1 /\ Cardinality(Live') <= RuleLimit /\ OneRuleEach'
              /\ \A c \in Tabs : TabAlone(c)'
  <2>1. TabGoes(b, "idle") /\ OneTab' /\ \A c \in Tabs : TabAlone(c)'
    BY <1>4, <1>11 DEF TabFailed, TabGoes, TabAlone
  <2>2. CASE UNCHANGED <<tracked, ruleRows>>
    BY <1>2, <2>1, <2>2, RowsSameLive, KeptRules
  <2>3. CASE tab[b].at = "new list" /\ ListAdded /\ UNCHANGED ruleRows
    <3>1. Len(tracked') <= 1
      BY <1>2, <2>3, FirstList DEF TabAlone
    <3> QED
      BY <1>2, <2>1, <2>3, <3>1, RowsSameLive, KeptRules
  <2>4. CASE tab[b].at = "write" /\ ItemAdded(b) /\ UNCHANGED ruleRows
    <3>1. Len(tracked') = Len(tracked)
      BY <2>4 DEF ItemAdded
    <3> QED
      BY <1>2, <2>1, <2>4, <3>1, RowsSameLive, KeptRules
  <2> QED
    BY <1>9, <1>10, <1>11, <2>1, <2>2, <2>3, <2>4 DEF TabFailed
<1>12. ASSUME tab' = tab, tracked' = tracked, LiveKept
       PROVE  /\ OneTab' /\ Len(tracked') <= 1 /\ Cardinality(Live') <= RuleLimit /\ OneRuleEach'
              /\ \A c \in Tabs : TabAlone(c)'
  <2>1. Cardinality(Live) \in Nat /\ Cardinality(Live') \in Nat /\ Cardinality(Live') <= Cardinality(Live)
    BY <1>12, LiveFinite, KeptCount
  <2>2. ASSUME NEW c \in Tabs PROVE TabAlone(c)'
    <3>1. TabAlone(c) /\ tab'[c] = tab[c]
      BY <1>2, <1>12
    <3>2. tab[c].at = "new list" => tracked' = <<>>
      BY <1>12, <3>1 DEF TabAlone
    <3>3. RulesOf(tab[c].list) = {} => RulesOf(tab[c].list)' = {}
      BY <1>12, <3>1 DEF RulesOf, LiveKept
    <3>4. Cardinality(Live) < RuleLimit => Cardinality(Live') < RuleLimit
      BY <2>1, RuleLimitAssumption
    <3> QED
      BY <3>1, <3>2, <3>3, <3>4 DEF TabAlone
  <2>3. OneTab' /\ Len(tracked') <= 1
    BY <1>2, <1>12 DEF OneTab
  <2> QED
    BY <1>2, <1>12, <2>2, <2>3, KeptRules
<1>13. ASSUME NEW b \in Tabs, TabMoves(b)
       PROVE  /\ OneTab' /\ Len(tracked') <= 1 /\ Cardinality(Live') <= RuleLimit /\ OneRuleEach'
              /\ \A c \in Tabs : TabAlone(c)'
  <2>1. ASSUME TrackBegun(b) \/ \E r \in DOMAIN ruleRows, what \in {"enabled", "snooze"} : ToggleBegun(b, r, what)
        PROVE  TabBegun(b) /\ tab'[b].at \in {"lists", "read"}
    BY <2>1 DEF TrackBegun, ToggleBegun
  <2>2. ASSUME RuleMade(b)
        PROVE  tab[b].at = "new rule" /\ TabGoes(b, "idle") /\ RowAdded(b) /\ tracked' = tracked
    BY <2>2 DEF RuleMade
  <2>3. ASSUME RulePatched(b)
        PROVE  /\ tab[b].at = "patch" /\ TabGoes(b, "idle") /\ RowSet(tab[b].rule, tab[b].row)
               /\ tracked' = tracked
    BY <2>3 DEF RulePatched
  <2>4. ASSUME PageOpened(b) PROVE tab' = tab /\ tracked' = tracked /\ LiveKept
    BY <2>4, RowsSameLive DEF PageOpened
  <2> QED
    BY <1>3, <1>5, <1>6, <1>7, <1>8, <1>9, <1>10, <1>11, <1>12, <1>13, <2>1, <2>2, <2>3,
       <2>4 DEF TabMoves
<1>14. ASSUME NEW r \in DOMAIN ruleRows, RuleDeleted(r) PROVE tab' = tab /\ tracked' = tracked /\ LiveKept
  BY <1>14, RowSetLive DEF RuleDeleted
<1>15. ASSUME RulesStay PROVE tab' = tab /\ tracked' = tracked /\ LiveKept
  BY <1>15, RowsSameLive DEF RulesStay
<1> QED
  <2>1. CASE \E b \in Tabs : TabMoves(b)
    BY <1>13, <2>1
  <2>2. CASE (\E r \in DOMAIN ruleRows : RuleDeleted(r)) \/ RulesStay
    <3>1. tab' = tab /\ tracked' = tracked /\ LiveKept
      BY <1>14, <1>15, <2>2
    <3> QED
      BY <1>12, <3>1
  <2> QED
    BY <2>1, <2>2 DEF RuleMoves

(* What was said of rules is of rules there are. *)
SaidOfRows ==
    (\A s \in saidEnabled : s[1] \in DOMAIN ruleRows) /\ (\A s \in saidSnooze : s[1] \in DOMAIN ruleRows)
SaidHolds ==
    /\ \A s \in saidEnabled : ruleRows[s[1]].enabled = s[2]
    /\ \A s \in saidSnooze : ruleRows[s[1]].snooze = s[2]
TabSaid(b) ==
    /\ tab[b].at \in {"read", "patch"} /\ tab[b].what = "enabled"
          => \A s \in saidEnabled : s[1] # tab[b].rule
    /\ tab[b].at \in {"read", "patch"} /\ tab[b].what = "snooze"
          => \A s \in saidSnooze : s[1] # tab[b].rule
    /\ tab[b].at = "patch" /\ tab[b].what = "enabled"
          => tab[b].row.snooze = ruleRows[tab[b].rule].snooze
    /\ tab[b].at = "patch" /\ tab[b].what = "snooze"
          => tab[b].row.enabled = ruleRows[tab[b].rule].enabled

(* The invariant, rule by rule and tab by tab. *)
LEMMA SaidIs == SaidOfRules <=> SaidOfRows /\ (~crossed => SaidHolds /\ \A c \in Tabs : TabSaid(c))
BY DEF SaidOfRules, SaidOfRows, SaidHolds, TabSaid

(* No rule changes but to be deleted, and nothing new is said. *)
RowsEven ==
    /\ \A q \in DOMAIN ruleRows :
          ruleRows'[q].enabled = ruleRows[q].enabled /\ ruleRows'[q].snooze = ruleRows[q].snooze
    /\ saidEnabled' \subseteq saidEnabled /\ saidSnooze' \subseteq saidSnooze

(* What was said of a rule stays so while the rule is as it was, *)
LEMMA EvenHolds ==
    ASSUME SaidOfRows, RowsGrown, RowsEven
    PROVE  SaidOfRows' /\ (SaidHolds => SaidHolds')
BY DEF SaidOfRows, RowsGrown, RowsEven, SaidHolds

(* and a tab's copy of it stays good. *)
LEMMA EvenTab ==
    ASSUME RuleTypes, RowsEven, NEW c \in Tabs, TabSaid(c), tab'[c] = tab[c]
    PROVE  TabSaid(c)'
<1>1. TabFits(c)
  BY TabsFit
<1> QED
  BY <1>1 DEF TabSaid, RowsEven, TabFits

(* Rules that nobody writes are as they were. *)
LEMMA SameEven == ASSUME ruleRows' = ruleRows, UNCHANGED said PROVE RowsEven
BY DEF RowsEven, said

(* A tab that changes no rule has no copy of one. *)
LEMMA IdleSaid == ASSUME NEW c \in Tabs, tab'[c].at \notin {"read", "patch"} PROVE TabSaid(c)'
BY DEF TabSaid

(* Every step but the one that writes a changed rule leaves the rules as they were. *)
LEMMA TabEven ==
    ASSUME RuleTypes, NEW b \in Tabs, TabMoves(b), ~RulePatched(b),
           ~(TabFailed(b) /\ tab[b].at = "patch" /\ RowSet(tab[b].rule, tab[b].row))
    PROVE  RowsEven
<1>1. CASE RuleMade(b)
  BY <1>1 DEF RuleMade, RowAdded, RowsEven
<1>2. CASE TabFailed(b)
  BY <1>2 DEF TabFailed, RowAdded, RowsEven
<1>3. CASE TrackBegun(b) \/ ListFound(b) \/ ItemFound(b) \/ RuleSought(b) \/ PageOpened(b) \/ RuleRead(b)
  BY <1>3, SameEven DEF TrackBegun, TabBegun, ListFound, ItemFound, RuleSought, PageOpened, RuleRead
<1>4. ASSUME NEW r \in DOMAIN ruleRows, NEW what \in {"enabled", "snooze"}, ToggleBegun(b, r, what)
      PROVE  RowsEven
  BY <1>4 DEF ToggleBegun, TabBegun, RowsEven
<1>5. ASSUME NEW r \in DOMAIN ruleRows, RuleFound(b, r) PROVE RowsEven
  BY <1>5 DEF RuleFound, RowsEven
<1> QED
  BY <1>1, <1>2, <1>3, <1>4, <1>5 DEF TabMoves

(* A rule written with the tab's copy has what was said of it, but for what the tab changes. *)
LEMMA WrittenSaid ==
    ASSUME RuleTypes, SaidOfRows, NEW b \in Tabs, tab[b].at = "patch", RowSet(tab[b].rule, tab[b].row),
           \/ RulePatched(b)
           \/ TabFailed(b)
    PROVE  SaidOfRows' /\ (SaidHolds /\ TabSaid(b) => SaidHolds')
<1> PICK r : r = tab[b].rule
  OBVIOUS
<1>1. /\ r \in DOMAIN ruleRows /\ DOMAIN ruleRows' = DOMAIN ruleRows
      /\ tab[b].what \in {"enabled", "snooze"}
  BY PatchedIsRow, RowSetGrows, TabsFit DEF TabFits
<1>2. /\ \A q \in DOMAIN ruleRows : q # r => ruleRows'[q] = ruleRows[q]
      /\ ruleRows'[r].enabled = tab[b].row.enabled /\ ruleRows'[r].snooze = tab[b].row.snooze
  BY DEF RowSet
<1>3. CASE RulePatched(b)
  <2>1. CASE tab[b].what = "enabled"
    <3>1. /\ saidEnabled' = {s \in saidEnabled : s[1] # r} \cup {<<r, tab[b].row.enabled>>}
          /\ saidSnooze' = saidSnooze
      BY <1>3, <2>1 DEF RulePatched
    <3>2. SaidOfRows'
      BY <1>1, <3>1 DEF SaidOfRows
    <3>3. ASSUME SaidHolds, TabSaid(b) PROVE SaidHolds'
      <4>1. ruleRows'[r].snooze = ruleRows[r].snooze
        BY <1>2, <2>1, <3>3 DEF TabSaid
      <4> QED
        BY <1>1, <1>2, <3>1, <3>3, <4>1 DEF SaidHolds, SaidOfRows
    <3> QED
      BY <3>2, <3>3
  <2>2. CASE tab[b].what = "snooze"
    <3>1. /\ saidSnooze' = {s \in saidSnooze : s[1] # r} \cup {<<r, tab[b].row.snooze>>}
          /\ saidEnabled' = saidEnabled
      BY <1>3, <2>2 DEF RulePatched
    <3>2. SaidOfRows'
      BY <1>1, <3>1 DEF SaidOfRows
    <3>3. ASSUME SaidHolds, TabSaid(b) PROVE SaidHolds'
      <4>1. ruleRows'[r].enabled = ruleRows[r].enabled
        BY <1>2, <2>2, <3>3 DEF TabSaid
      <4> QED
        BY <1>1, <1>2, <3>1, <3>3, <4>1 DEF SaidHolds, SaidOfRows
    <3> QED
      BY <3>2, <3>3
  <2> QED
    BY <1>1, <2>1, <2>2
<1>4. CASE TabFailed(b)
  <2>1. saidEnabled' = {s \in saidEnabled : s[1] # r} /\ saidSnooze' = {s \in saidSnooze : s[1] # r}
    BY <1>4 DEF TabFailed
  <2> QED
    BY <1>1, <1>2, <2>1 DEF SaidOfRows, SaidHolds
<1> QED
  BY <1>3, <1>4

(* The tab that moved has a good copy. *)
LEMMA MoverSaid ==
    ASSUME RuleTypes, NEW b \in Tabs, TabSaid(b), TabMoves(b)
    PROVE  TabSaid(b)'
<1>1. CASE \E r \in DOMAIN ruleRows, what \in {"enabled", "snooze"} : ToggleBegun(b, r, what)
  BY <1>1 DEF ToggleBegun, TabSaid
<1>2. CASE RuleRead(b)
  BY <1>2 DEF RuleRead, TabSaid, TabGoes, KeepsTab, said
<1>3. CASE PageOpened(b)
  BY <1>3, SameEven, EvenTab DEF PageOpened
<1>4. CASE TrackBegun(b) \/ ListFound(b) \/ ItemFound(b) \/ RuleSought(b)
  BY <1>4, IdleSaid DEF TrackBegun, ListFound, ItemFound, RuleSought, TabGoes
<1>5. CASE RuleMade(b) \/ RulePatched(b) \/ TabFailed(b) \/ \E r \in DOMAIN ruleRows : RuleFound(b, r)
  BY <1>5, IdleSaid DEF RuleMade, RulePatched, TabFailed, RuleFound, TabGoes
<1> QED
  BY <1>1, <1>2, <1>3, <1>4, <1>5 DEF TabMoves

(* While one tab is at work the others are idle, before and after. *)
LEMMA OthersIdle ==
    ASSUME RuleTypes, AloneTracks, ~crossed', NEW b \in Tabs, TabMoves(b), NEW c \in Tabs \ {b}
    PROVE  tab'[c] = tab[c] /\ (tab[c].at = "idle" \/ PageOpened(b)) /\ ~crossed
<1>1. tab'[c] = tab[c]
  BY OthersStay
<1>2. ASSUME tab[b].at # "idle", ~crossed PROVE tab[c].at = "idle"
  BY <1>2 DEF AloneTracks
<1>3. CASE TrackBegun(b) \/ \E r \in DOMAIN ruleRows, what \in {"enabled", "snooze"} : ToggleBegun(b, r, what)
  BY <1>1, <1>3 DEF TrackBegun, ToggleBegun, TabBegun
<1>4. CASE PageOpened(b)
  BY <1>1, <1>4 DEF PageOpened, RuleFrame
<1>5. CASE ListFound(b) \/ ItemFound(b) \/ RuleSought(b) \/ RuleRead(b)
  <2>1. tab[b].at # "idle" /\ crossed' = crossed
    BY <1>5 DEF ListFound, ItemFound, RuleSought, RuleRead, RuleFrame
  <2> QED
    BY <1>1, <1>2, <2>1
<1>6. CASE RuleMade(b) \/ RulePatched(b) \/ TabFailed(b) \/ \E r \in DOMAIN ruleRows : RuleFound(b, r)
  <2>1. tab[b].at # "idle" /\ crossed' = crossed
    BY <1>6 DEF RuleMade, RulePatched, TabFailed, RuleFound, RuleFrame, TabGoes
  <2> QED
    BY <1>1, <1>2, <2>1
<1> QED
  BY <1>3, <1>4, <1>5, <1>6 DEF TabMoves

(* Tabs that have not crossed had not before. *)
LEMMA UncrossedBefore == ASSUME RuleMoves, ~crossed' PROVE ~crossed
BY DEF RuleMoves, TabMoves, TrackBegun, ToggleBegun, TabBegun, ListFound, ItemFound, RuleSought,
   RuleMade, PageOpened, RuleRead, RulePatched, TabFailed, RuleFound, RuleDeleted, RulesStay, RuleFrame

(* The lists lose nothing. *)
ListsKeep == \A l \in DOMAIN tracked : tracked[l] \subseteq tracked'[l]

(* A tab that has all of the list it writes back loses nothing. *)
LEMMA ItemAddedKeeps ==
    ASSUME RuleTypes, NEW b \in Tabs, tab[b].at = "write", ItemAdded(b), TabActive(b)
    PROVE  ListsKeep /\ (storesItems => tab[b].wallet \in tracked'[tab[b].list])
<1>1. tracked[tab[b].list] \cup {tab[b].wallet} \subseteq tab[b].items /\ storesItems \in BOOLEAN
  BY DEF TabActive, RuleTypes
<1> QED
  BY <1>1 DEF ItemAdded, ListsKeep

(* So no step of such a tab loses anything. *)
LEMMA TabKeepsLists ==
    ASSUME RuleTypes, NEW b \in Tabs, TabMoves(b), TabActive(b)
    PROVE  ListsKeep
<1>1. tracked' = tracked => ListsKeep
  BY DEF ListsKeep
<1>2. ListAdded => ListsKeep
  BY DEF ListsKeep, ListAdded
<1>3. CASE ItemFound(b) \/ TabFailed(b)
  BY <1>1, <1>2, <1>3, ItemAddedKeeps DEF ItemFound, TabFailed
<1>4. CASE ~(ItemFound(b) \/ TabFailed(b))
  BY <1>1, <1>2, <1>4
     DEF TabMoves, TrackBegun, ToggleBegun, TabBegun, ListFound, RuleSought, RuleMade, PageOpened,
         RuleRead, RulePatched, RuleFound
<1> QED
  BY <1>3, <1>4

(* The tab that moved has what it comes to the rules with, *)
LEMMA MoverActive ==
    ASSUME RuleTypes, NEW b \in Tabs, TabActive(b), TabMoves(b)
    PROVE TabActive(b)'
<1>1. TabFits(b) /\ storesItems' = storesItems
  BY TabsFit, OthersStay
<1>2. CASE TrackBegun(b) \/ ListFound(b)
  BY <1>2 DEF TrackBegun, ListFound, TabActive, TabGoes
<1>3. CASE ItemFound(b)
  BY <1>1, <1>3, ItemAddedKeeps DEF ItemFound, TabActive, TabGoes, KeepsTab
<1>4. CASE RuleSought(b)
  BY <1>1, <1>4 DEF RuleSought, TabActive, TabGoes, KeepsTab
<1>5. CASE RuleMade(b) \/ RulePatched(b) \/ TabFailed(b)
  BY <1>5 DEF RuleMade, RulePatched, TabFailed, TabActive, TabGoes
<1>6. CASE PageOpened(b)
  BY <1>1, <1>6 DEF PageOpened, TabActive
<1>7. CASE RuleRead(b)
  BY <1>7 DEF RuleRead, TabActive, TabGoes
<1>8. ASSUME NEW r \in DOMAIN ruleRows, NEW what \in {"enabled", "snooze"}, ToggleBegun(b, r, what)
      PROVE  TabActive(b)'
  BY <1>8 DEF ToggleBegun, TabActive
<1>9. ASSUME NEW r \in DOMAIN ruleRows, RuleFound(b, r) PROVE TabActive(b)'
  BY <1>9 DEF RuleFound, TabActive, TabGoes
<1> QED
  BY <1>2, <1>3, <1>4, <1>5, <1>6, <1>7, <1>8, <1>9 DEF TabMoves

(* and the others have nothing to lose. *)
LEMMA OthersActive ==
    ASSUME RuleTypes, AloneTracks, ~crossed', NEW b \in Tabs, TabMoves(b), NEW c \in Tabs \ {b}, TabActive(c)
    PROVE  TabActive(c)'
<1>1. tab'[c] = tab[c] /\ (tab[c].at = "idle" \/ PageOpened(b)) /\ storesItems' = storesItems
  BY OthersIdle, OthersStay
<1>2. CASE tab[c].at = "idle"
  BY <1>1, <1>2 DEF TabActive
<1>3. CASE PageOpened(b)
  BY <1>1, <1>3 DEF PageOpened, TabActive
<1> QED
  BY <1>1, <1>2, <1>3

(* What was said of a list and its rule stays so, *)
LEMMA SaidGrows ==
    ASSUME RuleTypes, TrackedGrown, RowsGrown, NEW a, SaidOfList(a)
    PROVE  SaidOfList(a)'
BY DEF SaidOfList, TrackedGrown, RowsGrown

(* and what is newly said is so: of the rule, *)
LEMMA SaidOfRule ==
    ASSUME RuleTypes, NEW b \in Tabs, TabMoves(b), \A a \in active : SaidOfList(a)
    PROVE  \A a \in active' : SaidOfList(a)'
<1>1. TrackedGrown /\ RowsGrown /\ TabFits(b)
  BY TabGrows, TabsFit
<1>2. \A a \in active : SaidOfList(a)'
  BY <1>1, SaidGrows
<1>3. ASSUME NEW r \in DOMAIN ruleRows, RuleFound(b, r) PROVE \A a \in active' : SaidOfList(a)'
  <2> PICK a1 : a1 = <<tab[b].wallet, tab[b].list, r>>
    OBVIOUS
  <2>1. SaidOfList(a1)
    BY <1>1, <1>3 DEF SaidOfList, RuleFound, TabFits, RulesOf, Live
  <2>2. SaidOfList(a1)'
    BY <1>3, <2>1 DEF RuleFound, SaidOfList
  <2>3. active' = active \cup {a1}
    BY <1>3 DEF RuleFound
  <2> QED
    BY <1>2, <2>2, <2>3
<1>4. ASSUME RuleMade(b) PROVE \A a \in active' : SaidOfList(a)'
  <2>1. /\ tab[b].list \in DOMAIN tracked /\ tracked' = tracked
        /\ NextRow \in DOMAIN ruleRows' /\ ruleRows'[NextRow].list = tab[b].list
        /\ active' = active \cup {<<tab[b].wallet, tab[b].list, NextRow>>}
    BY <1>1, <1>4, RowAddedGrows DEF RuleMade, TabFits, RowAdded
  <2> QED
    BY <1>2, <2>1 DEF SaidOfList
<1>5. ASSUME active' = active PROVE \A a \in active' : SaidOfList(a)'
  BY <1>2, <1>5
<1> QED
  BY <1>3, <1>4, <1>5
     DEF TabMoves, TrackBegun, ToggleBegun, ListFound, ItemFound, RuleSought, PageOpened, RuleRead,
         RulePatched, TabFailed, said

(* and of the wallet, where no list has lost any. *)
LEMMA SaidOfWallet ==
    ASSUME RuleTypes, NEW b \in Tabs, TabMoves(b), TabActive(b), \A a \in active : SaidOfList(a) /\ ListHas(a)
    PROVE  \A a \in active' : ListHas(a)'
<1>1. ListsKeep /\ storesItems' = storesItems
  BY TabKeepsLists, OthersStay
<1>2. \A a \in active : ListHas(a)'
  BY <1>1 DEF ListHas, SaidOfList, ListsKeep
<1>3. ASSUME tab[b].at \in {"rules", "new rule"}, tracked' = tracked,
             NEW r, active' = active \cup {<<tab[b].wallet, tab[b].list, r>>}
      PROVE  \A a \in active' : ListHas(a)'
  <2>1. storesItems => tab[b].wallet \in tracked[tab[b].list]
    BY <1>3 DEF TabActive
  <2> PICK a1 : a1 = <<tab[b].wallet, tab[b].list, r>>
    OBVIOUS
  <2>2. ListHas(a1)'
    BY <1>1, <1>3, <2>1 DEF ListHas
  <2>3. active' = active \cup {a1}
    BY <1>3
  <2> QED
    BY <1>2, <2>2, <2>3
<1>4. ASSUME active' = active PROVE \A a \in active' : ListHas(a)'
  BY <1>2, <1>4
<1>5. RuleMade(b) => tab[b].at = "new rule" /\ tracked' = tracked
                     /\ active' = active \cup {<<tab[b].wallet, tab[b].list, NextRow>>}
  BY DEF RuleMade
<1>6. ASSUME NEW r \in DOMAIN ruleRows, RuleFound(b, r) PROVE \A a \in active' : ListHas(a)'
  BY <1>3, <1>6 DEF RuleFound
<1> QED
  BY <1>3, <1>4, <1>5, <1>6
     DEF TabMoves, TrackBegun, ToggleBegun, ListFound, ItemFound, RuleSought, PageOpened, RuleRead,
         RulePatched, TabFailed, said

(* A wallet said to be tracked is on its list and the rule is the list's. *)
LEMMA ActiveKept == ASSUME RuleTypes, AloneTracks, ActiveIsSo, RuleMoves PROVE ActiveIsSo'
<1>1. (\A a \in active : SaidOfList(a))
      /\ (~crossed => (\A a \in active : ListHas(a)) /\ (\A b \in Tabs : TabActive(b)))
  BY DEF ActiveIsSo
<1>2. ~crossed' => ~crossed
  BY UncrossedBefore
<1>3. ASSUME NEW b \in Tabs, TabMoves(b)
      PROVE  /\ \A a \in active' : SaidOfList(a)'
             /\ ~crossed' => (\A a \in active' : ListHas(a)') /\ (\A c \in Tabs : TabActive(c)')
  <2>1. \A a \in active' : SaidOfList(a)'
    BY <1>1, <1>3, SaidOfRule
  <2>2. ASSUME ~crossed' PROVE (\A a \in active' : ListHas(a)') /\ (\A c \in Tabs : TabActive(c)')
    <3>1. (\A a \in active : SaidOfList(a) /\ ListHas(a)) /\ (\A c \in Tabs : TabActive(c))
      BY <1>1, <1>2, <2>2
    <3>2. \A c \in Tabs \ {b} : TabActive(c)'
      BY <1>3, <2>2, <3>1, OthersActive
    <3>3. TabActive(b)'
      BY <1>3, <3>1, MoverActive
    <3>4. \A a \in active' : ListHas(a)'
      BY <1>3, <3>1, SaidOfWallet
    <3> QED
      BY <3>2, <3>3, <3>4
  <2> QED
    BY <2>1, <2>2
<1>4. ASSUME \/ \E r \in DOMAIN ruleRows : RuleDeleted(r)
             \/ RulesStay
      PROVE  /\ \A a \in active' : SaidOfList(a)'
             /\ ~crossed' => (\A a \in active' : ListHas(a)') /\ (\A c \in Tabs : TabActive(c)')
  <2>1. /\ tab' = tab /\ storesItems' = storesItems /\ active' = active /\ tracked' = tracked
        /\ TrackedGrown /\ RowsGrown
    BY <1>4, RulesGrow DEF RuleDeleted, RulesStay, RuleFrame, said
  <2>2. \A a \in active' : SaidOfList(a)'
    BY <1>1, <2>1, SaidGrows
  <2> QED
    BY <1>1, <1>2, <2>1, <2>2 DEF ListHas, TabActive
<1>5. /\ \A a \in active' : SaidOfList(a)'
      /\ ~crossed' => (\A a \in active' : ListHas(a)') /\ (\A c \in Tabs : TabActive(c)')
  BY <1>3, <1>4 DEF RuleMoves
<1> QED
  BY <1>5 DEF ActiveIsSo

(* A rule is as was last said of it, whichever tab moves. *)
LEMMA SaidKept == ASSUME RuleTypes, AloneTracks, SaidOfRules, RuleMoves PROVE SaidOfRules'
<1>1. RowsGrown /\ SaidOfRows
  BY RulesGrow, SaidIs
<1>2. ~crossed => SaidHolds /\ \A c \in Tabs : TabSaid(c)
  BY SaidIs
<1>3. ASSUME NEW b \in Tabs, TabMoves(b)
      PROVE  SaidOfRows' /\ (~crossed' => SaidHolds' /\ \A c \in Tabs : TabSaid(c)')
  <2>1. CASE \/ RulePatched(b)
             \/ TabFailed(b) /\ tab[b].at = "patch" /\ RowSet(tab[b].rule, tab[b].row)
    <3>1. tab[b].at = "patch" /\ RowSet(tab[b].rule, tab[b].row) /\ crossed' = crossed
      BY <2>1 DEF RulePatched, TabFailed, RuleFrame
    <3>2. SaidOfRows' /\ (SaidHolds /\ TabSaid(b) => SaidHolds')
      BY <1>1, <2>1, <3>1, WrittenSaid
    <3>3. ASSUME ~crossed', NEW c \in Tabs \ {b} PROVE TabSaid(c)'
      <4>1. tab[c].at = "idle" \/ PageOpened(b)
        BY <1>3, <3>3, OthersIdle
      <4>2. tab'[c] = tab[c] /\ ~PageOpened(b)
        BY <1>3, <3>1, OthersStay DEF PageOpened
      <4> QED
        BY <4>1, <4>2, IdleSaid
    <3> QED
      BY <1>2, <1>3, <3>1, <3>2, <3>3, MoverSaid
  <2>2. CASE ~ \/ RulePatched(b)
               \/ TabFailed(b) /\ tab[b].at = "patch" /\ RowSet(tab[b].rule, tab[b].row)
    <3>1. RowsEven
      BY <1>3, <2>2, TabEven
    <3>2. SaidOfRows' /\ (SaidHolds => SaidHolds')
      BY <1>1, <3>1, EvenHolds
    <3>3. ASSUME ~crossed' PROVE ~crossed
      BY <1>3, <3>3 DEF TabMoves, TrackBegun, ToggleBegun, TabBegun, ListFound, ItemFound, RuleSought,
         RuleMade,
             PageOpened, RuleRead, RulePatched, TabFailed, RuleFound, RuleFrame
    <3>4. ASSUME ~crossed', NEW c \in Tabs \ {b} PROVE TabSaid(c)'
      BY <1>2, <1>3, <3>1, <3>3, <3>4, OthersStay, EvenTab
    <3> QED
      BY <1>2, <1>3, <3>2, <3>3, <3>4, MoverSaid
  <2> QED
    BY <2>1, <2>2
<1>4. ASSUME tab' = tab, crossed' = crossed, RowsEven
      PROVE  SaidOfRows' /\ (~crossed' => SaidHolds' /\ \A c \in Tabs : TabSaid(c)')
  <2>1. SaidOfRows' /\ (SaidHolds => SaidHolds')
    BY <1>1, <1>4, EvenHolds
  <2>2. ASSUME ~crossed', NEW c \in Tabs PROVE TabSaid(c)'
    BY <1>2, <1>4, <2>2, EvenTab
  <2> QED
    BY <1>2, <1>4, <2>1, <2>2
<1>5. ASSUME NEW r \in DOMAIN ruleRows, RuleDeleted(r) PROVE tab' = tab /\ crossed' = crossed /\ RowsEven
  BY <1>5 DEF RuleDeleted, RuleFrame, RowGone, RowsEven, said
<1>6. ASSUME RulesStay PROVE tab' = tab /\ crossed' = crossed /\ RowsEven
  BY <1>6, SameEven DEF RulesStay
<1>7. CASE \E b \in Tabs : TabMoves(b)
  <2>1. SaidOfRows' /\ (~crossed' => SaidHolds' /\ \A c \in Tabs : TabSaid(c)')
    BY <1>3, <1>7
  <2> QED
    BY <2>1 DEF SaidOfRules, SaidOfRows, SaidHolds, TabSaid
<1>8. CASE (\E r \in DOMAIN ruleRows : RuleDeleted(r)) \/ RulesStay
  <2>1. tab' = tab /\ crossed' = crossed /\ RowsEven
    BY <1>5, <1>6, <1>8
  <2>2. SaidOfRows' /\ (~crossed' => SaidHolds' /\ \A c \in Tabs : TabSaid(c)')
    BY <1>4, <2>1
  <2> QED
    BY <2>2 DEF SaidOfRules, SaidOfRows, SaidHolds, TabSaid
<1> QED
  BY <1>7, <1>8 DEF RuleMoves

(* The invariant holds at first. *)
LEMMA RulesStart == RulesInit => RulesInv
<1> SUFFICES ASSUME RulesInit PROVE RulesInv
  OBVIOUS
<1>1. RuleTypes
  <2>1. <<>> \in Seq(SUBSET Trackable) /\ <<>> \in Seq(RuleRows) /\ 1 \in Nat
    OBVIOUS
  <2>2. /\ day = 1 /\ storesItems \in BOOLEAN /\ crossed = FALSE /\ tracked = <<>> /\ ruleRows = <<>>
        /\ page = [b \in Tabs |-> <<>>] /\ tab = [b \in Tabs |-> NoTab]
    BY DEF RulesInit
  <2>3. page \in [Tabs -> Seq(RuleRows)] /\ tab \in [Tabs -> TabStates] /\ \A b \in Tabs : tab[b].at = "idle"
    BY <2>1, <2>2, NoTabTyped
  <2> QED
    BY <2>1, <2>2, <2>3 DEF RuleTypes
<1>2. \A b \in Tabs : tab[b].at = "idle"
  BY NoTabTyped DEF RulesInit
<1>3. ActiveIsSo
  BY <1>2 DEF RulesInit, ActiveIsSo, TabActive
<1>4. AloneTracks
  <2>1. Live = {} /\ Len(tracked) = 0
    BY DEF RulesInit, Live
  <2>2. Cardinality(Live) = 0
    BY <2>1, FS_EmptySet
  <2> QED
    <3>1. Len(tracked) <= 1 /\ Cardinality(Live) <= RuleLimit
      BY <2>1, <2>2, RuleLimitAssumption
    <3> HIDE <2>2
    <3> QED
      BY <1>2, <2>1, <3>1 DEF AloneTracks
<1>5. SaidOfRules
  BY <1>2 DEF RulesInit, SaidOfRules
<1> QED
  BY <1>1, <1>3, <1>4, <1>5 DEF RulesInv

(* Every step keeps the invariant. *)
LEMMA RulesInvKept == ASSUME RulesInv, [RulesNext]_ruleVars PROVE RulesInv'
<1>1. RuleTypes /\ ActiveIsSo /\ AloneTracks /\ SaidOfRules
  BY DEF RulesInv
<1>2. RuleMoves
  BY <1>1, RuleSteps
<1> QED
  BY <1>1, <1>2, RuleTypesKept, ActiveKept, AloneTracksKept, SaidKept DEF RulesInv

(* What the invariant says of the lists, and of the pages. *)
LEMMA RulesInvIsSo == ASSUME RulesInv PROVE TrackedOnce /\ SaidIsSo
<1>1. RuleTypes /\ ActiveIsSo /\ AloneTracks /\ SaidOfRules
  BY DEF RulesInv
<1>2. ASSUME ~crossed, NEW l PROVE Cardinality(RulesOf(l)) <= 1
  <2>1. \A r \in RulesOf(l), q \in RulesOf(l) : r = q
    BY <1>1, <1>2 DEF AloneTracks, RulesOf
  <2>2. CASE RulesOf(l) = {}
    BY <2>2, FS_EmptySet
  <2>3. ASSUME NEW r \in RulesOf(l) PROVE Cardinality(RulesOf(l)) <= 1
    <3>1. RulesOf(l) = {r}
      BY <2>1
    <3> QED
      <4>1. Cardinality(RulesOf(l)) = 1
        BY <3>1, FS_Singleton
      <4> QED
        BY <4>1
  <2> QED
    BY <2>2, <2>3
<1>3. TrackedOnce
  BY <1>1, <1>2 DEF TrackedOnce, AloneTracks
<1>4. SaidIsSo
  BY <1>1 DEF SaidIsSo, ActiveIsSo, SaidOfList, ListHas, SaidOfRules
<1> QED
  BY <1>3, <1>4

(* Whoever tracks a wallet in one tab at a time finds one list, one rule of it, and the limit
   of the plan kept, whatever fails half way; and what a page said of a rule stays so. *)
THEOREM RulesHold == RulesSpec => [](TrackedOnce /\ SaidIsSo)
<1>1. RulesInv /\ [RulesNext]_ruleVars => RulesInv'
  BY RulesInvKept
<1>2. RulesInv => TrackedOnce /\ SaidIsSo
  BY RulesInvIsSo
<1> QED
  BY <1>1, <1>2, RulesStart, PTL DEF RulesSpec
-----------------------------------------------------------------------------
(* All the records together: at first, each part is as it would be alone. *)
LEMMA PartsStart ==
    RecordsInit => ExplainInit /\ WatchInit /\ RulesInit /\ SnapshotsInit /\ EntryInit /\ EvidenceInit
BY DEF RecordsInit

(* Each step is one of a part, or leaves it alone. *)
LEMMA PartsStep ==
    [RecordsNext]_recordVars
        => /\ [ExplainNext]_explainVars /\ [WatchNext]_watchVars /\ [RulesNext]_ruleVars
           /\ [SnapshotsNext]_runVars /\ [EntryNext]_entryVars /\ [EvidenceNext]_evidenceVars
BY DEF RecordsNext, recordVars, Stand

(* So the behaviours of all are behaviours of each. *)
LEMMA PartsBehave ==
    RecordsSpec => /\ ExplainSpec /\ WatchSpec /\ RulesSpec
                   /\ SnapshotsSpec /\ EntrySpec /\ EvidenceSpec
BY PartsStart, PartsStep, PTL
   DEF RecordsSpec, ExplainSpec, WatchSpec, RulesSpec, SnapshotsSpec, EntrySpec, EvidenceSpec

(* The scores and the graph have no specification of their own: they begin and go on alike. *)
LEMMA ScoresBehave ==
    RecordsSpec => /\ ScoresInit /\ [][ScoresNext]_scoreVars
                   /\ GraphsInit /\ [][GraphsNext]_graphVars
<1>1. RecordsInit => ScoresInit /\ GraphsInit
  BY DEF RecordsInit
<1>2. [RecordsNext]_recordVars => [ScoresNext]_scoreVars /\ [GraphsNext]_graphVars
  BY DEF RecordsNext, recordVars, Stand
<1> QED
  BY <1>1, <1>2, PTL DEF RecordsSpec

(* Whatever overlaps and fails, the records stay within their limits as promised. *)
THEOREM LimitsHold == RecordsSpec => []WithinLimits
<1>1. WithinDailyLimit /\ WithinPlanLimits /\ TrackedOnce => WithinLimits
  BY DEF WithinLimits
<1> QED
  BY <1>1, PartsBehave, DailyLimitHolds, PlanLimitsHold, RulesHold, PTL

(* What a page is told is so. *)
THEOREM PagesAreToldSo == RecordsSpec => []AnswersHold
<1>1. EmptyPerFailure /\ SaidIsSo => AnswersHold
  BY DEF AnswersHold
<1> QED
  BY <1>1, PartsBehave, DailyLimitHolds, RulesHold, PTL

(* The other records keep their promises beside them. *)
THEOREM RecordsKeep ==
    RecordsSpec => [](SignalsArrive /\ SustainedIsEarned /\ EvidenceOfLatestRun) /\ OutcomesStay
BY PartsBehave, SignalsHold, SustainedHolds, OutcomesHold, EvidenceHolds, PTL

(* Scores move with the evidence and the graph, however much is counted and however large the
   graph: a step that is not theirs leaves them as they are. *)
THEOREM ScoresKeep == RecordsSpec => ScoresFollowEvidence
<1>1. ScoresTypeOK /\ UNCHANGED scoreVars => EvidenceCountsOneWay
  <2> SUFFICES ASSUME ScoresTypeOK, UNCHANGED scoreVars, NEW f \in DOMAIN seen PROVE ~(seen'[f] > seen[f])
    BY DEF EvidenceCountsOneWay
  <2>1. seen'[f] = seen[f] /\ seen[f] \in Int
    BY ObservedAssumption DEF scoreVars, ScoresTypeOK
  <2> QED
    BY <2>1
<1>2. UNCHANGED graphVars => ActivityRaisesScore
  BY DEF graphVars, ActivityRaisesScore
<1>3. ScoresInit /\ [][ScoresNext]_scoreVars => []ScoresTypeOK /\ [][EvidenceCountsOneWay]_scoreVars
  BY EvidenceMovesScores
<1>4. GraphsInit /\ [][GraphsNext]_graphVars => [][ActivityRaisesScore]_graphVars
  BY ActivityMovesScore
<1>5. UNCHANGED recordVars => UNCHANGED scoreVars /\ UNCHANGED graphVars
  BY DEF recordVars
<1> QED
  BY <1>1, <1>2, <1>3, <1>4, <1>5, ScoresBehave, PTL DEF ScoresFollowEvidence
-----------------------------------------------------------------------------
(* The flows of a wallet, from FlowEvidence: what MarketFlowsCount says.  The transfers are
   finitely many and typed. *)
FewFlows == FlowsTypeOK /\ IsFiniteSet(flows)

(* One more transfer keeps them so. *)
LEMMA FlowsKept == FewFlows /\ [FlowsNext]_flowVars => FewFlows'
<1> SUFFICES ASSUME FewFlows, [FlowsNext]_flowVars PROVE FewFlows'
  OBVIOUS
<1>1. CASE UNCHANGED flowVars
  BY <1>1 DEF flowVars, FewFlows, FlowsTypeOK
<1>2. CASE FlowsNext
  <2>1. PICK f \in Flows : flows' = flows \cup {f} /\ root' = root
    BY <1>2 DEF FlowsNext, Transfer
  <2> QED
    BY <2>1, FS_AddElement DEF FewFlows, FlowsTypeOK
<1> QED
  BY <1>1, <1>2

(* A set without one of its elements. *)
LEMMA CountWithout ==
    ASSUME NEW S, IsFiniteSet(S), NEW x
    PROVE  /\ IsFiniteSet(S \ {x}) /\ Cardinality(S) \in Nat /\ Cardinality(S \ {x}) \in Nat
           /\ Cardinality(S \ {x}) = IF x \in S THEN Cardinality(S) - 1 ELSE Cardinality(S)
<1>1. IsFiniteSet(S \ {x})
  BY FS_Subset
<1>2. Cardinality(S) \in Nat /\ Cardinality(S \ {x}) \in Nat
  BY <1>1, FS_CardinalityType
<1> QED
  BY <1>1, <1>2, FS_RemoveElement

(* Fewer transfers have fewer counterparties, never more than transfers. *)
LEMMA DistinctFollows ==
    ASSUME NEW S, IsFiniteSet(S), NEW T \in SUBSET S
    PROVE  /\ Distinct(T) \in Nat /\ Distinct(S) \in Nat /\ Distinct(T) <= Distinct(S)
           /\ Distinct(S) <= Cardinality(S) /\ IsFiniteSet(T)
<1> DEFINE to(R) == {f.to : f \in R}
           names == [f \in S |-> f.to]
<1>1. names \in Surjection(S, to(S))
  BY DEF Surjection
<1>2. IsFiniteSet(to(S)) /\ Cardinality(to(S)) <= Cardinality(S)
  BY <1>1, FS_Surjection
<1>3. to(T) \subseteq to(S)
  OBVIOUS
<1> HIDE DEF to
<1>4. /\ IsFiniteSet(to(T)) /\ Cardinality(to(T)) \in Nat /\ Cardinality(to(S)) \in Nat
      /\ Cardinality(to(T)) <= Cardinality(to(S))
  BY <1>2, <1>3, FS_Subset, FS_CardinalityType
<1>5. Distinct(T) = Cardinality(to(T)) /\ Distinct(S) = Cardinality(to(S))
  BY DEF Distinct, to
<1> QED
  BY <1>2, <1>4, <1>5, FS_Subset

(* The reports without one transfer: each set of transfers lacks it, nothing else. *)
SetsWithout(f) ==
    /\ Without(f)!Sent = Sent \ {f}
    /\ \A c : /\ Without(f)!SentTo(c) = SentTo(c) \ {f}
              /\ Without(f)!WithClass(c) = WithClass(c) \ {f}
    /\ \A kinds : Without(f)!MarketPaths(kinds) = MarketPaths(kinds) \ {f}
    /\ \A kinds : Without(f)!MMPaths(kinds) = MMPaths(kinds) \ {f}
    /\ Without(f)!BridgeLinks = BridgeLinks \ {f}
    /\ Without(f)!Confirmed = Confirmed \ {f}
    /\ Without(f)!PostBridgeTouch = PostBridgeTouch \ {f}
    /\ Without(f)!ExchangePaths = ExchangePaths \ {f}
    /\ Without(f)!MarketAdjacent = MarketAdjacent \ {f}
    /\ Without(f)!InternalOps = InternalOps \ {f}
    /\ Without(f)!ExternalOps = ExternalOps \ {f}
    /\ Without(f)!OperationalOnly = OperationalOnly \ {f}
    /\ Without(f)!RebalanceDiscount = RebalanceDiscount \ {f}
    /\ \A S : Without(f)!Distinct(S) = Distinct(S)
    /\ \A g : Without(f)!MMSubtype(g) = MMSubtype(g)
    /\ \A g, c : Without(f)!IsA(g, c) = IsA(g, c)

(* Each of the sets is defined transfer by transfer. *)
LEMMA SetsAreWithout == ASSUME NEW f PROVE SetsWithout(f)
<1>1. Without(f)!Sent = Sent \ {f}
  BY DEF Without!Sent, Sent
<1>2. \A g, c : Without(f)!IsA(g, c) = IsA(g, c)
  BY DEF Without!IsA, IsA
<1>3. \A c : /\ Without(f)!SentTo(c) = SentTo(c) \ {f}
             /\ Without(f)!WithClass(c) = WithClass(c) \ {f}
  BY <1>1, <1>2 DEF Without!SentTo, SentTo, Without!WithClass, WithClass
<1>4. \A g : Without(f)!MarketPathOf(g) = MarketPathOf(g)
  BY <1>2 DEF Without!MarketPathOf, MarketPathOf
<1>5. \A kinds : Without(f)!MarketPaths(kinds) = MarketPaths(kinds) \ {f}
  BY <1>1, <1>4 DEF Without!MarketPaths, MarketPaths
<1>6. \A g : Without(f)!MMSubtype(g) = MMSubtype(g)
  BY <1>2 DEF Without!MMSubtype, MMSubtype
<1>7. \A g : Without(f)!MMPathOf(g) = MMPathOf(g)
  BY <1>6 DEF Without!MMPathOf, MMPathOf
<1>8. \A kinds : Without(f)!MMPaths(kinds) = MMPaths(kinds) \ {f}
  BY <1>3, <1>7 DEF Without!MMPaths, MMPaths
<1>9. Without(f)!BridgeLinks = BridgeLinks \ {f}
  BY <1>3 DEF Without!BridgeLinks, BridgeLinks
<1>10. /\ Without(f)!Confirmed = Confirmed \ {f}
       /\ Without(f)!PostBridgeTouch = PostBridgeTouch \ {f}
  BY <1>9 DEF Without!Confirmed, Confirmed, Without!PostBridgeTouch, PostBridgeTouch
<1>11. Without(f)!ExchangePaths = ExchangePaths \ {f}
  BY <1>1, <1>2, <1>9 DEF Without!ExchangePaths, ExchangePaths
<1>12. Without(f)!OperationalOnly = OperationalOnly \ {f}
  BY <1>2, <1>5 DEF Without!OperationalOnly, OperationalOnly
<1>13. Without(f)!InternalOps = InternalOps \ {f}
  BY <1>2, <1>12 DEF Without!InternalOps, InternalOps
<1>14. Without(f)!ExternalOps = ExternalOps \ {f}
  BY <1>12, <1>13 DEF Without!ExternalOps, ExternalOps
<1>15. Without(f)!MarketAdjacent = MarketAdjacent \ {f}
  BY <1>2, <1>14 DEF Without!MarketAdjacent, MarketAdjacent
<1>16. Without(f)!RebalanceDiscount = RebalanceDiscount \ {f}
  BY <1>3 DEF Without!RebalanceDiscount, RebalanceDiscount
<1>c. \A S : Without(f)!Cardinality(S) = Cardinality(S)
  BY DEF Without!Cardinality, Cardinality
<1>17. \A S : Without(f)!Distinct(S) = Distinct(S)
  BY <1>c DEF Without!Distinct, Distinct
<1> QED
  BY <1>1, <1>2, <1>3, <1>5, <1>6, <1>8, <1>9, <1>10, <1>11, <1>12, <1>13, <1>14, <1>15, <1>16, <1>17
     DEF SetsWithout

(* A score with evidence enough for the second gate loses no more than its points do. *)
LEMMA CalibrationLoses ==
    ASSUME NEW r1 \in Int, NEW r2 \in Int, r1 <= r2 + 8,
           NEW c1 \in Nat, NEW c2 \in Nat, c1 <= c2, NEW s1 \in Nat, NEW s2 \in Nat,
           NEW required \in Nat, NEW minimum \in Nat, s2 >= minimum
    PROVE  ApplyCalibration(clampScore(r1), Calibration(c1, required, s1, minimum))
             <= ApplyCalibration(clampScore(r2), Calibration(c2, required, s2, minimum)) + 8
BY SMTT(60) DEF ApplyCalibration, Calibration, clampScore, Lesser, RateScore

(* One transfer sent more, and nothing less that speaks for an exit, never lowers the score
   if only a bridge route that returns speaks against it, and that with one more bridge
   transfer; otherwise it takes no more than the points of that route. *)
LEMMA SentScoresMore ==
    ASSUME NEW s \in Exits, NEW t \in Exits,
           \A g \in {"bridge", "exchange", "fanout", "fanout24h", "escape"} : t[g] <= s[g],
           s["outbound24h"] = t["outbound24h"] + 1, s["fanout"] > 0, s["fanout24h"] > 0,
           \A g \in {"inbound24h", "aggregator", "rebalanceRoute", "treasury", "internal"} : s[g] = t[g],
           s["bridgeReturn"] <= t["bridgeReturn"] + 1
    PROVE  /\ s["bridgeReturn"] <= t["bridgeReturn"] \/ s["bridge"] >= t["bridge"] + 1
                => ShadowExitScore(t) <= ShadowExitScore(s)
           /\ ShadowExitScore(t) <= ShadowExitScore(s) + 8
<1> DEFINE Net(r) == ShadowExitGross(r) - ShadowExitDiscounts(r)
<1>1. /\ \A g \in ShadowExitFields : s[g] \in Nat /\ t[g] \in Nat
      /\ {"bridge", "exchange", "fanout", "fanout24h", "escape", "outbound24h", "inbound24h", "aggregator",
          "rebalanceRoute", "treasury", "internal", "bridgeReturn"} = ShadowExitFields
  BY DEF Exits, ShadowExitFields
<1>2. /\ clampScore(OutflowPoints(t)) \in Nat /\ clampScore(OutflowPoints(s)) \in Nat
      /\ clampScore(OutflowPoints(t)) <= clampScore(OutflowPoints(s))
  <2> DEFINE u == PlusOne(t, "outbound24h")
  <2>1. u["outbound24h"] = s["outbound24h"] /\ u["inbound24h"] = s["inbound24h"]
    BY DEF PlusOne, Exits, ShadowExitFields
  <2>2. OutflowPoints(u) = OutflowPoints(s)
    BY <2>1 DEF OutflowPoints, Transfers24h
  <2>3. OutflowPoints(t) \in Nat /\ OutflowPoints(s) \in Nat /\ OutflowPoints(t) <= OutflowPoints(s)
    BY <2>2, OutflowFollows
  <2> QED
    BY <2>3 DEF clampScore, Lesser
<1>3. \A n \in {5, 6} : OutflowAtLeast(t, n) => OutflowAtLeast(s, n)
  <2> DEFINE Least(m, k, n) == m + k > 0 /\ 10 * m >= n * (m + k)
  <2>1. \A n : /\ OutflowAtLeast(s, n) <=> Least(s["outbound24h"], s["inbound24h"], n)
               /\ OutflowAtLeast(t, n) <=> Least(t["outbound24h"], t["inbound24h"], n)
    BY DEF OutflowAtLeast, Transfers24h
  <2>2. \A m, k \in Nat : \A n \in {5, 6} : Least(m, k, n) => Least(m + 1, k, n)
    OBVIOUS
  <2>3. t["outbound24h"] \in Nat /\ t["inbound24h"] \in Nat
        /\ s["outbound24h"] = t["outbound24h"] + 1 /\ s["inbound24h"] = t["inbound24h"]
    BY <1>1
  <2> HIDE DEF Least
  <2> QED
    BY <2>1, <2>2, <2>3
<1>4. /\ t["bridge"] \in Nat /\ s["bridge"] \in Nat /\ t["bridge"] <= s["bridge"]
      /\ t["exchange"] \in Nat /\ s["exchange"] \in Nat /\ t["exchange"] <= s["exchange"]
      /\ t["fanout"] \in Nat /\ s["fanout"] \in Nat /\ t["fanout"] <= s["fanout"]
      /\ t["fanout24h"] \in Nat /\ s["fanout24h"] \in Nat /\ t["fanout24h"] <= s["fanout24h"]
      /\ t["escape"] \in Nat /\ s["escape"] \in Nat /\ t["escape"] <= s["escape"]
  BY <1>1
<1>5. /\ Net(t) \in Int /\ Net(s) \in Int /\ Net(t) <= Net(s) + 8
      /\ s["bridgeReturn"] <= t["bridgeReturn"] \/ s["bridge"] >= t["bridge"] + 1 => Net(t) <= Net(s)
  <2>1. /\ ShadowExitGross(s) \in Nat /\ ShadowExitDiscounts(s) \in Nat
        /\ ShadowExitGross(t) \in Nat /\ ShadowExitDiscounts(t) \in Nat
    BY ExitParts
  <2>2. clampScore(t["fanout24h"]) \in Nat /\ clampScore(s["fanout24h"]) \in Nat
        /\ clampScore(t["fanout24h"]) <= clampScore(s["fanout24h"])
    BY <1>4 DEF clampScore, Lesser
  <2>3. ShadowExitGross(t) + 24 * (s["bridge"] - t["bridge"]) <= ShadowExitGross(s)
    BY <1>2, <1>4, <2>2 DEF ShadowExitGross
  <2> DEFINE back(r) == Lesser(6 * r["aggregator"] + 8 * r["bridgeReturn"], 20)
  <2>4. ShadowExitDiscounts(s) - ShadowExitDiscounts(t) = back(s) - back(t)
    <3> DEFINE rest == Points(18, s["treasury"] > 0) + Points(14, s["internal"] > 0)
                         + Lesser(8 * s["rebalanceRoute"], 16)
    <3>1. ShadowExitDiscounts(s) = rest + back(s) /\ ShadowExitDiscounts(t) = rest + back(t)
      BY DEF ShadowExitDiscounts
    <3>2. s["rebalanceRoute"] \in Nat /\ back(s) \in Int /\ back(t) \in Int
      BY <1>1 DEF Lesser
    <3>3. rest \in Int
      BY <3>2 DEF Points, Lesser
    <3> HIDE DEF rest, back
    <3> QED
      BY <3>1, <3>2, <3>3
  <2>5. /\ s["aggregator"] \in Nat /\ t["aggregator"] = s["aggregator"]
        /\ s["bridgeReturn"] \in Nat /\ t["bridgeReturn"] \in Nat
    BY <1>1
  <2>6. back(s) \in Int /\ back(t) \in Int
        /\ (s["bridgeReturn"] <= t["bridgeReturn"] => back(s) <= back(t))
        /\ back(s) <= back(t) + 8
    BY <2>5 DEF Lesser
  <2> HIDE DEF back
  <2> QED
    BY <1>4, <2>1, <2>3, <2>4, <2>6
<1>6. ShadowExitSufficiency(t) <= ShadowExitSufficiency(s)
  <2>1. OutflowAtLeast(t, 5) => OutflowAtLeast(s, 5)
    BY <1>3
  <2> QED
    BY <1>4, <2>1 DEF ShadowExitSufficiency, Points
<1>7. ShadowExitCritical(t) <= ShadowExitCritical(s)
  <2> DEFINE Claims(r) == <<r["bridge"] > 0, r["exchange"] > 0, r["fanout"] > 0, r["escape"] > 0,
                            OutflowAtLeast(r, 6)>>
  <2>1. DOMAIN Claims(s) = 1..5 /\ DOMAIN Claims(t) = 1..5
    OBVIOUS
  <2>2. /\ t["bridge"] > 0 => s["bridge"] > 0
        /\ t["exchange"] > 0 => s["exchange"] > 0
        /\ t["fanout"] > 0 => s["fanout"] > 0
        /\ t["escape"] > 0 => s["escape"] > 0
        /\ OutflowAtLeast(t, 6) => OutflowAtLeast(s, 6)
    BY <1>3, <1>4
  <2>3. \A k \in 1..5 : Claims(t)[k] => Claims(s)[k]
    <3> SUFFICES ASSUME NEW k \in 1..5, Claims(t)[k] PROVE Claims(s)[k]
      OBVIOUS
    <3>1. k \in {1, 2, 3, 4, 5}
      OBVIOUS
    <3>2. CASE k = 1
      BY <2>2, <3>2
    <3>3. CASE k = 2
      BY <2>2, <3>3
    <3>4. CASE k = 3
      BY <2>2, <3>4
    <3>5. CASE k = 4
      BY <2>2, <3>5
    <3>6. CASE k = 5
      BY <2>2, <3>6
    <3> QED
      BY <3>1, <3>2, <3>3, <3>4, <3>5, <3>6
  <2>4. ShadowExitCritical(s) = BoolCount(Claims(s)) /\ ShadowExitCritical(t) = BoolCount(Claims(t))
    BY DEF ShadowExitCritical
  <2> HIDE DEF Claims
  <2> QED
    BY <2>1, <2>3, <2>4, CountFollows
<1>8. /\ ShadowExitCritical(s) \in Nat /\ ShadowExitCritical(t) \in Nat
      /\ ShadowExitSufficiency(s) \in Nat /\ ShadowExitSufficiency(t) \in Nat
      /\ ShadowExitCritical(s) >= 3 => ShadowExitSufficiency(s) >= 20
  BY ExitGates, ExitParts
<1>9. ShadowExitSufficiency(s) >= 20
  <2>1. \A p \in BOOLEAN, n \in {15, 10} : Points(n, p) \in {0, n}
    BY DEF Points
  <2>2. Points(15, s["fanout"] > 0) = 15 /\ Points(15, s["fanout24h"] > 0) = 15
    BY DEF Points
  <2> QED
    BY <2>1, <2>2 DEF ShadowExitSufficiency, Points
<1> DEFINE Score(r) == ApplyCalibration(clampScore(Net(r)),
                          Calibration(ShadowExitCritical(r), 3, ShadowExitSufficiency(r), 20))
<1>10. Score(s) = ShadowExitScore(s) /\ Score(t) = ShadowExitScore(t)
  BY DEF ShadowExitScore
<1> HIDE DEF Net
<1>11. ASSUME Net(t) <= Net(s) PROVE Score(t) <= Score(s)
  BY ONLY <1>5, <1>6, <1>7, <1>8, <1>11, CalibrationFollows
<1>12. Score(t) <= Score(s) + 8
  <2> DEFINE a == ShadowExitCritical(t)
             b == ShadowExitCritical(s)
             x == ShadowExitSufficiency(t)
             y == ShadowExitSufficiency(s)
  <2>1. Net(t) \in Int /\ Net(s) \in Int /\ Net(t) <= Net(s) + 8
    BY ONLY <1>5
  <2>2. a \in Nat /\ b \in Nat /\ a <= b /\ x \in Nat /\ y \in Nat /\ y >= 20
    BY ONLY <1>6, <1>7, <1>8, <1>9
  <2> HIDE DEF a, b, x, y
  <2>3. 3 \in Nat /\ 20 \in Nat
    OBVIOUS
  <2>4. ApplyCalibration(clampScore(Net(t)), Calibration(a, 3, x, 20))
          <= ApplyCalibration(clampScore(Net(s)), Calibration(b, 3, y, 20)) + 8
    BY ONLY <2>1, <2>2, <2>3, CalibrationLoses
  <2> QED
    BY ONLY <2>4 DEF a, b, x, y
<1> HIDE DEF Score
<1> QED
  BY <1>5, <1>10, <1>11, <1>12

(* The inputs of the score, one by one, and those without one transfer. *)
LEMMA InputsAreCounts ==
    /\ DetectorInputs["bridge"] = Strongest(MetOf("bridge"), Cardinality(BridgeLinks))
    /\ DetectorInputs["escape"] = Strongest(MetOf("bridge"), Cardinality(Confirmed))
    /\ DetectorInputs["exchange"] = Strongest(MetOf("exchange"), Cardinality(ExchangePaths))
    /\ DetectorInputs["fanout"] = Distinct(Sent) /\ DetectorInputs["fanout24h"] = Distinct(Sent)
    /\ DetectorInputs["outbound24h"] = Cardinality(Sent)
    /\ DetectorInputs["inbound24h"] = Cardinality(flows \ Sent)
    /\ DetectorInputs["aggregator"] = AggregatorRoutes
    /\ DetectorInputs["rebalanceRoute"] = RebalanceRoutes
    /\ DetectorInputs["bridgeReturn"] = BridgeReturns
    /\ DetectorInputs["treasury"] = Points(1, root.name = "treasury")
    /\ DetectorInputs["internal"] = Points(1, root.name = "internal" \/ MetOf("internal") > 0)
    /\ DOMAIN DetectorInputs = ShadowExitFields
    /\ DetectorInputs = [g \in ShadowExitFields |-> DetectorInputs[g]]
BY DEF DetectorInputs, ShadowExitFields

(* The same, of the report that lacks the transfer. *)
LEMMA InputsWithout ==
    ASSUME NEW f
    PROVE  /\ Without(f)!DetectorInputs["bridge"]
                = Strongest(Distinct(WithClass("bridge") \ {f}), Cardinality(BridgeLinks \ {f}))
           /\ Without(f)!DetectorInputs["escape"]
                = Strongest(Distinct(WithClass("bridge") \ {f}), Cardinality(Confirmed \ {f}))
           /\ Without(f)!DetectorInputs["exchange"]
                = Strongest(Distinct(WithClass("exchange") \ {f}), Cardinality(ExchangePaths \ {f}))
           /\ Without(f)!DetectorInputs["fanout"] = Distinct(Sent \ {f})
           /\ Without(f)!DetectorInputs["fanout24h"] = Distinct(Sent \ {f})
           /\ Without(f)!DetectorInputs["outbound24h"] = Cardinality(Sent \ {f})
           /\ Without(f)!DetectorInputs["inbound24h"] = Cardinality((flows \ {f}) \ (Sent \ {f}))
           /\ Without(f)!DetectorInputs["aggregator"] = Without(f)!AggregatorRoutes
           /\ Without(f)!DetectorInputs["rebalanceRoute"]
                = Cardinality(RebalanceDiscount \ {f}) + Cardinality(InternalOps \ {f})
           /\ Without(f)!DetectorInputs["bridgeReturn"]
                = IF PostBridgeTouch \ {f} = {} THEN Cardinality(Confirmed \ {f}) ELSE 0
           /\ Without(f)!DetectorInputs["treasury"] = Points(1, root.name = "treasury")
           /\ Without(f)!DetectorInputs["internal"]
                = Points(1, root.name = "internal" \/ Distinct(WithClass("internal") \ {f}) > 0)
           /\ DOMAIN Without(f)!DetectorInputs = ShadowExitFields
           /\ Without(f)!DetectorInputs = [g \in ShadowExitFields |-> Without(f)!DetectorInputs[g]]
<1>0. SetsWithout(f)
  BY SetsAreWithout
<1>c. /\ \A S : Without(f)!Cardinality(S) = Cardinality(S)
      /\ \A m, n : Without(f)!Strongest(m, n) = Strongest(m, n)
      /\ \A p, q : Without(f)!Points(p, q) = Points(p, q)
  BY DEF Without!Cardinality, Cardinality, Without!Strongest, Strongest, Without!Points, Points
<1>d. Without(f)!ShadowExitFields = ShadowExitFields
  BY DEF Without!ShadowExitFields, ShadowExitFields
<1>1. \A c : Without(f)!MetOf(c) = Distinct(WithClass(c) \ {f})
  BY <1>0 DEF SetsWithout, Without!MetOf
<1>2. Without(f)!RebalanceRoutes = Cardinality(RebalanceDiscount \ {f}) + Cardinality(InternalOps \ {f})
  BY <1>0, <1>c DEF SetsWithout, Without!RebalanceRoutes
<1>3. Without(f)!BridgeReturns = IF PostBridgeTouch \ {f} = {} THEN Cardinality(Confirmed \ {f}) ELSE 0
  BY <1>0, <1>c DEF SetsWithout, Without!BridgeReturns
<1>4. /\ Without(f)!Sent = Sent \ {f} /\ Without(f)!BridgeLinks = BridgeLinks \ {f}
      /\ Without(f)!ExchangePaths = ExchangePaths \ {f} /\ Without(f)!Confirmed = Confirmed \ {f}
      /\ \A S : Without(f)!Distinct(S) = Distinct(S)
  BY <1>0 DEF SetsWithout
<1>5. /\ Without(f)!DetectorInputs["bridge"]
           = Without(f)!Strongest(Without(f)!MetOf("bridge"), Without(f)!Cardinality(Without(f)!BridgeLinks))
      /\ Without(f)!DetectorInputs["escape"]
           = Without(f)!Strongest(Without(f)!MetOf("bridge"), Without(f)!Cardinality(Without(f)!Confirmed))
      /\ Without(f)!DetectorInputs["exchange"]
           = Without(f)!Strongest(Without(f)!MetOf("exchange"), Without(f)!Cardinality(Without(f)!ExchangePaths))
      /\ Without(f)!DetectorInputs["fanout"] = Without(f)!Distinct(Without(f)!Sent)
      /\ Without(f)!DetectorInputs["fanout24h"] = Without(f)!Distinct(Without(f)!Sent)
      /\ Without(f)!DetectorInputs["outbound24h"] = Without(f)!Cardinality(Without(f)!Sent)
      /\ Without(f)!DetectorInputs["inbound24h"] = Without(f)!Cardinality((flows \ {f}) \ Without(f)!Sent)
      /\ Without(f)!DetectorInputs["aggregator"] = Without(f)!AggregatorRoutes
      /\ Without(f)!DetectorInputs["rebalanceRoute"] = Without(f)!RebalanceRoutes
      /\ Without(f)!DetectorInputs["bridgeReturn"] = Without(f)!BridgeReturns
      /\ Without(f)!DetectorInputs["treasury"] = Without(f)!Points(1, root.name = "treasury")
      /\ Without(f)!DetectorInputs["internal"]
           = Without(f)!Points(1, root.name = "internal" \/ Without(f)!MetOf("internal") > 0)
      /\ DOMAIN Without(f)!DetectorInputs = ShadowExitFields
      /\ Without(f)!DetectorInputs = [g \in ShadowExitFields |-> Without(f)!DetectorInputs[g]]
  BY <1>d DEF Without!DetectorInputs, ShadowExitFields
<1> QED
  BY <1>1, <1>2, <1>3, <1>4, <1>5, <1>c

(* The rules of the score are the same, whatever the report counts. *)
LEMMA ScoreIsLess ==
    ASSUME NEW f PROVE Without(f)!RiskScore = ShadowExitScore(Without(f)!DetectorInputs)
<1>1. /\ \A m, n : Without(f)!Lesser(m, n) = Lesser(m, n)
      /\ \A p, q : Without(f)!Points(p, q) = Points(p, q)
      /\ \A S : Without(f)!Cardinality(S) = Cardinality(S)
  BY DEF Without!Lesser, Lesser, Without!Points, Points, Without!Cardinality, Cardinality
<1>2. /\ \A x : Without(f)!clampScore(x) = clampScore(x)
      /\ \A x : Without(f)!RateScore(x) = RateScore(x)
      /\ \A c : Without(f)!BoolCount(c) = BoolCount(c)
      /\ \A s : Without(f)!Transfers24h(s) = Transfers24h(s)
  BY <1>1 DEF Without!clampScore, clampScore, Without!RateScore, RateScore, Without!BoolCount, BoolCount,
              Without!Transfers24h, Transfers24h
<1>3. /\ \A a, b, c, d : Without(f)!Calibration(a, b, c, d) = Calibration(a, b, c, d)
      /\ \A x, c : Without(f)!ApplyCalibration(x, c) = ApplyCalibration(x, c)
  BY <1>2 DEF Without!Calibration, Calibration, Without!ApplyCalibration, ApplyCalibration
<1>4. /\ \A s, n : Without(f)!OutflowAtLeast(s, n) = OutflowAtLeast(s, n)
      /\ \A s : Without(f)!OutflowPoints(s) = OutflowPoints(s)
  <2>1. ASSUME NEW s, NEW n PROVE Without(f)!OutflowAtLeast(s, n) = OutflowAtLeast(s, n)
    BY <1>2 DEF Without!OutflowAtLeast, OutflowAtLeast
  <2>2. ASSUME NEW s PROVE Without(f)!OutflowPoints(s) = OutflowPoints(s)
    BY <1>2 DEF Without!OutflowPoints, OutflowPoints
  <2> QED
    BY <2>1, <2>2
<1>5. \A s : /\ Without(f)!ShadowExitGross(s) = ShadowExitGross(s)
             /\ Without(f)!ShadowExitDiscounts(s) = ShadowExitDiscounts(s)
  BY <1>1, <1>2, <1>4, Zenon
     DEF Without!ShadowExitGross, ShadowExitGross, Without!ShadowExitDiscounts, ShadowExitDiscounts
<1>6. \A s : /\ Without(f)!ShadowExitCritical(s) = ShadowExitCritical(s)
             /\ Without(f)!ShadowExitSufficiency(s) = ShadowExitSufficiency(s)
  BY <1>1, <1>2, <1>4, Zenon
     DEF Without!ShadowExitCritical, ShadowExitCritical, Without!ShadowExitSufficiency, ShadowExitSufficiency
<1>7. \A s : Without(f)!ShadowExitScore(s) = ShadowExitScore(s)
  <2> SUFFICES ASSUME NEW s PROVE Without(f)!ShadowExitScore(s) = ShadowExitScore(s)
    OBVIOUS
  <2>1. Without(f)!Calibration(Without(f)!ShadowExitCritical(s), 3, Without(f)!ShadowExitSufficiency(s), 20)
          = Calibration(ShadowExitCritical(s), 3, ShadowExitSufficiency(s), 20)
    BY <1>3, <1>6
  <2>2. Without(f)!clampScore(Without(f)!ShadowExitGross(s) - Without(f)!ShadowExitDiscounts(s))
          = clampScore(ShadowExitGross(s) - ShadowExitDiscounts(s))
    BY <1>2, <1>5
  <2> QED
    BY <1>3, <2>1, <2>2 DEF Without!ShadowExitScore, ShadowExitScore
<1> QED
  BY <1>7 DEF Without!RiskScore

(* The sets of transfers of the reports are finite: all are sets of flows. *)
LEMMA ReportsFinite ==
    ASSUME FewFlows
    PROVE  /\ IsFiniteSet(Sent) /\ Sent \subseteq flows /\ IsFiniteSet(flows \ Sent)
           /\ \A c : /\ SentTo(c) \subseteq Sent /\ IsFiniteSet(SentTo(c))
                     /\ WithClass(c) \subseteq flows /\ IsFiniteSet(WithClass(c))
           /\ \A kinds : MarketPaths(kinds) \subseteq Sent /\ IsFiniteSet(MarketPaths(kinds))
           /\ \A kinds : MMPaths(kinds) \subseteq Sent /\ IsFiniteSet(MMPaths(kinds))
           /\ IsFiniteSet(BridgeLinks) /\ BridgeLinks \subseteq Sent
           /\ IsFiniteSet(Confirmed) /\ Confirmed \subseteq BridgeLinks
           /\ IsFiniteSet(ExchangePaths) /\ ExchangePaths \subseteq Sent
           /\ IsFiniteSet(RebalanceDiscount)
           /\ OperationalOnly \subseteq MarketPaths({"none"}) /\ IsFiniteSet(OperationalOnly)
           /\ InternalOps \subseteq OperationalOnly /\ IsFiniteSet(InternalOps)
           /\ MarketAdjacent \subseteq OperationalOnly /\ IsFiniteSet(MarketAdjacent)
<1>1. IsFiniteSet(flows) /\ Sent \subseteq flows /\ IsFiniteSet(flows \ Sent)
  BY FS_Subset DEF FewFlows, Sent
<1>2. \A S : S \subseteq flows => IsFiniteSet(S)
  BY <1>1, FS_Subset
<1>3. \A c : SentTo(c) \subseteq Sent /\ WithClass(c) \subseteq flows
  BY DEF SentTo, WithClass
<1>4. \A kinds : MarketPaths(kinds) \subseteq Sent /\ MMPaths(kinds) \subseteq Sent
  BY <1>3 DEF MarketPaths, MMPaths
<1>5. BridgeLinks \subseteq Sent /\ Confirmed \subseteq BridgeLinks /\ ExchangePaths \subseteq Sent
  BY <1>3 DEF BridgeLinks, Confirmed, ExchangePaths
<1>6. RebalanceDiscount \subseteq Sent
  BY <1>3 DEF RebalanceDiscount
<1>7. /\ OperationalOnly \subseteq MarketPaths({"none"}) /\ InternalOps \subseteq OperationalOnly
      /\ MarketAdjacent \subseteq OperationalOnly
  BY DEF OperationalOnly, InternalOps, MarketAdjacent, ExternalOps
<1>8. OperationalOnly \subseteq flows /\ InternalOps \subseteq flows /\ MarketAdjacent \subseteq flows
  BY <1>1, <1>4, <1>7
<1> QED
  BY <1>1, <1>2, <1>3, <1>4, <1>5, <1>6, <1>7, <1>8

(* What is sent to a bridge or an exchange is no internal or operational transfer. *)
LEMMA MarketIsApart ==
    ASSUME NEW f, IsA(f, "bridge") \/ IsA(f, "exchange") \/ IsA(f, "marketMaker")
    PROVE  MarketPathOf(f) # "none" /\ f \notin OperationalOnly /\ f \notin InternalOps
           /\ f \notin ExternalOps /\ f \notin MarketAdjacent
<1>1. MarketPathOf(f) # "none"
  BY DEF MarketPathOf
<1> QED
  BY <1>1 DEF OperationalOnly, MarketPaths, InternalOps, ExternalOps, MarketAdjacent

(* What is sent to a bridge or an exchange never lowers the score but by the points of a
   returning route: every count that speaks for an exit stays or grows, and no count against
   it grows but that one. *)
LEMMA MarketSpeaks ==
    ASSUME FewFlows, NEW f \in Sent, ClassesOf[f.to] \in (SUBSET {"bridge", "exchange"}) \ {{}}
    PROVE  /\ BridgesCounted(f) => RiskScore >= Without(f)!RiskScore
           /\ RiskScore + 8 >= Without(f)!RiskScore
<1> DEFINE s == DetectorInputs
           t == Without(f)!DetectorInputs
<1>0. SetsWithout(f) /\ f \in flows
  BY SetsAreWithout DEF Sent
<1>1. /\ IsA(f, "bridge") \/ IsA(f, "exchange")
      /\ \A c : IsA(f, c) => c \in {"bridge", "exchange"}
  <2>1. ClassesOf[f.to] # {} /\ \A c \in ClassesOf[f.to] : c = "bridge" \/ c = "exchange"
    OBVIOUS
  <2> QED
    BY <2>1 DEF IsA
<1>2. /\ f \notin RebalanceDiscount /\ f \notin InternalOps /\ f \notin MarketAdjacent
      /\ f \notin WithClass("internal") /\ \A kinds : f \notin MMPaths(kinds)
  BY <1>1, MarketIsApart DEF RebalanceDiscount, SentTo, WithClass, MMPaths
<1>3. /\ RebalanceDiscount \ {f} = RebalanceDiscount /\ InternalOps \ {f} = InternalOps
      /\ MarketAdjacent \ {f} = MarketAdjacent /\ WithClass("internal") \ {f} = WithClass("internal")
      /\ \A kinds : MMPaths(kinds) \ {f} = MMPaths(kinds)
      /\ (flows \ {f}) \ (Sent \ {f}) = flows \ Sent
  BY <1>2
<1>4. Without(f)!AggregatorRoutes = AggregatorRoutes
  <2>1. {g \in ExchangePaths \ {f} : IsA(g, "router")} = {g \in ExchangePaths : IsA(g, "router")}
    BY <1>1
  <2>2. \A S : Without(f)!Cardinality(S) = Cardinality(S)
    BY DEF Without!Cardinality, Cardinality
  <2>3. /\ Without(f)!ExchangePaths = ExchangePaths \ {f} /\ Without(f)!MarketAdjacent = MarketAdjacent
        /\ \A kinds : Without(f)!MMPaths(kinds) = MMPaths(kinds)
        /\ \A g : Without(f)!MMSubtype(g) = MMSubtype(g)
        /\ \A g, c : Without(f)!IsA(g, c) = IsA(g, c)
    BY <1>0, <1>3 DEF SetsWithout
  <2>4. {g \in Without(f)!ExchangePaths : Without(f)!IsA(g, "router")}
          = {g \in ExchangePaths : IsA(g, "router")}
    BY <2>1, <2>3
  <2>5. {g \in Without(f)!MMPaths({"routedCandidate", "adjacency"}) : Without(f)!MMSubtype(g) = "router"}
          = {g \in MMPaths({"routedCandidate", "adjacency"}) : MMSubtype(g) = "router"}
    BY <2>3
  <2> QED
    <3> DEFINE x == Cardinality({g \in ExchangePaths : IsA(g, "router")})
               y == Cardinality({g \in MMPaths({"routedCandidate", "adjacency"}) : MMSubtype(g) = "router"})
               z == Cardinality(MarketAdjacent)
               u == Without(f)!Cardinality({g \in Without(f)!ExchangePaths : Without(f)!IsA(g, "router")})
               v == Without(f)!Cardinality({g \in Without(f)!MMPaths({"routedCandidate", "adjacency"}) :
                                                Without(f)!MMSubtype(g) = "router"})
               w == Without(f)!Cardinality(Without(f)!MarketAdjacent)
    <3>1. u = x
      BY <2>2, <2>4
    <3>2. v = y
      BY <2>2, <2>5
    <3>3. w = z
      BY <2>2, <2>3
    <3>4. AggregatorRoutes = x + z + y
      BY DEF AggregatorRoutes
    <3>5. Without(f)!AggregatorRoutes = u + w + v
      BY DEF Without!AggregatorRoutes
    <3> HIDE DEF x, y, z, u, v, w
    <3> QED
      BY <3>1, <3>2, <3>3, <3>4, <3>5
<1>5. /\ Cardinality(Sent) \in Nat /\ Cardinality(Sent) = Cardinality(Sent \ {f}) + 1
      /\ Cardinality(Sent \ {f}) \in Nat
      /\ Cardinality(BridgeLinks) \in Nat /\ Cardinality(BridgeLinks \ {f}) \in Nat
      /\ Cardinality(BridgeLinks \ {f}) <= Cardinality(BridgeLinks)
      /\ f \in BridgeLinks => Cardinality(BridgeLinks) = Cardinality(BridgeLinks \ {f}) + 1
      /\ Cardinality(Confirmed) \in Nat /\ Cardinality(Confirmed \ {f}) \in Nat
      /\ Cardinality(Confirmed \ {f}) <= Cardinality(Confirmed)
      /\ Cardinality(Confirmed) <= Cardinality(Confirmed \ {f}) + 1
      /\ Cardinality(ExchangePaths) \in Nat /\ Cardinality(ExchangePaths \ {f}) \in Nat
      /\ Cardinality(ExchangePaths \ {f}) <= Cardinality(ExchangePaths)
  <2>1. ASSUME NEW S, IsFiniteSet(S)
        PROVE  /\ Cardinality(S) \in Nat /\ Cardinality(S \ {f}) \in Nat
               /\ Cardinality(S \ {f}) <= Cardinality(S) /\ Cardinality(S) <= Cardinality(S \ {f}) + 1
               /\ f \in S => Cardinality(S) = Cardinality(S \ {f}) + 1
    <3>1. /\ Cardinality(S) \in Nat /\ Cardinality(S \ {f}) \in Nat
          /\ Cardinality(S \ {f}) = IF f \in S THEN Cardinality(S) - 1 ELSE Cardinality(S)
      BY <2>1, CountWithout, Zenon
    <3> QED
      BY ONLY <3>1
  <2>2. IsFiniteSet(Sent) /\ IsFiniteSet(BridgeLinks) /\ IsFiniteSet(Confirmed) /\ IsFiniteSet(ExchangePaths)
    BY ReportsFinite
  <2> QED
    BY <2>1, <2>2
<1>6. /\ \A c : /\ Distinct(WithClass(c)) \in Nat /\ Distinct(WithClass(c) \ {f}) \in Nat
                /\ Distinct(WithClass(c) \ {f}) <= Distinct(WithClass(c))
                /\ Distinct(WithClass(c)) <= Cardinality(WithClass(c))
                /\ Distinct(WithClass(c) \ {f}) <= Cardinality(WithClass(c) \ {f})
      /\ Distinct(Sent) \in Nat /\ Distinct(Sent \ {f}) \in Nat /\ Distinct(Sent \ {f}) <= Distinct(Sent)
  <2>1. ASSUME NEW S, IsFiniteSet(S)
        PROVE  /\ Distinct(S) \in Nat /\ Distinct(S \ {f}) \in Nat /\ Distinct(S \ {f}) <= Distinct(S)
               /\ Distinct(S) <= Cardinality(S) /\ Distinct(S \ {f}) <= Cardinality(S \ {f})
    <3>1. S \ {f} \in SUBSET S /\ S \ {f} \in SUBSET (S \ {f})
      OBVIOUS
    <3>2. IsFiniteSet(S \ {f})
      BY <2>1, FS_Subset
    <3> QED
      BY <2>1, <3>1, <3>2, DistinctFollows
  <2> QED
    BY <2>1, ReportsFinite
<1>7. /\ Cardinality(flows \ Sent) \in Nat /\ AggregatorRoutes \in Nat /\ RebalanceRoutes \in Nat
  <2>1. \A S : S \subseteq flows => Cardinality(S) \in Nat
    BY FS_Subset, FS_CardinalityType DEF FewFlows
  <2>2. {g \in ExchangePaths : IsA(g, "router")} \subseteq flows /\ MarketAdjacent \subseteq flows
        /\ {g \in MMPaths({"routedCandidate", "adjacency"}) : MMSubtype(g) = "router"} \subseteq flows
        /\ RebalanceDiscount \subseteq flows /\ InternalOps \subseteq flows
    <3>1. RebalanceDiscount \subseteq Sent
      BY ReportsFinite DEF RebalanceDiscount
    <3> QED
      BY ReportsFinite, <3>1
  <2> QED
    BY <2>1, <2>2 DEF AggregatorRoutes, RebalanceRoutes
<1>8. /\ s["bridge"] \in Nat /\ t["bridge"] \in Nat /\ t["bridge"] <= s["bridge"]
      /\ s["escape"] \in Nat /\ t["escape"] \in Nat /\ t["escape"] <= s["escape"]
      /\ s["exchange"] \in Nat /\ t["exchange"] \in Nat /\ t["exchange"] <= s["exchange"]
  <2>2. /\ s["bridge"] = Strongest(Distinct(WithClass("bridge")), Cardinality(BridgeLinks))
        /\ s["escape"] = Strongest(Distinct(WithClass("bridge")), Cardinality(Confirmed))
        /\ s["exchange"] = Strongest(Distinct(WithClass("exchange")), Cardinality(ExchangePaths))
    BY InputsAreCounts DEF MetOf
  <2>3. /\ t["bridge"] = Strongest(Distinct(WithClass("bridge") \ {f}), Cardinality(BridgeLinks \ {f}))
        /\ t["escape"] = Strongest(Distinct(WithClass("bridge") \ {f}), Cardinality(Confirmed \ {f}))
        /\ t["exchange"] = Strongest(Distinct(WithClass("exchange") \ {f}), Cardinality(ExchangePaths \ {f}))
    BY InputsWithout
  <2>4. /\ Distinct(WithClass("bridge")) \in Nat /\ Distinct(WithClass("bridge") \ {f}) \in Nat
        /\ Distinct(WithClass("bridge") \ {f}) <= Distinct(WithClass("bridge"))
        /\ Distinct(WithClass("exchange")) \in Nat /\ Distinct(WithClass("exchange") \ {f}) \in Nat
        /\ Distinct(WithClass("exchange") \ {f}) <= Distinct(WithClass("exchange"))
    BY <1>6
  <2> HIDE DEF s, t
  <2>5. s["bridge"] \in Nat /\ t["bridge"] \in Nat /\ t["bridge"] <= s["bridge"]
    <3> DEFINE m == Distinct(WithClass("bridge"))
               n == Cardinality(BridgeLinks)
               k == Distinct(WithClass("bridge") \ {f})
               l == Cardinality(BridgeLinks \ {f})
    <3>1. m \in Nat /\ n \in Nat /\ k \in Nat /\ l \in Nat /\ k <= m /\ l <= n
      BY ONLY <1>5, <2>4
    <3>2. s["bridge"] = Strongest(m, n) /\ t["bridge"] = Strongest(k, l)
      BY ONLY <2>2, <2>3
    <3> HIDE DEF m, n, k, l
    <3> QED
      BY ONLY <3>1, <3>2 DEF Strongest
  <2>6. s["escape"] \in Nat /\ t["escape"] \in Nat /\ t["escape"] <= s["escape"]
    <3> DEFINE m == Distinct(WithClass("bridge"))
               n == Cardinality(Confirmed)
               k == Distinct(WithClass("bridge") \ {f})
               l == Cardinality(Confirmed \ {f})
    <3>1. m \in Nat /\ n \in Nat /\ k \in Nat /\ l \in Nat /\ k <= m /\ l <= n
      BY ONLY <1>5, <2>4
    <3>2. s["escape"] = Strongest(m, n) /\ t["escape"] = Strongest(k, l)
      BY ONLY <2>2, <2>3
    <3> HIDE DEF m, n, k, l
    <3> QED
      BY ONLY <3>1, <3>2 DEF Strongest
  <2>7. s["exchange"] \in Nat /\ t["exchange"] \in Nat /\ t["exchange"] <= s["exchange"]
    <3> DEFINE m == Distinct(WithClass("exchange"))
               n == Cardinality(ExchangePaths)
               k == Distinct(WithClass("exchange") \ {f})
               l == Cardinality(ExchangePaths \ {f})
    <3>1. m \in Nat /\ n \in Nat /\ k \in Nat /\ l \in Nat /\ k <= m /\ l <= n
      BY ONLY <1>5, <2>4
    <3>2. s["exchange"] = Strongest(m, n) /\ t["exchange"] = Strongest(k, l)
      BY ONLY <2>2, <2>3
    <3> HIDE DEF m, n, k, l
    <3> QED
      BY ONLY <3>1, <3>2 DEF Strongest
  <2> QED
    BY <2>5, <2>6, <2>7
<1>9. /\ s["fanout"] \in Nat /\ t["fanout"] \in Nat /\ t["fanout"] <= s["fanout"]
      /\ s["fanout24h"] \in Nat /\ t["fanout24h"] \in Nat /\ t["fanout24h"] <= s["fanout24h"]
      /\ s["outbound24h"] \in Nat /\ t["outbound24h"] \in Nat /\ s["outbound24h"] = t["outbound24h"] + 1
  BY <1>5, <1>6, InputsAreCounts, InputsWithout
<1>10. /\ s["inbound24h"] \in Nat /\ s["inbound24h"] = t["inbound24h"]
       /\ s["aggregator"] \in Nat /\ s["aggregator"] = t["aggregator"]
       /\ s["rebalanceRoute"] \in Nat /\ s["rebalanceRoute"] = t["rebalanceRoute"]
  <2>1. s["inbound24h"] = Cardinality(flows \ Sent) /\ s["aggregator"] = AggregatorRoutes
        /\ s["rebalanceRoute"] = RebalanceRoutes
    BY InputsAreCounts
  <2>2. t["inbound24h"] = Cardinality((flows \ {f}) \ (Sent \ {f}))
        /\ t["aggregator"] = Without(f)!AggregatorRoutes
        /\ t["rebalanceRoute"] = Cardinality(RebalanceDiscount \ {f}) + Cardinality(InternalOps \ {f})
    BY InputsWithout
  <2>3. (flows \ {f}) \ (Sent \ {f}) = flows \ Sent /\ RebalanceDiscount \ {f} = RebalanceDiscount
        /\ InternalOps \ {f} = InternalOps
    BY <1>3
  <2> HIDE DEF s, t
  <2> QED
    BY <1>4, <1>7, <2>1, <2>2, <2>3 DEF RebalanceRoutes
<1>11. /\ s["treasury"] \in Nat /\ s["treasury"] = t["treasury"]
       /\ s["internal"] \in Nat /\ s["internal"] = t["internal"]
  <2>1. s["treasury"] = Points(1, root.name = "treasury")
        /\ s["internal"] = Points(1, root.name = "internal" \/ Distinct(WithClass("internal")) > 0)
    BY InputsAreCounts DEF MetOf
  <2>2. t["treasury"] = Points(1, root.name = "treasury")
        /\ t["internal"] = Points(1, root.name = "internal" \/ Distinct(WithClass("internal") \ {f}) > 0)
    BY InputsWithout
  <2>3. WithClass("internal") \ {f} = WithClass("internal")
    BY <1>3
  <2>4. \A p \in BOOLEAN : Points(1, p) \in Nat
    BY DEF Points
  <2> HIDE DEF s, t
  <2> QED
    BY <2>1, <2>2, <2>3, <2>4
<1>12. /\ s["bridgeReturn"] \in Nat /\ t["bridgeReturn"] \in Nat
       /\ s["bridgeReturn"] <= t["bridgeReturn"] + 1
       /\ f \notin BridgeLinks => s["bridgeReturn"] <= t["bridgeReturn"]
  <2>1. /\ s["bridgeReturn"] = IF PostBridgeTouch = {} THEN Cardinality(Confirmed) ELSE 0
        /\ t["bridgeReturn"] = IF PostBridgeTouch \ {f} = {} THEN Cardinality(Confirmed \ {f}) ELSE 0
    BY InputsAreCounts, InputsWithout DEF BridgeReturns
  <2>2. CASE f \in BridgeLinks
    <3>3. s["bridgeReturn"] <= t["bridgeReturn"] + 1 /\ s["bridgeReturn"] \in Nat /\ t["bridgeReturn"] \in Nat
      BY <2>1, <1>5
    <3> QED
      BY ONLY <2>2, <3>3
  <2>3. CASE f \notin BridgeLinks
    <3>1. Confirmed \ {f} = Confirmed /\ PostBridgeTouch \ {f} = PostBridgeTouch
      BY <2>3 DEF Confirmed, PostBridgeTouch
    <3>2. s["bridgeReturn"] = t["bridgeReturn"] /\ s["bridgeReturn"] \in Nat
      <4> HIDE DEF s, t
      <4>1. s["bridgeReturn"] = IF PostBridgeTouch = {} THEN Cardinality(Confirmed) ELSE 0
        BY <2>1
      <4>2. t["bridgeReturn"] = IF PostBridgeTouch = {} THEN Cardinality(Confirmed) ELSE 0
        BY <2>1, <3>1
      <4> QED
        BY <1>5, <4>1, <4>2
    <3> QED
      BY ONLY <3>2
  <2> QED
    BY ONLY <2>2, <2>3
<1>13. s \in Exits /\ t \in Exits
  <2>1. \A g \in ShadowExitFields : s[g] \in Nat /\ t[g] \in Nat
    BY <1>8, <1>9, <1>10, <1>11, <1>12 DEF ShadowExitFields
  <2>2. s = [g \in ShadowExitFields |-> s[g]] /\ t = [g \in ShadowExitFields |-> t[g]]
    BY InputsAreCounts, InputsWithout
  <2> HIDE DEF s, t
  <2> QED
    BY <2>1, <2>2 DEF Exits
<1>c. BridgesCounted(f) => f \notin BridgeLinks \/ s["bridge"] >= t["bridge"] + 1
  <2>1. f \in BridgeLinks => IsA(f, "bridge")
    BY DEF BridgeLinks, SentTo
  <2>2. BridgesCounted(f) /\ IsA(f, "bridge") => s["bridge"] > t["bridge"]
    BY DEF BridgesCounted
  <2> HIDE DEF s, t
  <2> QED
    BY <1>8, <2>1, <2>2
<1>f. s["fanout"] > 0 /\ s["fanout24h"] > 0
  <2>1. f.to \in {g.to : g \in Sent} /\ IsFiniteSet(Sent)
    BY ReportsFinite
  <2> DEFINE sentTo == [g \in Sent |-> g.to]
  <2>5. sentTo \in Surjection(Sent, {g.to : g \in Sent})
    BY DEF Surjection
  <2>2. IsFiniteSet({g.to : g \in Sent})
    BY <2>1, <2>5, FS_Surjection
  <2>3. Distinct(Sent) # 0
    BY <2>1, <2>2, FS_EmptySet DEF Distinct
  <2>4. s["fanout"] = Distinct(Sent) /\ s["fanout24h"] = Distinct(Sent)
    BY InputsAreCounts
  <2> HIDE DEF s
  <2> QED
    BY <1>6, <2>3, <2>4
<1> HIDE DEF s, t
<1>14. /\ BridgesCounted(f) => ShadowExitScore(t) <= ShadowExitScore(s)
       /\ ShadowExitScore(t) <= ShadowExitScore(s) + 8
  <2>1. \A g \in {"bridge", "exchange", "fanout", "fanout24h", "escape"} : t[g] <= s[g]
    BY <1>8, <1>9
  <2>2. \A g \in {"inbound24h", "aggregator", "rebalanceRoute", "treasury", "internal"} : s[g] = t[g]
    BY <1>10, <1>11
  <2>3. s["outbound24h"] = t["outbound24h"] + 1
    BY <1>9
  <2>4. /\ s["bridgeReturn"] <= t["bridgeReturn"] \/ s["bridge"] >= t["bridge"] + 1
             => ShadowExitScore(t) <= ShadowExitScore(s)
        /\ ShadowExitScore(t) <= ShadowExitScore(s) + 8
    <3>1. s \in Exits /\ t \in Exits
      BY ONLY <1>13
    <3>2. s["fanout"] > 0 /\ s["fanout24h"] > 0
      BY ONLY <1>f
    <3>3. s["bridgeReturn"] <= t["bridgeReturn"] + 1
      BY ONLY <1>12
    <3> QED
      BY ONLY <3>1, <3>2, <3>3, <2>1, <2>2, <2>3, SentScoresMore, Zenon
  <2> QED
    BY ONLY <1>12, <1>c, <2>4
<1>15. RiskScore = ShadowExitScore(s) /\ Without(f)!RiskScore = ShadowExitScore(t)
  BY ScoreIsLess DEF RiskScore, s, t
<1> QED
  BY <1>14, <1>15

(* Who sent enough on one day without a transfer did so with it. *)
LEMMA FanoutStays ==
    ASSUME FewFlows, NEW f \in Sent,
           Without(f)!FanoutSignatureCount >= 2 \/ Without(f)!FanoutDays # {}
    PROVE  FanoutDays # {} /\ FanoutSignatureCount # 0
<1>0. SetsWithout(f)
  BY SetsAreWithout
<1>1. \A d : Without(f)!SentOn(d) = Cardinality({g \in Sent : g.day = d} \ {f})
  <2> SUFFICES ASSUME NEW d PROVE Without(f)!SentOn(d) = Cardinality({g \in Sent : g.day = d} \ {f})
    OBVIOUS
  <2>1. Without(f)!Sent = Sent \ {f} /\ \A S : Without(f)!Cardinality(S) = Cardinality(S)
    BY <1>0 DEF SetsWithout, Without!Cardinality, Cardinality
  <2>2. {g \in Sent \ {f} : g.day = d} = {g \in Sent : g.day = d} \ {f}
    OBVIOUS
  <2> QED
    BY <2>1, <2>2 DEF Without!SentOn
<1>2. ASSUME NEW d
      PROVE  SentOn(d) \in Nat /\ SentOn(d) <= Cardinality(Sent) /\ Without(f)!SentOn(d) <= SentOn(d)
             /\ Without(f)!SentOn(d) \in Nat
  <2> DEFINE S == {g \in Sent : g.day = d}
  <2>1. IsFiniteSet(S) /\ Cardinality(S) <= Cardinality(Sent) /\ Cardinality(Sent) \in Nat
    BY ReportsFinite, FS_Subset, FS_CardinalityType
  <2>2. /\ Cardinality(S) \in Nat /\ Cardinality(S \ {f}) \in Nat
        /\ Cardinality(S \ {f}) = IF f \in S THEN Cardinality(S) - 1 ELSE Cardinality(S)
    BY <2>1, CountWithout, Zenon
  <2>3. SentOn(d) = Cardinality(S) /\ Without(f)!SentOn(d) = Cardinality(S \ {f})
    BY <1>1 DEF SentOn
  <2> HIDE DEF S
  <2> QED
    BY <2>1, <2>2, <2>3
<1>3. Without(f)!FanoutDays # {}
  <2> SUFFICES ASSUME Without(f)!FanoutDays = {} PROVE Without(f)!FanoutSignatureCount = 0
    OBVIOUS
  <2>1. {Without(f)!SentOn(d) : d \in Without(f)!FanoutDays} \cup {0} = {0}
    OBVIOUS
  <2>2. Without(f)!Max({0}) = 0
    BY DEF Without!Max
  <2> QED
    BY <2>1, <2>2 DEF Without!FanoutSignatureCount
<1>4. PICK d \in FlowDays : Without(f)!SentOn(d) >= 3
  BY <1>3 DEF Without!FanoutDays
<1>5. d \in FanoutDays
  BY <1>2, <1>4 DEF FanoutDays
<1> DEFINE S == {SentOn(e) : e \in FanoutDays} \cup {0}
<1>6. S \in SUBSET Nat /\ S # {} /\ Cardinality(Sent) \in Nat /\ \A x \in S : x <= Cardinality(Sent)
  BY <1>2, ReportsFinite, FS_CardinalityType
<1>7. SentOn(d) \in S /\ SentOn(d) >= 3 /\ SentOn(d) \in Nat
  BY <1>2, <1>4, <1>5
<1>8. FanoutSignatureCount = Max(S)
  BY DEF FanoutSignatureCount
<1> HIDE DEF S
<1>9. Max(S) \in Nat /\ SentOn(d) <= Max(S)
  BY <1>6, <1>7, LargestNumber
<1> QED
  BY <1>5, <1>7, <1>8, <1>9

(* Two counterparties are two. *)
LEMMA TwoAreDistinct ==
    ASSUME FewFlows, NEW f \in Sent, NEW g \in Sent, f.to # g.to
    PROVE  Distinct(Sent) \in Nat /\ Distinct(Sent) >= 2
<1> DEFINE S == {h.to : h \in Sent}
<1>1. IsFiniteSet(S)
  <2> DEFINE names == [h \in Sent |-> h.to]
  <2>1. names \in Surjection(Sent, S)
    BY DEF Surjection
  <2> QED
    BY <2>1, ReportsFinite, FS_Surjection
<1>2. f.to \in S /\ g.to \in S \ {f.to}
  OBVIOUS
<1>3. Distinct(Sent) = Cardinality(S)
  BY DEF Distinct
<1> HIDE DEF S
<1>4. /\ IsFiniteSet(S \ {f.to}) /\ Cardinality(S) \in Nat /\ Cardinality(S \ {f.to}) \in Nat
      /\ Cardinality(S \ {f.to}) = Cardinality(S) - 1
  BY <1>1, <1>2, CountWithout
<1>5. /\ Cardinality((S \ {f.to}) \ {g.to}) \in Nat
      /\ Cardinality((S \ {f.to}) \ {g.to}) = Cardinality(S \ {f.to}) - 1
  BY <1>2, <1>4, CountWithout
<1> QED
  BY <1>3, <1>4, <1>5

(* A part of what is sent that was large enough without a transfer to an exchange is large
   enough with it, or two counterparties are sent to. *)
LEMMA OutflowStays ==
    ASSUME FewFlows, NEW f \in Sent, IsA(f, "exchange"),
           Without(f)!OutflowPercentAtLeast(35) \/ Without(f)!Distinct(Without(f)!Sent) >= 2
    PROVE  OutflowPercentAtLeast(35) \/ Distinct(Sent) >= 2
<1>0. SetsWithout(f) /\ f \in flows
  BY SetsAreWithout DEF Sent
<1>1. /\ Without(f)!Sent = Sent \ {f} /\ Without(f)!BridgeLinks = BridgeLinks \ {f}
      /\ Without(f)!ExchangePaths = ExchangePaths \ {f}
      /\ \A S : Without(f)!Cardinality(S) = Cardinality(S) /\ Without(f)!Distinct(S) = Distinct(S)
  BY <1>0 DEF SetsWithout, Without!Cardinality, Cardinality
<1>2. CASE Without(f)!Distinct(Without(f)!Sent) >= 2
  <2>1. Sent \ {f} \in SUBSET Sent
    OBVIOUS
  <2>2. Distinct(Sent \ {f}) <= Distinct(Sent) /\ Distinct(Sent \ {f}) \in Nat /\ Distinct(Sent) \in Nat
    BY <2>1, ReportsFinite, DistinctFollows
  <2> QED
    BY <1>1, <1>2, <2>2
<1>3. CASE Without(f)!OutflowPercentAtLeast(35)
  <2>1. ASSUME NEW S, IsFiniteSet(S)
        PROVE  /\ Cardinality(S) \in Nat /\ Cardinality(S \ {f}) \in Nat
               /\ Cardinality(S \ {f}) = IF f \in S THEN Cardinality(S) - 1 ELSE Cardinality(S)
    BY <2>1, CountWithout, Zenon
  <2>2. /\ Cardinality(flows) \in Nat /\ Cardinality(flows \ {f}) \in Nat
        /\ Cardinality(flows \ {f}) = Cardinality(flows) - 1
        /\ Cardinality(Sent) \in Nat /\ Cardinality(Sent \ {f}) \in Nat
        /\ Cardinality(Sent \ {f}) = Cardinality(Sent) - 1
    BY <1>0, <2>1, ReportsFinite DEF FewFlows
  <2>3. CASE Cardinality(flows \ {f}) > 0 /\ 100 * Cardinality(Sent \ {f}) >= 35 * Cardinality(flows \ {f})
    <3>1. Cardinality(flows) > 0 /\ 100 * Cardinality(Sent) >= 35 * Cardinality(flows)
      BY <2>2, <2>3
    <3> QED
      BY <3>1 DEF OutflowPercentAtLeast
  <2>4. ASSUME NEW S \in {BridgeLinks, ExchangePaths}, Cardinality(Sent \ {f}) > 0,
               100 * Cardinality(S \ {f}) >= 35 * Cardinality(Sent \ {f})
        PROVE  OutflowPercentAtLeast(35) \/ Distinct(Sent) >= 2
    <3>1. IsFiniteSet(S) /\ S \subseteq Sent
      BY ReportsFinite
    <3>2. /\ Cardinality(S) \in Nat /\ Cardinality(S \ {f}) \in Nat
          /\ Cardinality(S \ {f}) = IF f \in S THEN Cardinality(S) - 1 ELSE Cardinality(S)
      BY <2>1, <3>1
    <3>3. CASE f \in S
      <4>1. Cardinality(Sent) > 0 /\ 100 * Cardinality(S) >= 35 * Cardinality(Sent)
        BY <2>2, <2>4, <3>2, <3>3
      <4> QED
        BY <4>1 DEF OutflowPercentAtLeast
    <3>4. CASE f \notin S
      <4>1. S \ {f} # {}
        <5> SUFFICES ASSUME S \ {f} = {} PROVE FALSE
          OBVIOUS
        <5>1. Cardinality(S \ {f}) = 0
          BY FS_EmptySet
        <5> QED
          BY <2>2, <2>4, <5>1
      <4>2. PICK g \in S : TRUE
        BY <4>1
      <4>3. g.to # f.to
        BY <1>0, <3>4, <4>2 DEF BridgeLinks, ExchangePaths, SentTo, IsA
      <4> QED
        BY <3>1, <4>2, <4>3, TwoAreDistinct
    <3> QED
      BY <3>3, <3>4
  <2>5. \/ Cardinality(flows \ {f}) > 0 /\ 100 * Cardinality(Sent \ {f}) >= 35 * Cardinality(flows \ {f})
        \/ \E S \in {BridgeLinks \ {f}, ExchangePaths \ {f}} :
               Cardinality(Sent \ {f}) > 0 /\ 100 * Cardinality(S) >= 35 * Cardinality(Sent \ {f})
    BY <1>1, <1>3 DEF Without!OutflowPercentAtLeast
  <2> QED
    BY <2>3, <2>4, <2>5
<1> QED
  BY <1>2, <1>3

(* So the finding stays: one more strong path, no fewer anchors, a fanout as large. *)
LEMMA FindingStays ==
    ASSUME FewFlows, NEW f \in Sent,
           IsA(f, "exchange") \/ (IsA(f, "marketMaker") /\ Distinct(Sent) > 1),
           Without(f)!ShouldEmitTreasuryRedistribution
    PROVE  ShouldEmitTreasuryRedistribution
<1>0. SetsWithout(f)
  BY SetsAreWithout
<1>1. f \in StrongPaths /\ f \in TreasuryToMarket
  BY DEF StrongPaths, TreasuryToMarket, MarketPaths, MarketPathOf
<1>2. FanoutDays # {} /\ FanoutSignatureCount # 0
  BY FanoutStays DEF Without!ShouldEmitTreasuryRedistribution
<1>3. root.label = "treasury" \/ AnchorMatchCount > 0
  <2>1. CASE root.label = "treasury"
    BY <2>1
  <2>2. CASE Without(f)!AnchorMatchCount > 0
    <3>1. /\ Without(f)!AnchorMatchCount
               = Strongest(Points(1, root.label = "treasury"), Distinct(SentTo("treasury") \ {f}))
      BY <1>0 DEF SetsWithout, Without!AnchorMatchCount, Without!Strongest, Strongest, Without!Points, Points
    <3>2. SentTo("treasury") \ {f} \in SUBSET SentTo("treasury")
      OBVIOUS
    <3>3. /\ Distinct(SentTo("treasury")) \in Nat /\ Distinct(SentTo("treasury") \ {f}) \in Nat
          /\ Distinct(SentTo("treasury") \ {f}) <= Distinct(SentTo("treasury"))
      BY <3>2, ReportsFinite, DistinctFollows
    <3>4. Points(1, root.label = "treasury") \in Nat
      BY DEF Points
    <3> QED
      BY <2>2, <3>1, <3>3, <3>4 DEF AnchorMatchCount, Strongest
  <2> QED
    BY <2>1, <2>2 DEF Without!ShouldEmitTreasuryRedistribution
<1>4. OutflowPercentAtLeast(35) \/ Distinct(Sent) >= 2
  <2>1. CASE IsA(f, "exchange")
    BY <2>1, OutflowStays DEF Without!ShouldEmitTreasuryRedistribution
  <2>2. CASE Distinct(Sent) > 1
    <3>1. Distinct(Sent) \in Nat
      BY ReportsFinite, DistinctFollows
    <3> QED
      BY <2>2, <3>1
  <2> QED
    BY <2>1, <2>2
<1> QED
  BY <1>1, <1>2, <1>3, <1>4 DEF ShouldEmitTreasuryRedistribution

(* No path is called a project's: a handoff to a market maker is never found. *)
LEMMA NoHandoff == ~ShouldEmitMMHandoff
<1>1. \A f : MMPathOf(f) # "projectPath"
  BY DEF MMPathOf
<1>2. MMPaths({"projectPath"}) = {}
  BY <1>1 DEF MMPaths
<1> QED
  BY <1>2 DEF ShouldEmitMMHandoff

(* All of it, for finitely many transfers. *)
LEMMA FlowsCount == FewFlows => MarketFlowsCount
BY MarketSpeaks, FindingStays DEF MarketFlowsCount

(* The flows have no specification of their own either. *)
LEMMA FlowsBehave == RecordsSpec => FlowsInit /\ [][FlowsNext]_flowVars
<1>1. RecordsInit => FlowsInit
  BY DEF RecordsInit
<1>2. [RecordsNext]_recordVars => [FlowsNext]_flowVars
  BY DEF RecordsNext, Stand, recordVars
<1> QED
  BY <1>1, <1>2, PTL DEF RecordsSpec

(* Curated lists and their index go on alone. *)
LEMMA CuratedBehaves == RecordsSpec => CuratedSpec
<1>1. RecordsInit => CuratedInit
  BY DEF RecordsInit
<1>2. [RecordsNext]_recordVars => [CuratedNext]_curatedVars
  BY DEF RecordsNext, Stand, recordVars
<1> QED
  BY <1>1, <1>2, PTL DEF RecordsSpec, CuratedSpec

(* The tables that readers trust follow what they were made of: transfer evidence is of its
   latest run, and the entity index is what the curated lists say, for any lists, keys,
   changes and runs, and so is what the cached graphs of one hop show, unless a rebuild was
   outrun or failed, or a reader stored what a drop had overtaken. *)
THEOREM TablesAreFollowed == RecordsSpec => []TablesFollow
<1>1. EvidenceOfLatestRun /\ IndexFollowsLists => TablesFollow
  BY DEF TablesFollow
<1> QED
  BY <1>1, PartsBehave, EvidenceHolds, CuratedBehaves, IndexHolds, PTL

(* What is sent to the market speaks for its finding, and the sample of a large graph is the
   same however its rows arrive: of any counterparties, classes and graphs, and of however
   many transfers. *)
THEOREM EvidenceHasWeight == RecordsSpec => []EvidenceCounts
<1>1. FlowsInit => FewFlows
  BY FS_EmptySet DEF FlowsInit, FewFlows, FlowsTypeOK
<1>2. FlowsInit /\ [][FlowsNext]_flowVars => []FewFlows
  BY <1>1, FlowsKept, PTL
<1>3. GraphsInit /\ [][GraphsNext]_graphVars => []SampleIsDeterministic
  BY SampleHolds, PTL
<1>4. FewFlows /\ SampleIsDeterministic => EvidenceCounts
  BY FlowsCount DEF EvidenceCounts
<1> QED
  BY <1>2, <1>3, <1>4, FlowsBehave, ScoresBehave, PTL

-----------------------------------------------------------------------------
(* The types that the runs check: what the invariants above leave out are the bounds of the
   counters, and what only the model's histories and names are of. *)
ExplainBounds == explains \in 0..MaxExplains /\ explainFailures \in 0..MaxExplainFailures

(* The requests and the failures are counted up to their bounds. *)
LEMMA ExplainBounded == ExplainSpec => []ExplainBounds
<1>1. ExplainInit => ExplainBounds
  BY ExplainBoundsAssumption DEF ExplainInit, ExplainBounds
<1>2. ExplainBounds /\ [ExplainNext]_explainVars => ExplainBounds'
  <2> SUFFICES ASSUME ExplainBounds, [ExplainNext]_explainVars PROVE ExplainBounds'
    OBVIOUS
  <2>1. ASSUME NEW e \in Explainers, NEW p \in Prompts, NEW force \in BOOLEAN, NEW async \in BOOLEAN,
               ExplainWallet(e, p, force, async)
        PROVE  ExplainBounds'
    BY <2>1, ExplainBoundsAssumption DEF ExplainWallet, ExplainBounds
  <2>2. ASSUME NEW e \in Explainers, ExplainStep(e) PROVE UNCHANGED <<explains, explainFailures>>
    BY <2>2 DEF ExplainStep, ReadAIExplanationByCacheKey, ReadLatestAIExplanationForScope,
       EnforceUserQuota, UpsertPending, GenerateWalletExplanation, UpsertCompleted, UpsertFailed,
       RecordGenerationAudit
  <2>3. ASSUME NEW e \in Explainers, ExplainFails(e) PROVE ExplainBounds'
    BY <2>3, ExplainBoundsAssumption DEF ExplainFails, ExplainBounds
  <2>4. UNCHANGED <<explains, explainFailures>> => ExplainBounds'
    BY DEF ExplainBounds
  <2> QED
    BY <2>1, <2>2, <2>3, <2>4 DEF ExplainNext, Grow, explainVars
<1> QED
  BY <1>1, <1>2, PTL DEF ExplainSpec

(* Explanations are what their types say. *)
THEOREM ExplanationTypes == ExplainSpec => []ExplainTypeOK
<1>1. ExplainInv /\ ExplainBounds => ExplainTypeOK
  BY DEF ExplainInv, ExplainTypes, ExplainBounds, ExplainTypeOK
<1> QED
  BY <1>1, ExplainInvHolds, ExplainBounded, PTL

(* The requests that will make a list, or have yet to count the lists. *)
Makers == {c \in Clients : client[c].at \in {"count", "create"}}

(* Each list was asked for; names and promises are of what was asked. *)
WatchNames ==
    /\ \A l \in DOMAIN lists : lists[l].name \in Names
    /\ \A c \in Clients :
          /\ client[c].at \in {"count", "create", "rename"} => client[c].name \in Names
          /\ client[c].at \in {"total", "write"} => client[c].read.name \in Names
WatchCount ==
    /\ watchRequests \in 0..MaxWatchRequests
    /\ created + Cardinality(Makers) <= watchRequests
WatchRest ==
    /\ driver \in {"postgres", "memory"}
    /\ promised \subseteq (1..created) \X Items

(* How many are to make a list, after one request has moved. *)
LEMMA MakersMove ==
    ASSUME NEW c \in Clients, \A d \in Clients \ {c} : client'[d] = client[d]
    PROVE  /\ Cardinality(Makers) \in Nat /\ Cardinality(Makers') \in Nat
           /\ Cardinality(Makers') <= Cardinality(Makers) + 1
           /\ client'[c].at \notin {"count", "create"} => Cardinality(Makers') <= Cardinality(Makers)
           /\ client[c].at \in {"count", "create"} => Cardinality(Makers') <= Cardinality(Makers)
           /\ client[c].at = "create" /\ client'[c].at \notin {"count", "create"}
                  => Cardinality(Makers') = Cardinality(Makers) - 1
<1> DEFINE A == Makers
           B == Makers'
<1>1. /\ A \ {c} = B \ {c} /\ A \subseteq Clients /\ B \subseteq Clients
      /\ c \in A <=> client[c].at \in {"count", "create"}
      /\ c \in B <=> client'[c].at \in {"count", "create"}
  BY DEF Makers
<1> HIDE DEF A, B
<1>2. IsFiniteSet(A) /\ IsFiniteSet(B) /\ Cardinality(A) \in Nat /\ Cardinality(B) \in Nat
  BY <1>1, ClientsAssumption, FS_Subset, FS_CardinalityType
<1>3. B \subseteq A \cup {c} /\ (c \notin B => B \subseteq A) /\ (c \in A => B \subseteq A)
  BY <1>1
<1>4. Cardinality(B) <= Cardinality(A) + 1
  BY <1>2, <1>3, AddedAtMost
<1>5. B \subseteq A => Cardinality(B) <= Cardinality(A)
  BY <1>2, FS_Subset
<1>6. c \in A /\ c \notin B => Cardinality(B) = Cardinality(A) - 1
  <2>1. c \in A /\ c \notin B => B = A \ {c}
    BY <1>1
  <2>2. c \in A => Cardinality(A) = Cardinality(A \ {c}) + 1 /\ Cardinality(A \ {c}) \in Nat
    BY <1>2, OneLess
  <2> QED
    BY <1>2, <2>1, <2>2
<1> QED
  BY <1>1, <1>2, <1>3, <1>4, <1>5, <1>6 DEF A, B

(* A request is set to another call; the others stay. *)
ClientSet(c, q) ==
    /\ client' \in [Clients -> WatchRequests] /\ client'[c] = q
    /\ \A d \in Clients \ {c} : client'[d] = client[d]

(* What the requests do, said of what each has in hand: one begins, *)
LEMMA BeginSets ==
    ASSUME WatchTypes, NEW c \in Clients, NEW q \in WatchRequests, Begin(c, q)
    PROVE  ClientSet(c, q)
BY DEF WatchTypes, Begin, ClientSet

(* it is answered, *)
LEMMA AnsweredSets ==
    ASSUME WatchTypes, NEW c \in Clients, Answered(c)
    PROVE  ClientSet(c, NoClientRequest) /\ NoClientRequest.at = "idle"
<1>1. NoClientRequest \in WatchRequests /\ NoClientRequest.at = "idle"
  BY DEF NoClientRequest, WatchRequests, WatchCalls, SavedLists, NoList
<1> QED
  BY <1>1 DEF Answered, ClientSet, WatchTypes

(* or goes on with the list it has read. *)
LEMMA ContinuesSets ==
    ASSUME WatchTypes, NEW c \in Clients, NEW label \in WatchCalls, NEW w \in SavedLists, Continues(c, label, w)
    PROVE  \E q \in WatchRequests :
              ClientSet(c, q) /\ q.at = label /\ q.read = w /\ q.name = client[c].name
<1> DEFINE q == [client[c] EXCEPT !.at = label, !.read = w]
<1>1. client[c] \in WatchRequests
  BY DEF WatchTypes
<1>2. q \in WatchRequests /\ q.at = label /\ q.read = w /\ q.name = client[c].name
  BY <1>1 DEF WatchRequests
<1>3. client' = [client EXCEPT ![c] = q]
  BY DEF Continues
<1> HIDE DEF q
<1> QED
  BY <1>2, <1>3 DEF ClientSet, WatchTypes

(* The list a request goes on with is one it was asked for. *)
ReadsNamed(c) ==
    \E label \in {"total", "write"}, w \in SavedLists : w.name \in Names /\ Continues(c, label, w)

(* A request that finds its list is answered, or goes on with it as asked. *)
LEMMA FoundNamed ==
    ASSUME WatchTypes, WatchNames, NEW c \in Clients, FindWatchlist(c)
    PROVE  Answered(c) \/ ReadsNamed(c)
<1> DEFINE l == client[c].list
           k == client[c].item
           w == lists[l]
           others == {i \in w.items : i.key # k}
           known == others # w.items
           step == client[c].at
<1>1. CASE l \notin DOMAIN lists
  BY <1>1 DEF FindWatchlist
<1>2. CASE l \in DOMAIN lists
  <2>1. w \in SavedLists /\ w.name \in Names /\ others \subseteq w.items /\ w.items \in SUBSET Items
    BY <1>2 DEF WatchTypes, WatchNames, SavedLists
  <2>2. ASSUME NEW n \in Names PROVE [w EXCEPT !.name = n] \in SavedLists /\ [w EXCEPT !.name = n].name \in Names
    BY <2>1, <2>2 DEF SavedLists
  <2>3. ASSUME NEW items \in SUBSET Items
        PROVE  [w EXCEPT !.items = items] \in SavedLists /\ [w EXCEPT !.items = items].name \in Names
    BY <2>1, <2>3 DEF SavedLists
  <2>4. CASE step = "rename"
    <3>1. client[c].name \in Names
      BY <2>4 DEF WatchNames
    <3> QED
      BY <1>2, <2>2, <2>4, <3>1 DEF FindWatchlist, ReadsNamed
  <2>5. CASE step = "remove"
    BY <1>2, <2>1, <2>3, <2>5 DEF FindWatchlist, ReadsNamed
  <2>6. CASE step \in {"add", "change"}
    <3>1. k \in ItemKeys
      BY <2>6 DEF WatchTypes
    <3>2. /\ others \cup {[key |-> k, changed |-> FALSE]} \in SUBSET Items
          /\ others \cup {[key |-> k, changed |-> TRUE]} \in SUBSET Items
      <4>1. [key |-> k, changed |-> FALSE] \in Items /\ [key |-> k, changed |-> TRUE] \in Items
        BY <3>1 DEF Items
      <4>2. others \subseteq Items
        BY <2>1
      <4> HIDE DEF others, k
      <4> QED
        BY <4>1, <4>2
    <3> HIDE DEF others, w, k, l
    <3>3. \/ Answered(c)
          \/ \E label \in {"total", "write"}, items \in SUBSET Items :
                Continues(c, label, [w EXCEPT !.items = items])
      BY <1>2, <2>6, <3>2 DEF FindWatchlist, l, k, w, others
    <3> QED
      BY <2>3, <3>3 DEF ReadsNamed
  <2> QED
    BY <2>4, <2>5, <2>6 DEF FindWatchlist
<1> QED
  BY <1>1, <1>2

(* What is in the names of the lists and requests, and how many were made: a request begins, *)
LEMMA BegunCounts ==
    ASSUME WatchTypes, WatchNames, WatchCount, NEW c \in Clients, NEW q \in WatchRequests, Begin(c, q),
           q.at \in {"count", "create", "rename"} => q.name \in Names, q.at \notin {"total", "write"}
    PROVE  WatchNames' /\ WatchCount'
<1>1. /\ ClientSet(c, q) /\ UNCHANGED <<lists, created>>
      /\ watchRequests < MaxWatchRequests /\ watchRequests' = watchRequests + 1
  BY BeginSets DEF Begin
<1>2. WatchNames'
  BY <1>1 DEF WatchNames, ClientSet
<1>3. /\ Cardinality(Makers) \in Nat /\ Cardinality(Makers') \in Nat
      /\ Cardinality(Makers') <= Cardinality(Makers) + 1
  BY <1>1, MakersMove DEF ClientSet
<1>4. created \in Nat
  BY DEF WatchTypes
<1> QED
  BY <1>1, <1>2, <1>3, <1>4, ClientsAssumption DEF WatchCount

(* goes on or is answered, and no list is made, *)
LEMMA MovedCounts ==
    ASSUME WatchTypes, WatchNames, WatchCount, NEW c \in Clients, NEW q \in WatchRequests, ClientSet(c, q),
           UNCHANGED <<created, watchRequests>>,
           \A l \in DOMAIN lists' : lists'[l].name \in Names,
           q.at \in {"count", "create", "rename"} => q.name \in Names,
           q.at \in {"total", "write"} => q.read.name \in Names,
           client[c].at \in {"count", "create"} \/ q.at \notin {"count", "create"}
    PROVE  WatchNames' /\ WatchCount'
<1>1. WatchNames'
  BY DEF WatchNames, ClientSet
<1>2. /\ Cardinality(Makers) \in Nat /\ Cardinality(Makers') \in Nat
      /\ Cardinality(Makers') <= Cardinality(Makers)
  BY MakersMove DEF ClientSet
<1>3. created \in Nat
  BY DEF WatchTypes
<1> QED
  BY <1>1, <1>2, <1>3, ClientsAssumption DEF WatchCount

(* or a list is made. *)
LEMMA MadeCounts ==
    ASSUME WatchTypes, WatchNames, WatchCount, NEW c \in Clients, InsertWatchlist(c)
    PROVE  WatchNames' /\ WatchCount'
<1>1. /\ client[c].at = "create" /\ created' = created + 1 /\ watchRequests' = watchRequests
      /\ ClientSet(c, NoClientRequest) /\ NoClientRequest.at = "idle" /\ client[c].name \in Names
      /\ created \in Nat
  BY AnsweredSets DEF InsertWatchlist, WatchNames, WatchTypes
<1>2. \A l \in DOMAIN lists' : lists'[l].name \in Names
  <2>1. lists' = [l \in DOMAIN lists \cup {created + 1} |->
                    IF l = created + 1 THEN [name |-> client[c].name, items |-> {}] ELSE lists[l]]
    BY DEF InsertWatchlist
  <2> QED
    BY <1>1, <2>1 DEF WatchNames
<1>3. WatchNames'
  BY <1>1, <1>2 DEF WatchNames, ClientSet
<1>4. /\ Cardinality(Makers) \in Nat /\ Cardinality(Makers') \in Nat
      /\ Cardinality(Makers') = Cardinality(Makers) - 1
  BY <1>1, MakersMove DEF ClientSet
<1> QED
  BY <1>1, <1>3, <1>4 DEF WatchCount

(* So every step keeps both. *)
LEMMA CountsKept ==
    ASSUME WatchTypes, WatchNames, WatchCount, [WatchNext]_watchVars
    PROVE  WatchNames' /\ WatchCount'
<1>n. \A l \in DOMAIN lists : lists[l].name \in Names
  BY DEF WatchNames
<1>a. ASSUME NEW c \in Clients, Answered(c), UNCHANGED <<created, watchRequests>>,
             \A l \in DOMAIN lists' : lists'[l].name \in Names
      PROVE  WatchNames' /\ WatchCount'
  <2>1. NoClientRequest \in WatchRequests
    BY DEF NoClientRequest, WatchRequests, WatchCalls, SavedLists, NoList
  <2> QED
    BY <1>a, <2>1, AnsweredSets, MovedCounts
<1>1. ASSUME NEW c \in Clients, NEW n \in Names, CreateWatchlist(c, n) PROVE WatchNames' /\ WatchCount'
  <2> DEFINE q == [NoClientRequest EXCEPT !.at = "count", !.name = n]
  <2>1. q \in WatchRequests /\ q.at = "count" /\ q.name = n
    BY DEF NoClientRequest, WatchRequests, WatchCalls, SavedLists, NoList
  <2>2. Begin(c, q)
    BY <1>1 DEF CreateWatchlist
  <2> HIDE DEF q
  <2> QED
    BY <2>1, <2>2, BegunCounts
<1>l. \A l \in DOMAIN lists : l \in Nat
  BY DEF WatchTypes
<1>2. ASSUME NEW c \in Clients, NEW l \in DOMAIN lists, NEW n \in Names \cup {"none"},
             NEW what \in {"rename", "delete"}, what = "rename" => n \in Names, OnList(c, what, l, n)
      PROVE  WatchNames' /\ WatchCount'
  <2> DEFINE q == [NoClientRequest EXCEPT !.at = what, !.list = l, !.name = n]
  <2>1. q \in WatchRequests /\ q.at = what /\ q.name = n
    <3>1. l \in Nat
      BY <1>l
    <3> QED
      BY <3>1 DEF NoClientRequest, WatchRequests, WatchCalls, SavedLists, NoList
  <2>2. Begin(c, q)
    BY <1>2 DEF OnList
  <2> HIDE DEF q
  <2> QED
    BY <1>2, <2>1, <2>2, BegunCounts
<1>3. ASSUME NEW c \in Clients, NEW l \in DOMAIN lists, NEW k \in ItemKeys,
             NEW what \in {"add", "change", "remove"}, OnItem(c, what, l, k)
      PROVE  WatchNames' /\ WatchCount'
  <2> DEFINE q == [NoClientRequest EXCEPT !.at = what, !.list = l, !.item = k]
  <2>1. q \in WatchRequests /\ q.at = what
    <3>1. l \in Nat
      BY <1>l
    <3> QED
      BY <3>1 DEF NoClientRequest, WatchRequests, WatchCalls, SavedLists, NoList
  <2>2. Begin(c, q)
    BY <1>3 DEF OnItem
  <2> HIDE DEF q
  <2> QED
    BY <2>1, <2>2, BegunCounts
<1>4. ASSUME NEW c \in Clients, CountWatchlists(c) PROVE WatchNames' /\ WatchCount'
  <2>1. client[c].at = "count" /\ UNCHANGED <<lists, created, watchRequests>> /\ client[c].name \in Names
    BY <1>4 DEF CountWatchlists, WatchNames
  <2>2. CASE Continues(c, "create", NoList)
    <3>1. NoList \in SavedLists /\ "create" \in WatchCalls
      BY DEF NoList, SavedLists, WatchCalls
    <3>2. PICK q \in WatchRequests : ClientSet(c, q) /\ q.at = "create" /\ q.name = client[c].name
      BY <2>2, <3>1, ContinuesSets
    <3> QED
      BY <1>n, <2>1, <3>2, MovedCounts
  <2> QED
    BY <1>4, <1>a, <1>n, <2>1, <2>2 DEF CountWatchlists
<1>5. ASSUME NEW c \in Clients, DeleteWatchlist(c) PROVE WatchNames' /\ WatchCount'
  <2>1. \A l \in DOMAIN lists' : lists'[l].name \in Names
    BY <1>5, <1>n DEF DeleteWatchlist
  <2> QED
    BY <1>5, <1>a, <2>1 DEF DeleteWatchlist
<1>6. ASSUME NEW c \in Clients, NEW label \in {"total", "write"}, NEW w \in SavedLists, w.name \in Names,
             Continues(c, label, w), UNCHANGED <<lists, created, watchRequests>>
      PROVE  WatchNames' /\ WatchCount'
  <2>1. label \in WatchCalls
    BY DEF WatchCalls
  <2>2. PICK q \in WatchRequests : ClientSet(c, q) /\ q.at = label /\ q.read = w
    BY <1>6, <2>1, ContinuesSets
  <2> QED
    BY <1>6, <1>n, <2>2, MovedCounts
<1>7. ASSUME NEW c \in Clients, FindWatchlist(c) PROVE WatchNames' /\ WatchCount'
  BY <1>6, <1>7, <1>a, <1>n, FoundNamed DEF FindWatchlist, ReadsNamed
<1>8. ASSUME NEW c \in Clients, TotalItems(c) PROVE WatchNames' /\ WatchCount'
  <2>1. client[c].read \in SavedLists /\ client[c].read.name \in Names
    BY <1>8 DEF TotalItems, WatchTypes, WatchRequests, WatchNames
  <2> QED
    BY <1>6, <1>8, <1>a, <1>n, <2>1 DEF TotalItems
<1>9. ASSUME NEW c \in Clients, WriteWatchlist(c) PROVE WatchNames' /\ WatchCount'
  <2>1. client[c].at = "write" /\ Answered(c) /\ UNCHANGED <<created, watchRequests>>
        /\ client[c].read.name \in Names
    BY <1>9 DEF WriteWatchlist, WatchNames
  <2>2. \A l \in DOMAIN lists' : lists'[l].name \in Names
    <3>1. CASE lists' = lists
      BY <1>n, <3>1
    <3>2. CASE client[c].list \in DOMAIN lists /\ UpdateWatchlist(client[c].list, client[c].read)
      <4> DEFINE l == client[c].list
                 w == client[c].read
                 v == IF driver = "postgres" THEN [lists[l] EXCEPT !.name = w.name] ELSE w
      <4>1. lists[l] \in SavedLists /\ w \in SavedLists
        BY <3>2 DEF WatchTypes, WatchRequests
      <4>2. v.name \in Names
        BY <2>1, <4>1 DEF SavedLists
      <4>3. lists' = [lists EXCEPT ![l] = v]
        BY <3>2 DEF UpdateWatchlist
      <4> HIDE DEF v
      <4> QED
        BY <1>n, <3>2, <4>2, <4>3
    <3> QED
      BY <1>9, <3>1, <3>2 DEF WriteWatchlist
  <2> QED
    BY <1>a, <2>1, <2>2
<1>10. ASSUME UNCHANGED watchVars PROVE WatchNames' /\ WatchCount'
  BY <1>10 DEF watchVars, WatchNames, WatchCount, Makers
<1> QED
  BY <1>1, <1>2, <1>3, <1>4, <1>5, <1>7, <1>8, <1>9, <1>10, MadeCounts DEF WatchNext, ClientStep

(* What is promised is an item of a list that was made. *)
LEMMA PromisesKept ==
    ASSUME WatchTypes, WatchTypes', WatchRest, [WatchNext]_watchVars
    PROVE  WatchRest'
<1>1. driver' = driver /\ (created' = created \/ created' = created + 1)
  BY DEF WatchNext, ClientStep, CreateWatchlist, OnList, OnItem, Begin, CountWatchlists, InsertWatchlist,
     DeleteWatchlist, FindWatchlist, TotalItems, WriteWatchlist, watchVars
<1>2. 1..created \subseteq 1..created' /\ DOMAIN lists \subseteq 1..created
  BY <1>1 DEF WatchTypes
<1>3. ASSUME NEW c \in Clients, WriteWatchlist(c) PROVE promised' \subseteq (1..created) \X Items
  <2>1. client[c].read.items \subseteq Items
    BY DEF WatchTypes, WatchRequests, SavedLists
  <2>2. client[c].list \in DOMAIN lists => {client[c].list} \X client[c].read.items \subseteq (1..created) \X Items
    BY <1>2, <2>1
  <2> QED
    BY <1>3, <2>2 DEF WriteWatchlist, WatchRest
<1>4. promised' \subseteq promised \/ \E c \in Clients : WriteWatchlist(c)
  BY DEF WatchNext, ClientStep, CreateWatchlist, OnList, OnItem, Begin, CountWatchlists, InsertWatchlist,
     DeleteWatchlist, FindWatchlist, TotalItems, watchVars
<1>5. promised' \subseteq (1..created) \X Items
  BY <1>3, <1>4 DEF WatchRest
<1>6. (1..created) \X Items \subseteq (1..created') \X Items
  BY <1>2
<1> QED
  BY <1>1, <1>5, <1>6 DEF WatchRest

(* Watchlists are what their types say: no more of them are made than were asked for. *)
THEOREM WatchlistTypes == WatchSpec => []WatchTypeOK
<1>1. WatchInit => WatchNames /\ WatchCount /\ WatchRest
  <2> SUFFICES ASSUME WatchInit PROVE WatchNames /\ WatchCount /\ WatchRest
    OBVIOUS
  <2>1. Makers = {}
    BY DEF WatchInit, Makers, NoClientRequest
  <2>2. Cardinality(Makers) = 0
    BY <2>1, FS_EmptySet
  <2> QED
    BY <2>2, ClientsAssumption DEF WatchInit, WatchNames, WatchCount, WatchRest, NoClientRequest
<1>2. WatchInv /\ WatchInv' /\ (WatchNames /\ WatchCount /\ WatchRest) /\ [WatchNext]_watchVars
         => (WatchNames /\ WatchCount /\ WatchRest)'
  BY CountsKept, PromisesKept DEF WatchInv
<1>3. WatchInv /\ WatchNames /\ WatchCount /\ WatchRest => WatchTypeOK
  <2> SUFFICES ASSUME WatchInv, WatchNames, WatchCount, WatchRest PROVE WatchTypeOK
    OBVIOUS
  <2>0. WatchTypes
    BY DEF WatchInv
  <2>1. IsFiniteSet(Makers)
    BY ClientsAssumption, FS_Subset DEF Makers
  <2>2. created \in 0..MaxWatchRequests
    BY <2>0, <2>1, FS_CardinalityType, ClientsAssumption DEF WatchCount, WatchTypes
  <2>3. \A l \in DOMAIN lists : lists[l].name \in Names /\ lists[l].items \subseteq Items
    BY <2>0 DEF WatchTypes, WatchNames, SavedLists
  <2>4. \A c \in Clients : client[c].at \in WatchCalls /\ client[c].read.items \subseteq Items
    BY <2>0 DEF WatchTypes, WatchRequests, SavedLists
  <2> QED
    BY <2>0, <2>2, <2>3, <2>4 DEF WatchTypes, WatchCount, WatchRest, WatchTypeOK, WatchCalls
<1> QED
  BY <1>1, <1>2, <1>3, WatchInvHolds, PTL DEF WatchSpec

-----------------------------------------------------------------------------
(* A tab's rules are of its lists, and what is counted is bounded. *)
RulesOfLists == \A r \in DOMAIN ruleRows : ruleRows[r].list \in DOMAIN tracked
RuleBounds ==
    day \in 1..MaxDay /\ tabRequests \in 0..MaxTabRequests /\ tabFailures \in 0..MaxTabFailures

(* A rule is made for a list that is there. *)
LEMMA RowAddedOfList ==
    ASSUME RuleTypes, RulesOfLists, NEW b \in Tabs, tab[b].at = "new rule", RowAdded(b), tracked' = tracked
    PROVE  RulesOfLists'
<1>1. tab[b].list \in DOMAIN tracked
  BY DEF RuleTypes
<1>2. DOMAIN ruleRows' = DOMAIN ruleRows \cup {NextRow}
  BY RowAddedGrows
<1> QED
  BY <1>1, <1>2 DEF RowAdded, RulesOfLists

(* Rules keep their lists, and lists stay. *)
LEMMA RulesOfListsKept == ASSUME RuleTypes, RulesOfLists, RuleMoves PROVE RulesOfLists'
<1>1. TrackedGrown /\ RowsGrown
  BY RulesGrow
<1>2. DOMAIN ruleRows' = DOMAIN ruleRows => RulesOfLists'
  BY <1>1 DEF TrackedGrown, RowsGrown, RulesOfLists
<1>3. ASSUME NEW b \in Tabs, TabMoves(b) PROVE RulesOfLists'
  <2>1. CASE RuleMade(b)
    BY <2>1, RowAddedOfList DEF RuleMade
  <2>2. CASE TabFailed(b)
    <3>1. CASE tab[b].at = "new rule" /\ RowAdded(b) /\ UNCHANGED tracked
      BY <3>1, RowAddedOfList
    <3>2. CASE tab[b].at = "patch" /\ RowSet(tab[b].rule, tab[b].row)
      <4>1. tab[b].rule \in DOMAIN ruleRows
        BY <3>2, PatchedIsRow
      <4> QED
        BY <1>2, <3>2, <4>1, RowSetGrows
    <3> QED
      BY <1>2, <2>2, <3>1, <3>2 DEF TabFailed
  <2>3. CASE RulePatched(b)
    <3>1. tab[b].rule \in DOMAIN ruleRows /\ RowSet(tab[b].rule, tab[b].row)
      BY <2>3, PatchedIsRow DEF RulePatched
    <3> QED
      BY <1>2, <3>1, RowSetGrows
  <2> QED
    BY <1>2, <1>3, <2>1, <2>2, <2>3
       DEF TabMoves, TrackBegun, TabBegun, ListFound, ItemFound, RuleSought, PageOpened, RuleRead, ToggleBegun,
           RuleFound
<1>4. ASSUME NEW r \in DOMAIN ruleRows, RuleDeleted(r) PROVE RulesOfLists'
  BY <1>2, <1>4, RowSetGrows DEF RuleDeleted
<1> QED
  BY <1>2, <1>3, <1>4 DEF RuleMoves, RulesStay

(* The requests, the failures and the days are counted up to their bounds. *)
LEMMA RuleBoundsKept == ASSUME RuleBounds, [RulesNext]_ruleVars PROVE RuleBounds'
<1>s. UNCHANGED <<day, tabRequests, tabFailures>> => RuleBounds'
  BY DEF RuleBounds
<1>1. ASSUME tabRequests < MaxTabRequests, tabRequests' = tabRequests + 1, UNCHANGED <<day, tabFailures>>
      PROVE  RuleBounds'
  BY <1>1, TabBoundsAssumption DEF RuleBounds
<1>2. ASSUME NEW b \in Tabs, NEW w \in Trackable, Track(b, w) PROVE RuleBounds'
  BY <1>1, <1>2 DEF Track, BeginTab
<1>3. ASSUME NEW b \in Tabs, NEW r, NEW what, Toggle(b, r, what) PROVE RuleBounds'
  BY <1>1, <1>3 DEF Toggle, BeginTab
<1>4. ASSUME NEW b \in Tabs, TabStep(b) \/ OpenAlerts(b) PROVE RuleBounds'
  BY <1>s, <1>4 DEF TabStep, OpenAlerts, FindTrackedList, CreateTrackedList, ReadTrackedList,
     AddTrackedItem, WriteTrackedList, FindTrackedRule, CountRules, CreateTrackedRule, ReadRule, PatchRule, tabFrame
<1>5. ASSUME NEW b \in Tabs, TabFails(b) PROVE RuleBounds'
  <2>1. /\ tabFailures < MaxTabFailures /\ tabFailures' = tabFailures + 1
        /\ UNCHANGED <<day, tabRequests>>
    BY <1>5 DEF TabFails
  <2> QED
    BY <2>1, TabBoundsAssumption DEF RuleBounds
<1>6. ASSUME NEW r, DeleteRule(r) PROVE RuleBounds'
  BY <1>1, <1>6 DEF DeleteRule
<1>7. ASSUME DayPasses PROVE RuleBounds'
  BY <1>7, TabBoundsAssumption DEF DayPasses, RuleBounds
<1>8. ASSUME UNCHANGED ruleVars PROVE RuleBounds'
  BY <1>8, <1>s DEF ruleVars
<1> QED
  BY <1>2, <1>3, <1>4, <1>5, <1>6, <1>7, <1>8 DEF RulesNext

(* Alert rules are what their types say, and each is of a list. *)
THEOREM AlertRuleTypes == RulesSpec => []RulesTypeOK
<1>1. RulesInit => RulesOfLists /\ RuleBounds
  BY TabBoundsAssumption DEF RulesInit, RulesOfLists, RuleBounds
<1>2. RulesInv /\ (RulesOfLists /\ RuleBounds) /\ [RulesNext]_ruleVars => (RulesOfLists /\ RuleBounds)'
  BY RuleSteps, RulesOfListsKept, RuleBoundsKept DEF RulesInv
<1>3. RulesInv /\ RulesOfLists /\ RuleBounds => RulesTypeOK
  <2> SUFFICES ASSUME RulesInv, RulesOfLists, RuleBounds PROVE RulesTypeOK
    OBVIOUS
  <2>1. RuleTypes
    BY DEF RulesInv
  <2>2. \A b \in Tabs : /\ page[b] \in Seq(RuleRows) /\ tab[b].at \in TabCalls
                        /\ tab[b].what \in {"none", "enabled", "snooze"} /\ tab[b].row \in RuleRows
                        /\ tab[b].items \subseteq Trackable
    BY <2>1 DEF RuleTypes, TabStates
  <2> QED
    BY <2>1, <2>2 DEF RuleTypes, RulesOfLists, RuleBounds, RulesTypeOK, TabCalls
<1>4. RulesInv /\ [RulesNext]_ruleVars => RulesInv'
  BY RulesInvKept
<1> QED
  BY <1>1, <1>2, <1>3, <1>4, RulesStart, PTL DEF RulesSpec

-----------------------------------------------------------------------------
(* What a run of entry features has in hand, and keeps, is of the times there are. *)
EntryRows ==
    /\ now \in 1..MaxTime /\ transfers \subseteq Counterparties \X (1..MaxTime)
    /\ features \in [Days -> Features \cup {NoFeatures}]
    /\ \A r \in Runners :
          \/ run[r] = NoRun
          \/ /\ run[r].at # "idle" /\ run[r].observed \in Features
             /\ run[r].prior \in Features \cup {NoFeatures}
    /\ \A r \in Runners : run[r].at \in {"follow", "mature"} => run[r].prior \in Features
EntryBounds == runs \in 0..MaxRuns

(* Features are of a time there is. *)
LEMMA WithinTime ==
    ASSUME NEW f \in FeatureRows, f.end \in 1..MaxTime, f.resolvedAt <= MaxTime
    PROVE  f \in Features
BY TimesAssumption DEF FeatureRows, Features

(* What a snapshot that was found has, as a record of the features. *)
LEMMA FeaturesAre == Features \subseteq FeatureRows /\ NoFeatures \notin Features
<1>1. ASSUME NEW f \in Features PROVE f \in FeatureRows
  BY TimesAssumption DEF FeatureRows, Features
<1> QED
  BY <1>1 DEF NoFeatures, Features

(* The moments and the transfers go on to their bounds. *)
LEMMA TimesKept ==
    ASSUME EntryRows, [EntryNext]_entryVars
    PROVE  now' \in 1..MaxTime /\ transfers' \subseteq Counterparties \X (1..MaxTime)
<1>0. now \in 1..MaxTime /\ transfers \subseteq Counterparties \X (1..MaxTime) /\ MaxTime \in Nat
  BY TimesAssumption DEF EntryRows
<1>1. ASSUME NEW c \in Counterparties, NEW t \in Recent, StoreTransfer(c, t)
      PROVE  now' \in 1..MaxTime /\ transfers' \subseteq Counterparties \X (1..MaxTime)
  <2>1. t \in 1..MaxTime
    BY <1>0 DEF Recent
  <2> QED
    BY <1>0, <1>1, <2>1 DEF StoreTransfer
<1>2. ASSUME Tick PROVE now' \in 1..MaxTime /\ transfers' = transfers
  BY <1>0, <1>2 DEF Tick
<1>3. UNCHANGED <<now, transfers>> \/ Tick \/ \E c \in Counterparties, t \in Recent : StoreTransfer(c, t)
  BY DEF EntryNext, RunStep, RunSnapshot, ReadPrior, ReadFollowThrough, UpsertMatured, ReadHistoricalCount,
     UpsertObserved, RunFails, entryVars
<1> QED
  BY <1>0, <1>1, <1>2, <1>3

(* The runs and the features stay within the times there are. *)
LEMMA EntryRowsKept ==
    ASSUME EntryTypes, EntryTypes', EntryRows, EntryMoves, [EntryNext]_entryVars
    PROVE  EntryRows'
<1>t. /\ now' \in 1..MaxTime /\ transfers' \subseteq Counterparties \X (1..MaxTime)
      /\ now \in 1..MaxTime /\ MaxTime \in Nat
  BY TimesKept, TimesAssumption DEF EntryRows
<1>1. ASSUME NEW r \in Runners, NEW w \in RunRecords, RunSet(r, w),
             features' \in [Days -> Features \cup {NoFeatures}],
             w = NoRun \/ (w.at # "idle" /\ w.observed \in Features /\ w.prior \in Features \cup {NoFeatures}),
             w.at \in {"follow", "mature"} => w.prior \in Features
      PROVE  EntryRows'
  BY <1>1, <1>t DEF EntryRows, RunSet
<1>f. features \in [Days -> Features \cup {NoFeatures}]
  BY DEF EntryRows
<1>u. ASSUME NEW f \in Features, FeaturesSet(f) PROVE features' \in [Days -> Features \cup {NoFeatures}]
  BY <1>f, <1>u DEF FeaturesSet
<1>2. ASSUME NEW r \in Runners, NEW w \in RunRecords, RunSet(r, w),
             Begun(r, w) \/ PriorTaken(r, w) \/ FollowTaken(r, w) \/ PriorKept(r, w) \/ RunOver(r, w)
      PROVE  EntryRows'
  <2>w. w.observed \in FeatureRows /\ w.prior \in FeatureRows
    BY DEF RunRecords
  <2>r. run[r].at # "idle" => /\ run[r].observed \in Features /\ run[r].prior \in Features \cup {NoFeatures}
                              /\ run[r].observed.end \in 1..MaxTime /\ run[r].observed.resolvedAt \in 0..MaxTime
    BY NoFeaturesTyped DEF EntryRows, Features
  <2>1. CASE Begun(r, w)
    <3>1. w.observed \in Features
      <4>1. w.observed.end \in 1..now /\ w.observed.resolvedAt = 0
        BY <2>1 DEF Begun
      <4>2. w.observed.end \in 1..MaxTime /\ w.observed.resolvedAt <= MaxTime
        BY <1>t, <4>1
      <4> QED
        BY <2>w, <4>2, WithinTime
    <3> QED
      BY <1>1, <1>2, <1>f, <2>1, <3>1 DEF Begun
  <2>2. CASE PriorTaken(r, w)
    <3>1. w.prior \in Features
      BY <1>f, <2>2, NoFeaturesTyped DEF PriorTaken
    <3> QED
      BY <1>1, <1>2, <1>f, <2>2, <2>r, <3>1 DEF PriorTaken
  <2>3. CASE FollowTaken(r, w)
    <3>1. run[r].prior \in Features /\ run[r].observed.end \in 1..MaxTime
      BY <2>3, <2>r DEF FollowTaken, EntryRows
    <3>2. run[r].prior \in FeatureRows /\ run[r].observed.end \in Nat /\ run[r].prior.end \in 1..MaxTime
      BY <3>1, FeaturesAre DEF Features
    <3>3. w.prior.end = run[r].prior.end /\ w.prior.resolvedAt <= run[r].observed.end /\ w.prior \in FeatureRows
      BY <2>3, <3>2, OutcomeIs DEF FollowTaken
    <3>4. w.prior.resolvedAt <= MaxTime
      BY <1>t, <3>1, <3>3 DEF FeatureRows
    <3>5. w.prior \in Features
      BY <3>2, <3>3, <3>4, WithinTime
    <3> QED
      BY <1>1, <1>2, <1>f, <2>3, <2>r, <3>5 DEF FollowTaken
  <2>4. CASE PriorKept(r, w)
    <3>1. w.observed \in Features
      BY <1>t, <2>4, <2>r, <2>w, WithinTime DEF PriorKept
    <3>2. features' \in [Days -> Features \cup {NoFeatures}]
      <4>1. run[r].at = "mature" => run[r].prior \in Features
        BY DEF EntryRows
      <4> QED
        BY <1>f, <1>u, <2>4, <4>1 DEF PriorKept
    <3> QED
      BY <1>1, <1>2, <2>4, <2>r, <3>1, <3>2 DEF PriorKept
  <2>5. CASE RunOver(r, w)
    <3>1. features' \in [Days -> Features \cup {NoFeatures}]
      BY <1>f, <1>u, <2>5, <2>r DEF RunOver
    <3> QED
      BY <1>1, <1>2, <2>5, <3>1, NoFeaturesTyped DEF RunOver
  <2> QED
    BY <1>2, <2>1, <2>2, <2>3, <2>4, <2>5
<1>3. CASE features' = features /\ run' = run
  BY <1>3, <1>t DEF EntryRows
<1> QED
  BY <1>2, <1>3 DEF EntryMoves, RunMoves

(* The runs are counted up to their bound. *)
LEMMA RunsCounted == ASSUME EntryBounds, [EntryNext]_entryVars PROVE EntryBounds'
<1>1. ASSUME NEW r \in Runners, NEW t, NEW claims, RunSnapshot(r, t, claims) PROVE EntryBounds'
  <2>1. runs < MaxRuns /\ runs' = runs + 1
    BY <1>1 DEF RunSnapshot
  <2> QED
    BY <2>1, TimesAssumption DEF EntryBounds
<1>2. runs' = runs => EntryBounds'
  BY DEF EntryBounds
<1> QED
  BY <1>1, <1>2 DEF EntryNext, RunStep, ReadPrior, ReadFollowThrough, UpsertMatured, ReadHistoricalCount,
     UpsertObserved, RunFails, StoreTransfer, Tick, entryVars

(* Entry features are what their types say, each kept for the day it is of. *)
THEOREM EntryFeatureTypes == EntrySpec => []EntryTypeOK
<1>1. EntryInit => EntryRows /\ EntryBounds
  <2> SUFFICES ASSUME EntryInit PROVE EntryRows /\ EntryBounds
    OBVIOUS
  <2> DEFINE first == [NoFeatures EXCEPT !.end = now, !.tops = {m[1] : m \in transfers}]
  <2>1. /\ transfers \in SUBSET (Counterparties \X {now}) /\ runs = 0
        /\ features = [d \in Days |-> IF d = Day(now) THEN first ELSE NoFeatures]
        /\ run = [r \in Runners |-> NoRun]
    BY DEF EntryInit
  <2>n. now \in 1..MaxTime /\ MaxRuns \in Nat
    <3>1. now \in 1..DayLength
      BY DEF EntryInit
    <3> QED
      BY <3>1, TimesAssumption
  <2>2. first \in Features
    <3>1. {m[1] : m \in transfers} \in SUBSET Counterparties
      BY <2>1
    <3>2. NoFeatures.state \in States /\ NoFeatures.resolvedAt \in 0..MaxTime /\ NoFeatures.repeat \in BOOLEAN
      BY TimesAssumption DEF NoFeatures, States
    <3> QED
      BY <2>n, <3>1, <3>2 DEF Features, NoFeatures
  <2> HIDE DEF first
  <2>3. features \in [Days -> Features \cup {NoFeatures}] /\ \A r \in Runners : run[r] = NoRun
    BY <2>1, <2>2
  <2>4. transfers \subseteq Counterparties \X (1..MaxTime)
    BY <2>1, <2>n
  <2> QED
    <3>1. now \in 1..MaxTime /\ \A r \in Runners : run[r].at \notin {"follow", "mature"}
      BY <2>1, <2>n, NoFeaturesTyped
    <3>2. EntryRows
      BY <2>3, <2>4, <3>1 DEF EntryRows
    <3>3. EntryBounds
      BY <2>1, <2>n DEF EntryBounds
    <3> QED
      BY <3>2, <3>3
<1>2. EntryInv /\ EntryInv' /\ (EntryRows /\ EntryBounds) /\ [EntryNext]_entryVars => (EntryRows /\ EntryBounds)'
  BY EntrySteps, EntryRowsKept, RunsCounted DEF EntryInv
<1>3. EntryInv /\ EntryRows /\ EntryBounds => EntryTypeOK
  <2> SUFFICES ASSUME EntryInv, EntryRows, EntryBounds PROVE EntryTypeOK
    OBVIOUS
  <2>0. EntryTypes /\ OutcomesKnown
    BY DEF EntryInv
  <2>1. \A d \in Days : features[d] # NoFeatures => Day(features[d].end) = d
    <3>1. \A d \in Days : features[d] # NoFeatures => features[d].end # 0
      BY DEF EntryRows, Features
    <3> QED
      BY <2>0, <3>1 DEF OutcomesKnown
  <2>2. ASSUME NEW r \in Runners, run[r] # NoRun
        PROVE  run[r] \in [at : {"prior", "follow", "mature", "count", "upsert"},
                           observed : Features, prior : Features \cup {NoFeatures}]
    <3>1. /\ run[r] \in RunRecords /\ run[r].at # "idle" /\ run[r].observed \in Features
          /\ run[r].prior \in Features \cup {NoFeatures}
      BY <2>0, <2>2, RunTyped DEF EntryRows
    <3> QED
      BY <3>1 DEF RunRecords, RunCalls
  <2>3. run \in [Runners -> {NoRun} \cup [at : {"prior", "follow", "mature", "count", "upsert"},
                                          observed : Features, prior : Features \cup {NoFeatures}]]
    BY <2>0, <2>2 DEF EntryTypes
  <2> QED
    BY <2>0, <2>1, <2>3 DEF EntryTypes, EntryRows, EntryBounds, EntryTypeOK
<1> QED
  BY <1>1, <1>2, <1>3, EntryInvHolds, PTL DEF EntrySpec

-----------------------------------------------------------------------------
(* What a run of the transfer evidence has in hand, by its next call. *)
SnapFits(w) ==
    /\ w.day \in EvidenceDays /\ w.report \subseteq Observations
    /\ w.at = "look" => w.todo \subseteq Transfers
    /\ w.at = "delete" => w.todo \subseteq Tables
    /\ w.at \in {"idle", "insert"} => w.todo \subseteq Observations
SnapsFit == \A s \in ShadowRuns : SnapFits(snap[s])
EvidenceWithin ==
    /\ moment \in 1..MaxMoment /\ found \in [Transfers -> 0..MaxFound]
    /\ rows \subseteq EvidenceRows
    /\ snapshots \in 0..MaxSnapshots
    /\ reported \in [EvidenceDays -> [settled : BOOLEAN, report : SUBSET Observations]]

(* The day of a moment is one there is. *)
LEMMA TodayIsADay == ASSUME EvidenceWithin PROVE EvidenceDay(moment) \in EvidenceDays
<1>1. moment \in Nat /\ MaxMoment \in Nat /\ moment <= MaxMoment
  BY TransfersAssumption DEF EvidenceWithin
<1>2. EvidenceDay(moment) \in Nat /\ EvidenceDay(MaxMoment) \in Nat /\ EvidenceDay(moment) <= EvidenceDay(MaxMoment)
  BY <1>1, LaterDay
<1> QED
  BY <1>2 DEF EvidenceDays, EvidenceDay

(* A run that has nothing in hand. *)
LEMMA NoSnapshotFits == SnapFits(NoSnapshot)
<1>1. 0 \in EvidenceDays
  <2>1. EvidenceDay(MaxMoment) \in Nat
    BY LaterDay, TransfersAssumption
  <2> QED
    BY <2>1 DEF EvidenceDays, EvidenceDay
<1> QED
  BY <1>1 DEF SnapFits, NoSnapshot

(* One run has another record in hand. *)
LEMMA SnapFitsSet ==
    ASSUME EvidenceTypes, SnapsFit, NEW s \in ShadowRuns, NEW w, SnapFits(w), snap' = [snap EXCEPT ![s] = w]
    PROVE  SnapsFit'
<1>1. \A r \in ShadowRuns : snap'[r] = IF r = s THEN w ELSE snap[r]
  BY DEF EvidenceTypes
<1>2. ASSUME NEW r \in ShadowRuns PROVE SnapFits(snap'[r])
  BY <1>1 DEF SnapsFit
<1>3. SnapsFit' <=> \A r \in ShadowRuns : SnapFits(snap'[r])
  BY DEF SnapsFit, SnapFits
<1> QED
  BY <1>2, <1>3

(* The calls of a run: it begins with the transfers of the window, *)
LEMMA ReadFits ==
    ASSUME EvidenceTypes, EvidenceWithin, SnapsFit, NEW s \in ShadowRuns, ReadTransactions(s)
    PROVE  SnapsFit'
<1> DEFINE w == [at |-> "look", day |-> EvidenceDay(moment), todo |-> InWindow, report |-> {},
                 met |-> \E r \in ShadowRuns : snap[r].at # "idle"]
<1>1. SnapFits(w)
  BY TodayIsADay DEF SnapFits, InWindow
<1> HIDE DEF w
<1>2. snap' = [r \in ShadowRuns |-> IF r = s THEN w ELSE [snap[r] EXCEPT !.met = snap[r].at # "idle"]]
  BY DEF ReadTransactions, w
<1>3. ASSUME NEW r \in ShadowRuns, r # s PROVE SnapFits(snap'[r])
  <2>1. snap[r] \in SnapRecords /\ SnapFits(snap[r])
    BY SnapTyped DEF SnapsFit
  <2> DEFINE v == [snap[r] EXCEPT !.met = snap[r].at # "idle"]
  <2>2. v.at = snap[r].at /\ v.day = snap[r].day /\ v.todo = snap[r].todo /\ v.report = snap[r].report
    BY <2>1 DEF SnapRecords
  <2>3. snap'[r] = v
    BY <1>2, <1>3
  <2> HIDE DEF v
  <2> QED
    BY <2>1, <2>2, <2>3 DEF SnapFits
<1>4. \A r \in ShadowRuns : SnapFits(snap'[r])
  BY <1>1, <1>2, <1>3
<1>5. SnapsFit' <=> \A r \in ShadowRuns : SnapFits(snap'[r])
  BY DEF SnapsFit, SnapFits
<1> QED
  BY <1>4, <1>5

(* it looks one of them up, *)
LEMMA BuildFits ==
    ASSUME EvidenceTypes, EvidenceWithin, SnapsFit, NEW s \in ShadowRuns, NEW t \in Transfers,
           BuildObservation(s, t)
    PROVE  SnapsFit'
<1> DEFINE o == [transfer |-> t, downstream |-> found[t]]
           seen1 == snap[s].report \cup IF found[t] > 0 \/ TableOf[t] \in Unfinished THEN {o} ELSE {}
           w == [snap[s] EXCEPT !.todo = snap[s].todo \ {t}, !.report = seen1]
<1>1. snap[s] \in SnapRecords /\ SnapFits(snap[s]) /\ snap[s].at = "look"
  BY SnapTyped DEF SnapsFit, BuildObservation
<1>2. o \in Observations
  BY DEF Observations, EvidenceWithin
<1>3. seen1 \subseteq Observations
  BY <1>1, <1>2 DEF SnapFits
<1>4. snap' = [snap EXCEPT ![s] = w]
  BY DEF BuildObservation
<1> HIDE DEF o, seen1
<1>5. /\ w.at = "look" /\ w.day = snap[s].day /\ w.todo = snap[s].todo \ {t} /\ w.report = seen1
  BY <1>1 DEF SnapRecords
<1> HIDE DEF w
<1>6. SnapFits(w)
  BY <1>1, <1>3, <1>5 DEF SnapFits
<1> QED
  BY <1>4, <1>6, SnapFitsSet

(* it deletes, table by table, and inserts, row by row. *)
LEMMA WritesFit ==
    ASSUME EvidenceTypes, SnapsFit, NEW s \in ShadowRuns,
           \/ BeginReplace(s) \/ UpsertFeatures(s)
           \/ \E table \in Tables : DeleteForDay(s, table)
           \/ \E o \in Observations : Insert(s, o)
    PROVE  SnapsFit'
<1>1. snap[s] \in SnapRecords /\ SnapFits(snap[s])
  BY SnapTyped DEF SnapsFit
<1>2. ASSUME NEW at \in {"delete", "insert"}, NEW todo,
             at = "delete" => todo \subseteq Tables, at = "insert" => todo \subseteq Observations,
             snap' = [snap EXCEPT ![s] = [snap[s] EXCEPT !.at = at, !.todo = todo]]
      PROVE  SnapsFit'
  <2> DEFINE w == [snap[s] EXCEPT !.at = at, !.todo = todo]
  <2>1. w.at = at /\ w.day = snap[s].day /\ w.todo = todo /\ w.report = snap[s].report
    BY <1>1 DEF SnapRecords
  <2>2. snap' = [snap EXCEPT ![s] = w]
    BY <1>2
  <2> HIDE DEF w
  <2>3. SnapFits(w)
    BY <1>1, <1>2, <2>1 DEF SnapFits
  <2> QED
    BY <2>2, <2>3, SnapFitsSet
<1>3. ASSUME NEW todo,
             \/ snap[s].at = "delete" /\ todo \subseteq Tables
             \/ snap[s].at = "insert" /\ todo \subseteq Observations,
             snap' = [snap EXCEPT ![s] = [snap[s] EXCEPT !.todo = todo]]
      PROVE  SnapsFit'
  <2> DEFINE w == [snap[s] EXCEPT !.todo = todo]
  <2>1. w.at = snap[s].at /\ w.day = snap[s].day /\ w.todo = todo /\ w.report = snap[s].report
    BY <1>1 DEF SnapRecords
  <2>2. snap' = [snap EXCEPT ![s] = w]
    BY <1>3
  <2> HIDE DEF w
  <2>3. SnapFits(w)
    BY <1>1, <1>3, <2>1 DEF SnapFits
  <2> QED
    BY <2>2, <2>3, SnapFitsSet
<1>4. ASSUME BeginReplace(s) PROVE SnapsFit'
  <2>1. snap' = [snap EXCEPT ![s] = [snap[s] EXCEPT !.at = "delete", !.todo = Tables]]
    BY <1>4 DEF BeginReplace
  <2> QED
    BY <1>2, <2>1
<1>5. ASSUME UpsertFeatures(s) PROVE SnapsFit'
  <2>1. snap' = [snap EXCEPT ![s] = [snap[s] EXCEPT !.at = "insert", !.todo = snap[s].report]]
    BY <1>5 DEF UpsertFeatures
  <2> QED
    BY <1>1, <1>2, <2>1 DEF SnapFits
<1>6. ASSUME NEW table \in Tables, DeleteForDay(s, table) PROVE SnapsFit'
  <2> DEFINE less == snap[s].todo \ {table}
  <2>1. snap[s].at = "delete" /\ snap' = [snap EXCEPT ![s] = [snap[s] EXCEPT !.todo = less]]
    BY <1>6 DEF DeleteForDay
  <2>2. less \subseteq Tables
    BY <1>1, <2>1 DEF SnapFits
  <2> HIDE DEF less
  <2> QED
    BY <1>3, <2>1, <2>2, Zenon
<1>7. ASSUME NEW o \in Observations, Insert(s, o) PROVE SnapsFit'
  <2> DEFINE less == snap[s].todo \ {o}
  <2>1. snap[s].at = "insert" /\ snap' = [snap EXCEPT ![s] = [snap[s] EXCEPT !.todo = less]]
    BY <1>7 DEF Insert
  <2>2. less \subseteq Observations
    BY <1>1, <2>1 DEF SnapFits
  <2> HIDE DEF less
  <2> QED
    BY <1>3, <2>1, <2>2, Zenon
<1> QED
  BY <1>4, <1>5, <1>6, <1>7

(* So the runs have in hand what is of their next call. *)
LEMMA SnapsFitKept ==
    ASSUME EvidenceTypes, EvidenceWithin, SnapsFit, [EvidenceNext]_evidenceVars
    PROVE  SnapsFit'
<1>1. snap' = snap => SnapsFit'
  BY DEF SnapsFit, SnapFits
<1>2. ASSUME NEW s \in ShadowRuns, Settle(s) \/ SnapshotFails(s) PROVE SnapsFit'
  BY <1>2, NoSnapshotFits, SnapFitsSet DEF Settle, SnapshotFails
<1>3. ASSUME NEW s \in ShadowRuns, SnapshotStep(s) PROVE SnapsFit'
  BY <1>2, <1>3, BuildFits, WritesFit DEF SnapshotStep
<1>4. Pass \/ (\E t \in Transfers : StoreDownstream(t)) \/ UNCHANGED evidenceVars => snap' = snap
  BY DEF Pass, StoreDownstream, evidenceVars
<1> QED
  BY <1>1, <1>3, <1>4, ReadFits DEF EvidenceNext

(* What they write is of the days and the observations there are. *)
LEMMA EvidenceWithinKept ==
    ASSUME EvidenceTypes, EvidenceWithin, SnapsFit, [EvidenceNext]_evidenceVars
    PROVE  EvidenceWithin'
<1>0. /\ moment \in 1..MaxMoment /\ found \in [Transfers -> 0..MaxFound] /\ rows \subseteq EvidenceRows
      /\ snapshots \in 0..MaxSnapshots
      /\ reported \in [EvidenceDays -> [settled : BOOLEAN, report : SUBSET Observations]]
      /\ MaxMoment \in Nat /\ MaxFound \in Nat /\ MaxSnapshots \in Nat
  BY TransfersAssumption DEF EvidenceWithin
<1>1. ASSUME NEW s \in ShadowRuns, ReadTransactions(s) PROVE EvidenceWithin'
  <2>1. /\ snapshots < MaxSnapshots /\ snapshots' = snapshots + 1 /\ UNCHANGED <<moment, found, rows>>
        /\ reported' = [reported EXCEPT ![EvidenceDay(moment)] = Unsettled]
    BY <1>1 DEF ReadTransactions
  <2>2. Unsettled \in [settled : BOOLEAN, report : SUBSET Observations]
    BY DEF Unsettled
  <2> HIDE DEF Unsettled
  <2>3. snapshots' \in 0..MaxSnapshots
    BY <1>0, <2>1
  <2>4. reported' \in [EvidenceDays -> [settled : BOOLEAN, report : SUBSET Observations]]
    BY <1>0, <2>1, <2>2
  <2> QED
    BY <1>0, <2>1, <2>3, <2>4 DEF EvidenceWithin
<1>2. ASSUME NEW s \in ShadowRuns, Settle(s) PROVE EvidenceWithin'
  <2> DEFINE v == [settled |-> ~snap[s].met, report |-> snap[s].report]
  <2>1. v \in [settled : BOOLEAN, report : SUBSET Observations]
    BY SnapTyped DEF SnapsFit, SnapFits
  <2>2. reported' = [reported EXCEPT ![snap[s].day] = v] /\ UNCHANGED <<moment, found, rows, snapshots>>
    BY <1>2 DEF Settle
  <2> HIDE DEF v
  <2>3. reported' \in [EvidenceDays -> [settled : BOOLEAN, report : SUBSET Observations]]
    BY <1>0, <2>1, <2>2
  <2> QED
    BY <1>0, <2>2, <2>3 DEF EvidenceWithin
<1>3. ASSUME NEW s \in ShadowRuns, NEW o \in Observations, Insert(s, o) PROVE EvidenceWithin'
  <2>1. [seen |-> o, day |-> snap[s].day] \in EvidenceRows
    BY DEF EvidenceRows, SnapsFit, SnapFits
  <2>2. /\ rows' = rows \cup IF Stored(o) THEN {} ELSE {[seen |-> o, day |-> snap[s].day]}
        /\ UNCHANGED <<moment, found, snapshots, reported>>
    BY <1>3 DEF Insert
  <2>3. rows' \subseteq EvidenceRows
    BY <1>0, <2>1, <2>2
  <2> QED
    BY <1>0, <2>2, <2>3 DEF EvidenceWithin
<1>4. ASSUME rows' \subseteq rows, UNCHANGED <<moment, found, snapshots, reported>> PROVE EvidenceWithin'
  BY <1>0, <1>4 DEF EvidenceWithin
<1>5. ASSUME NEW s \in ShadowRuns,
             \/ BeginReplace(s) \/ UpsertFeatures(s) \/ SnapshotFails(s)
             \/ (\E t \in Transfers : BuildObservation(s, t))
             \/ \E table \in Tables : DeleteForDay(s, table)
      PROVE  EvidenceWithin'
  BY <1>4, <1>5 DEF BeginReplace, UpsertFeatures, SnapshotFails, BuildObservation, DeleteForDay
<1>6. ASSUME NEW t \in Transfers, StoreDownstream(t) PROVE EvidenceWithin'
  <2>1. found[t] < MaxFound /\ found' = [found EXCEPT ![t] = found[t] + 1]
        /\ UNCHANGED <<moment, rows, snapshots, reported>>
    BY <1>6 DEF StoreDownstream
  <2>2. found[t] + 1 \in 0..MaxFound
    BY <1>0, <2>1
  <2>3. found' \in [Transfers -> 0..MaxFound]
    BY <1>0, <2>1, <2>2
  <2> QED
    BY <1>0, <2>1, <2>3 DEF EvidenceWithin
<1>7. ASSUME Pass PROVE EvidenceWithin'
  <2>1. moment' \in 1..MaxMoment /\ UNCHANGED <<found, rows, snapshots, reported>>
    BY <1>0, <1>7 DEF Pass
  <2> QED
    BY <1>0, <2>1 DEF EvidenceWithin
<1>8. ASSUME UNCHANGED evidenceVars PROVE EvidenceWithin'
  BY <1>4, <1>8 DEF evidenceVars
<1> QED
  BY <1>1, <1>2, <1>3, <1>5, <1>6, <1>7, <1>8 DEF EvidenceNext, SnapshotStep

(* The evidence is what its types say: of the moments, the days and the receivers there are. *)
THEOREM EvidenceTablesTypes == EvidenceSpec => []EvidenceTypeOK
<1>1. EvidenceInit => EvidenceWithin /\ SnapsFit
  <2> SUFFICES ASSUME EvidenceInit PROVE EvidenceWithin /\ SnapsFit
    OBVIOUS
  <2>1. /\ moment = 1 /\ found = [t \in Transfers |-> 0] /\ rows = {} /\ snapshots = 0
        /\ snap = [s \in ShadowRuns |-> NoSnapshot] /\ reported = [d \in EvidenceDays |-> Unsettled]
    BY DEF EvidenceInit
  <2>2. 1 \in 1..MaxMoment /\ 0 \in 0..MaxFound /\ 0 \in 0..MaxSnapshots
    BY TransfersAssumption
  <2>3. Unsettled \in [settled : BOOLEAN, report : SUBSET Observations]
    BY DEF Unsettled
  <2>4. EvidenceWithin
    BY <2>1, <2>2, <2>3 DEF EvidenceWithin
  <2>5. SnapsFit
    BY <2>1, NoSnapshotFits DEF SnapsFit
  <2> QED
    BY <2>4, <2>5
<1>2. EvidenceInv /\ (EvidenceWithin /\ SnapsFit) /\ [EvidenceNext]_evidenceVars => (EvidenceWithin /\ SnapsFit)'
  BY EvidenceWithinKept, SnapsFitKept DEF EvidenceInv
<1>3. EvidenceInv /\ EvidenceWithin /\ SnapsFit => EvidenceTypeOK
  <2> SUFFICES ASSUME EvidenceInv, EvidenceWithin, SnapsFit PROVE EvidenceTypeOK
    OBVIOUS
  <2>1. ASSUME NEW s \in ShadowRuns
        PROVE  /\ snap[s].at \in {"idle", "look", "delete", "insert"} /\ snap[s].day \in EvidenceDays
               /\ snap[s].report \subseteq Observations /\ snap[s].met \in BOOLEAN
               /\ snap[s].todo \subseteq (CASE snap[s].at = "look" -> Transfers
                                            [] snap[s].at = "delete" -> Tables
                                            [] OTHER -> Observations)
    <3>1. snap[s] \in SnapRecords /\ SnapFits(snap[s])
      BY SnapTyped DEF EvidenceInv, SnapsFit
    <3> QED
      BY <3>1 DEF SnapRecords, SnapFits
  <2> QED
    BY <2>1 DEF EvidenceWithin, EvidenceTypeOK
<1>4. EvidenceInv /\ [EvidenceNext]_evidenceVars => EvidenceInv'
  BY EvidenceKept
<1> QED
  BY <1>1, <1>2, <1>3, <1>4, EvidenceStarts, PTL DEF EvidenceSpec

-----------------------------------------------------------------------------
(* What a signal run counts is of its kind; the runs and keys noted are ones there are. *)
SignalNotes ==
    /\ \A r \in Snapshots : facts[r] \subseteq CountsOf(kind[r])
    /\ DOMAIN facts = Snapshots
    /\ recorded \subseteq Snapshots /\ scored \subseteq Snapshots
    /\ dispatched \subseteq Snapshots /\ broken \subseteq Snapshots
    /\ contended \subseteq FindingKeys
    /\ snapshotFailures \in 0..MaxSnapshotFailures

(* Each call notes only what it may. *)
LEMMA NotesKept ==
    ASSUME SignalTypes, SignalNotes, NEW r \in Snapshots, ScoreStep(r) \/ CallFails(r) \/ Dies(r)
    PROVE  SignalNotes'
<1>0. /\ \A q \in Snapshots : facts[q] \subseteq CountsOf(kind[q])
      /\ DOMAIN facts = Snapshots
      /\ recorded \subseteq Snapshots /\ scored \subseteq Snapshots
      /\ dispatched \subseteq Snapshots /\ broken \subseteq Snapshots
      /\ contended \subseteq FindingKeys
      /\ snapshotFailures \in 0..MaxSnapshotFailures
  BY DEF SignalNotes
<1>1. ASSUME UNCHANGED <<kind, facts>>, recorded' \subseteq recorded \cup {r}, scored' \subseteq scored \cup {r},
             dispatched' \subseteq dispatched \cup {r}, UNCHANGED <<broken, contended, snapshotFailures>>
      PROVE  SignalNotes'
  BY <1>0, <1>1 DEF SignalNotes, CountsOf
<1>2. CASE ReadInputs(r)
  <2>1. PICK seen1 \in SUBSET CountsOf(kind[r]) : facts' = [facts EXCEPT ![r] = seen1]
    BY <1>2 DEF ReadInputs
  <2>2. UNCHANGED <<kind, recorded, scored, dispatched, broken, contended, snapshotFailures>>
    BY <1>2 DEF ReadInputs
  <2>3. DOMAIN facts' = Snapshots /\ \A q \in Snapshots : facts'[q] \subseteq CountsOf(kind[q])
    BY <1>0, <2>1
  <2> QED
    BY <1>0, <2>2, <2>3 DEF SignalNotes, CountsOf
<1>3. CASE \/ RecordSignalEvent(r) \/ NoMoreFindings(r) \/ UpsertFindingBundle(r) \/ RefuseFinding(r)
           \/ ReadWalletLabels(r) \/ MarkWalletScored(r) \/ InvalidateSummary(r) \/ DispatchWalletSignal(r)
           \/ RecordJobRun(r)
  BY <1>1, <1>3 DEF RecordSignalEvent, NoMoreFindings, UpsertFindingBundle, RefuseFinding, ReadWalletLabels,
     MarkWalletScored, InvalidateSummary, DispatchWalletSignal, RecordJobRun
<1>4. CASE UpsertFindingCandidate(r)
  <2>1. KeyOf(r) \in FindingKeys
    BY <1>4, KeyTyped DEF UpsertFindingCandidate
  <2>2. contended' \subseteq contended \cup {KeyOf(r)}
        /\ UNCHANGED <<kind, facts, recorded, scored, dispatched, broken, snapshotFailures>>
    BY <1>4 DEF UpsertFindingCandidate
  <2>3. contended' \subseteq FindingKeys
    BY <1>0, <2>1, <2>2
  <2> QED
    BY <1>0, <2>2, <2>3 DEF SignalNotes, CountsOf
<1>5. CASE CallFails(r) \/ Dies(r)
  <2>1. /\ snapshotFailures < MaxSnapshotFailures /\ snapshotFailures' = snapshotFailures + 1
        /\ broken' = broken \cup {r}
        /\ UNCHANGED <<kind, facts, recorded, scored, dispatched, contended>>
    BY <1>5 DEF CallFails, Dies
  <2>2. snapshotFailures' \in 0..MaxSnapshotFailures
    BY <1>0, <2>1, SnapshotAssumption
  <2> QED
    BY <1>0, <2>1, <2>2 DEF SignalNotes, CountsOf
<1> QED
  BY <1>2, <1>3, <1>4, <1>5 DEF ScoreStep

(* Signal runs are what their types say. *)
THEOREM SignalRunTypes == SnapshotsSpec => []SnapshotsTypeOK
<1>1. SnapshotsInit => SignalNotes
  BY SnapshotAssumption DEF SnapshotsInit, SignalNotes
<1>2. SignalInv /\ SignalNotes /\ [SnapshotsNext]_runVars => SignalNotes'
  <2>1. UNCHANGED runVars /\ SignalNotes => SignalNotes'
    BY DEF runVars, SignalNotes, CountsOf
  <2> QED
    BY <2>1, NotesKept DEF SignalInv, SnapshotsNext
<1>3. SignalInv /\ SignalNotes => SnapshotsTypeOK
  BY DEF SignalInv, SignalTypes, SignalNotes, SnapshotsTypeOK
<1> QED
  BY <1>1, <1>2, <1>3, SignalInvHolds, PTL DEF SnapshotsSpec

-----------------------------------------------------------------------------
(* The records keep their types together: of any prompts, lists, tabs, times, transfers, runs,
   graphs and flows, and with any bounds. *)
THEOREM RecordsTypes == RecordsSpec => []RecordsTypeOK
<1>1. ExplainTypeOK /\ WatchTypeOK /\ EntryTypeOK /\ EvidenceTypeOK /\ SnapshotsTypeOK
         /\ ScoresTypeOK /\ GraphsTypeOK /\ FlowsTypeOK /\ CuratedTypeOK /\ RulesTypeOK => RecordsTypeOK
  BY DEF RecordsTypeOK
<1>2. FlowsInit => FewFlows
  BY FS_EmptySet DEF FlowsInit, FewFlows, FlowsTypeOK
<1>3. FlowsInit /\ [][FlowsNext]_flowVars => []FewFlows
  BY <1>2, FlowsKept, PTL
<1>4. FewFlows => FlowsTypeOK
  BY DEF FewFlows
<1> QED
  BY <1>1, <1>3, <1>4, PartsBehave, ScoresBehave, FlowsBehave, CuratedBehaves, ExplanationTypes, WatchlistTypes,
     EntryFeatureTypes, EvidenceTablesTypes, SignalRunTypes, AlertRuleTypes, EvidenceMovesScores, SampleHolds,
     IndexHolds, PTL
=============================================================================
