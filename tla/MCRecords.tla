----------------------------- MODULE MCRecords -----------------------------
(***************************************************************************)
(* The records that requests and workers keep in Postgres, for TLC:        *)
(* Explanations, Watchlists, AlertRules, EntryFeatures, TransferEvidence,  *)
(* SignalRuns, CuratedLists, and the scores made of them: SignalScores,    *)
(* ClusterGraphs, FlowEvidence.                                            *)
(* They share no state: a behaviour is of one part, chosen at first, and   *)
(* the others stand still.                                                 *)
(*                                                                         *)
(* The entry features begin with a snapshot that found every counterparty; *)
(* one transfer of the evidence goes to a bridge, one to an intermediary;  *)
(* the first two peers of the graph share an entity.                       *)
(***************************************************************************)
EXTENDS Explanations, Watchlists, EntryFeatures, TransferEvidence, SignalRuns, ClusterGraphs,
        FlowEvidence, CuratedLists, AlertRules, TLC

CONSTANTS t1, t2, v1

VARIABLE part

Parts == {"explanations", "watchlists", "entries", "evidence", "signals", "scores", "graph", "flows",
          "curated", "rules"}

SentAtShared == t1 :> 1 @@ t2 :> 2
TableOfShared == t1 :> "bridge links" @@ t2 :> "exchange paths"

EntityShared == [p \in Peers |-> IF p <= 2 THEN "e1" ELSE NoEntity]

ClassesShared ==
    "binance" :> {"exchange"} @@ "stargate" :> {"bridge", "exchange"} @@ "bridge" :> {"bridge"}
        @@ "wormhole" :> {"bridge"} @@ "treasury" :> {"treasury"} @@ "router" :> {"router"}
        @@ "market maker" :> {"marketMaker", "desk"} @@ "anyone" :> {}
RootsShared ==
    {[label |-> "none", name |-> "none"], [label |-> "treasury", name |-> "internal"]}

CuratedItemsShared == {EntityItem(2, "bridge"), WalletItem("w2")}
SeedsShared == <<[category |-> "seeds", wallet |-> "w2"]>>
ListOfCategory(id, category, items) == [id |-> id, category |-> category, items |-> items]
FirstListsShared ==
    LET exchange == ListOfCategory(1, NoCategory, <<EntityItem(1, "exchange"), WalletItem("w1")>>)
    IN  {<<ListOfCategory(2, "seeds", <<WalletItem("w1"), EntityItem(2, "bridge")>>), exchange>>,
         <<ListOfCategory(2, "seeds", <<EntityItem(1, "bridge")>>), exchange>>}

(* Bound: on one day four transfers sent, or three to and from bridges; otherwise two. *)
FewOrAlike(fs) ==
    \/ Cardinality(fs) <= 2
    \/ \A f \in fs : f.day = 1 /\ f.direction = "outbound" /\ f.to # "wormhole"
    \/ Cardinality(fs) <= 3 /\ \A f \in fs : f.day = 1 /\ IsA(f, "bridge")

(* Bound: graphs are read where no statement fails and one request rebuilds the index, *)
(* as only then are they looked at.                                                    *)
ReadAlone == reads' = 0 \/ (failed' = 0 /\ changes' + imports' <= 1)

recordVars == <<part, explainVars, watchVars, entryVars, evidenceVars, runVars, scoreVars,
                graphVars, flowVars, curatedVars, ruleVars>>

RecordsInit ==
    /\ part \in Parts
    /\ ExplainInit /\ WatchInit /\ EntryInit /\ EvidenceInit /\ SnapshotsInit
    /\ ScoresInit /\ GraphsInit /\ FlowsInit /\ CuratedInit /\ RulesInit
    /\ part # "watchlists" => driver = "postgres"
    /\ part # "signals" => \A r \in Snapshots : kind[r] = "cluster score" /\ observedAt[r] = "m1"
    /\ observedAt[v1] = "m1"    \* the names of runs and of moments may be exchanged
    /\ part # "scores" => engine = "shadowExit"
    /\ part # "flows" => root = [label |-> "none", name |-> "none"]
    /\ part # "rules" => storesItems
    /\ part # "curated" => Len(catalog[1].items) = 1
    /\ now = 1 /\ transfers = Counterparties \X {1}

(* Every part but p stands still. *)
Stand(p) ==
    /\ UNCHANGED part
    /\ IF p = "explanations" THEN TRUE ELSE UNCHANGED explainVars
    /\ IF p = "watchlists" THEN TRUE ELSE UNCHANGED watchVars
    /\ IF p = "entries" THEN TRUE ELSE UNCHANGED entryVars
    /\ IF p = "evidence" THEN TRUE ELSE UNCHANGED evidenceVars
    /\ IF p = "signals" THEN TRUE ELSE UNCHANGED runVars
    /\ IF p = "scores" THEN TRUE ELSE UNCHANGED scoreVars
    /\ IF p = "graph" THEN TRUE ELSE UNCHANGED graphVars
    /\ IF p = "flows" THEN TRUE ELSE UNCHANGED flowVars
    /\ IF p = "curated" THEN TRUE ELSE UNCHANGED curatedVars
    /\ IF p = "rules" THEN TRUE ELSE UNCHANGED ruleVars

RecordsNext ==
    \/ part = "explanations" /\ ExplainNext /\ Stand(part)
    \/ part = "watchlists" /\ WatchNext /\ Stand(part)
    \/ part = "entries" /\ EntryNext /\ Stand(part)
    \/ part = "evidence" /\ EvidenceNext /\ Stand(part)
    \/ part = "signals" /\ SnapshotsNext /\ Stand(part)
    \/ part = "scores" /\ ScoresNext /\ Stand(part)
    \/ part = "graph" /\ GraphsNext /\ Stand(part)
    \/ part = "flows" /\ FlowsNext /\ FewOrAlike(flows') /\ Stand(part)
    \/ part = "curated" /\ CuratedNext /\ ReadAlone /\ Stand(part)
    \/ part = "rules" /\ RulesNext /\ Stand(part)

RecordsSpec == RecordsInit /\ [][RecordsNext]_recordVars

(* The variables of the parts keep their types. *)
RecordsTypeOK ==
    ExplainTypeOK /\ WatchTypeOK /\ EntryTypeOK /\ EvidenceTypeOK /\ SnapshotsTypeOK
        /\ ScoresTypeOK /\ GraphsTypeOK /\ FlowsTypeOK /\ CuratedTypeOK /\ RulesTypeOK

(* Daily generations stay within the limit plus those that overlap, lists and items
   within the plan, alert rules within theirs, and a tracked list and its rule made
   once: what is counted or looked for first and written later is exceeded only by
   requests that overlap. *)
WithinLimits == WithinDailyLimit /\ WithinPlanLimits /\ TrackedOnce

(* What a page is told is so: an explanation is empty only when a request failed, a wallet
   said to be tracked has its rule, a rule is as was last said of it. *)
AnswersHold == EmptyPerFailure /\ SaidIsSo

(* What a table that is written anew holds is what its last whole and undisturbed writing
   made of the present facts: the evidence of a day, the index of the curated lists. *)
TablesFollow == EvidenceOfLatestRun /\ IndexFollowsLists

(* A score moves with its evidence: an observation for the claim, or a transfer fed in
   order, never lowers it, one against the claim, or a hub label, never raises it. *)
ScoresFollowEvidence == [][EvidenceCountsOneWay /\ ActivityRaisesScore]_recordVars

(* What is sent to who is nothing but a bridge or an exchange speaks for the shadow exit score
   whatever else is counted of it: without one of these transfers the score would not be higher,
   although the transfer may make a route that speaks against it.  Only the points of that one
   route (intelligence/shadow_exit.go:53) may be lost, by a transfer to a bridge that leaves the
   count of bridges as it was, because the wallet met as many bridges by what it got from them.
   What is sent to an exchange never takes the finding of a treasury redistribution back, nor
   does what is sent to a market maker, unless the wallet sends to no one else. *)
Without(f) == INSTANCE FlowEvidence WITH flows <- flows \ {f}

BridgesCounted(f) == IsA(f, "bridge") => DetectorInputs["bridge"] > Without(f)!DetectorInputs["bridge"]

MarketFlowsCount ==
    \A f \in Sent :
        /\ ClassesOf[f.to] \in (SUBSET {"bridge", "exchange"}) \ {{}}
               => /\ BridgesCounted(f) => RiskScore >= Without(f)!RiskScore
                  /\ RiskScore + 8 >= Without(f)!RiskScore
        /\ (IsA(f, "exchange") \/ (IsA(f, "marketMaker") /\ Distinct(Sent) > 1))
                /\ Without(f)!ShouldEmitTreasuryRedistribution
               => ShouldEmitTreasuryRedistribution

(* The evidence counts: the sample of a large graph is the same however its rows arrive,
   and what is sent to the market speaks for its finding. *)
EvidenceCounts == SampleIsDeterministic /\ MarketFlowsCount
=============================================================================
