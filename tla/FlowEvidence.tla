---------------------------- MODULE FlowEvidence ----------------------------
(***************************************************************************)
(* What the transfers of one wallet within the window say of it:           *)
(* treasury_mm_evidence.go and bridge_exchange_evidence.go classify each   *)
(* transfer by the texts of its counterparty and by what the counterparty  *)
(* sent on within hours, routes.go and the workers' shadow_exit.go make    *)
(* the inputs of the shadow exit score of the counts, and findings.go      *)
(* decides whether a treasury redistribution or a handoff is reported.     *)
(* How the evidence is stored is in TransferEvidence.                      *)
(*                                                                         *)
(* A text may match several classes; every amount is the same, and a       *)
(* counterparty sends on one transfer at most after each it receives.      *)
(***************************************************************************)
EXTENDS SignalScores

CONSTANTS
    Receivers,   \* counterparties
    ClassesOf,   \* counterparty -> the classes its texts match
    FlowDays,    \* days within the window
    Onwards,     \* what is sent on: "nothing" or the kind of its receiver
    Roots,       \* the wallet's own texts: class of its label and of its name
    MaxFlows     \* bound: transfers

ASSUME FlowAssumption ==
    /\ \A r \in Receivers : ClassesOf[r] \subseteq
           {"exchange", "bridge", "marketMaker", "desk", "router", "treasury", "internal"}
    /\ "nothing" \in Onwards /\ MaxFlows \in Nat
    /\ Roots \subseteq [label : {"none", "treasury", "fund"}, name : {"none", "treasury", "internal"}]

VARIABLES
    root,    \* the wallet's own texts
    flows    \* transfers within the window

flowVars == <<root, flows>>

(* Transfers that are alike are told apart by their number. *)
Flows ==
    [to : Receivers, direction : {"outbound"}, day : FlowDays, onward : Onwards,
     copy : 1..MaxFlows]
        \cup [to : Receivers, direction : {"inbound"}, day : FlowDays, onward : {"nothing"},
              copy : 1..MaxFlows]
-----------------------------------------------------------------------------
IsA(f, class) == class \in ClassesOf[f.to]
Sent == {f \in flows : f.direction = "outbound"}
SentTo(class) == {f \in Sent : IsA(f, class)}
Distinct(S) == Cardinality({f.to : f \in S})

(* Counterparties of a class count whoever of the two sent. *)
WithClass(class) == {f \in flows : IsA(f, class)}
MetOf(class) == Distinct(WithClass(class))

(* The larger of two counts of the same thing. *)
Strongest(counted, evidenced) == IF counted > evidenced THEN counted ELSE evidenced
-----------------------------------------------------------------------------
(* ReadWalletTreasuryMMEvidence.  An exchange is looked for first, a bridge last. *)
MarketPathOf(f) ==
    IF IsA(f, "exchange") THEN "exchange"
    ELSE IF IsA(f, "marketMaker") THEN "marketMaker"
    ELSE IF IsA(f, "bridge") THEN "bridge" ELSE "none"

MarketPaths(kinds) == {f \in Sent : MarketPathOf(f) \in kinds}
TreasuryToMarket == MarketPaths({"exchange", "marketMaker", "bridge"})

OperationalOnly == {f \in MarketPaths({"none"}) : ~IsA(f, "treasury")}
InternalOps == {f \in OperationalOnly : IsA(f, "internal")}
ExternalOps == OperationalOnly \ InternalOps

(* A router is next to the market, and so is who sends on to the market. *)
MarketAdjacent ==
    {f \in ExternalOps : IsA(f, "router") \/ f.onward \in {"exchange", "bridge", "marketMaker"}}
ExternalNonMarket == ExternalOps \ MarketAdjacent

RebalanceDiscount == SentTo("treasury") \cup SentTo("internal")

SentOn(day) == Cardinality({f \in Sent : f.day = day})
FanoutDays == {d \in FlowDays : SentOn(d) >= 3}
FanoutSignatureCount == Max({SentOn(d) : d \in FanoutDays} \cup {0})

AnchorMatchCount ==
    Strongest(Points(1, root.label = "treasury"), Distinct(SentTo("treasury")))

(* The subtype of a market maker's texts; what became of the tokens it got.  A transfer
   the path of which is found out is never called a project's path any more. *)
MMSubtype(f) == IF IsA(f, "desk") THEN "desk" ELSE IF IsA(f, "router") THEN "router" ELSE "none"

MMPathOf(f) ==
    IF f.onward = "exchange" THEN "postHandoffExchange"
    ELSE IF f.onward = "bridge" THEN "postHandoffBridge"
    ELSE IF f.onward # "nothing" /\ MMSubtype(f) # "none" THEN "routedCandidate"
    ELSE "adjacency"

MMPaths(kinds) == {f \in SentTo("marketMaker") : MMPathOf(f) \in kinds}

MarketMakers == {r \in Receivers : "marketMaker" \in ClassesOf[r]}
DaysWith(r, direction) ==
    {f.day : f \in {g \in flows : g.to = r /\ g.direction = direction}}
InventoryRotation ==
    {r \in MarketMakers : DaysWith(r, "inbound") # {} /\ DaysWith(r, "outbound") # {}}
RepeatMMCounterparties == {r \in MarketMakers : Cardinality(DaysWith(r, "outbound")) >= 2}
-----------------------------------------------------------------------------
(* ReadWalletBridgeExchangeEvidence.  A bridge is looked for first. *)
BridgeLinks == SentTo("bridge")
Confirmed == {f \in BridgeLinks : f.onward # "nothing"}
PostBridgeTouch == {f \in BridgeLinks : f.onward \in {"exchange", "protocol"}}

ExchangePaths ==
    {f \in Sent \ BridgeLinks : IsA(f, "exchange") \/ f.onward = "exchange"}

(* The routes of both reports, added up: a transfer by a router to an exchange counts in
   each, one to an internal wallet twice. *)
AggregatorRoutes ==
    Cardinality({f \in ExchangePaths : IsA(f, "router")}) + Cardinality(MarketAdjacent)
        + Cardinality({f \in MMPaths({"routedCandidate", "adjacency"}) : MMSubtype(f) = "router"})

RebalanceRoutes == Cardinality(RebalanceDiscount) + Cardinality(InternalOps)

BridgeReturns == IF PostBridgeTouch = {} THEN Cardinality(Confirmed) ELSE 0
-----------------------------------------------------------------------------
(* RunSnapshotForWallet: the inputs of the score. *)
DetectorInputs ==
    [field \in ShadowExitFields |->
        CASE field = "bridge" -> Strongest(MetOf("bridge"), Cardinality(BridgeLinks))
          [] field = "escape" -> Strongest(MetOf("bridge"), Cardinality(Confirmed))
          [] field = "exchange" -> Strongest(MetOf("exchange"), Cardinality(ExchangePaths))
          [] field \in {"fanout", "fanout24h"} -> Distinct(Sent)
          [] field = "outbound24h" -> Cardinality(Sent)
          [] field = "inbound24h" -> Cardinality(flows \ Sent)
          [] field = "aggregator" -> AggregatorRoutes
          [] field = "rebalanceRoute" -> RebalanceRoutes
          [] field = "bridgeReturn" -> BridgeReturns
          [] field = "treasury" -> Points(1, root.name = "treasury")
          [] field = "internal" -> Points(1, root.name = "internal" \/ MetOf("internal") > 0)]

RiskScore == ShadowExitScore(DetectorInputs)

(* The wallet's outflow, or the part of it to bridges or exchanges, in percent. *)
OutflowPercentAtLeast(n) ==
    \/ Cardinality(flows) > 0 /\ 100 * Cardinality(Sent) >= n * Cardinality(flows)
    \/ \E S \in {BridgeLinks, ExchangePaths} :
           Cardinality(Sent) > 0 /\ 100 * Cardinality(S) >= n * Cardinality(Sent)

StrongPaths == MarketPaths({"exchange", "marketMaker"})

ShouldEmitTreasuryRedistribution ==
    /\ ~(RebalanceDiscount # {} /\ FanoutSignatureCount = 0
           /\ Cardinality(RebalanceDiscount) >= Cardinality(TreasuryToMarket))
    /\ OperationalOnly # {} => TreasuryToMarket # {}
    /\ ExternalOps # {} => StrongPaths # {}
    /\ root.label = "treasury" \/ AnchorMatchCount > 0
    /\ FanoutSignatureCount >= 2 \/ FanoutDays # {}
    /\ StrongPaths # {} \/ (MarketPaths({"bridge"}) # {} /\ FanoutSignatureCount >= 3)
    /\ TreasuryToMarket # {}
    /\ OutflowPercentAtLeast(35) \/ Distinct(Sent) >= 2

ShouldEmitMMHandoff ==
    LET distributed == InventoryRotation # {} \/ Cardinality(RepeatMMCounterparties) > 1 IN
    /\ root.label \in {"fund", "treasury"}
    /\ MMPaths({"projectPath"}) # {}
    /\ \/ MMPaths({"postHandoffExchange"}) # {}
       \/ MMPaths({"postHandoffBridge"}) # {} /\ distributed
    /\ distributed \/ SentTo("marketMaker") # {}
    /\ OutflowPercentAtLeast(25) \/ Distinct(Sent) >= 2 \/ DetectorInputs["exchange"] > 0
-----------------------------------------------------------------------------
FlowsInit == root \in Roots /\ flows = {}

(* One more transfer falls within the window. *)
Transfer(f) ==
    /\ Cardinality(flows) < MaxFlows
    /\ f \notin flows /\ (f.copy = 1 \/ [f EXCEPT !.copy = @ - 1] \in flows)
    /\ flows' = flows \cup {f}
    /\ UNCHANGED root

FlowsNext == \E f \in Flows : Transfer(f)

FlowsSpec == FlowsInit /\ [][FlowsNext]_flowVars
-----------------------------------------------------------------------------
FlowsTypeOK == root \in Roots /\ flows \subseteq Flows
=============================================================================
