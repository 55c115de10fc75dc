--------------------------- MODULE ClusterGraphs ----------------------------
(***************************************************************************)
(* The graph of one wallet and the cluster score made of it:               *)
(* transaction_graph_materializer.go writes each transfer to Neo4j as it   *)
(* is ingested, which need not be the order of the transfers;              *)
(* neo4j_wallet_graph.go and wallet_graph_entity_links.go read the graph;  *)
(* cluster_sampling.go keeps the best peers of one too large and           *)
(* cluster_signals.go and cluster.go score the rest.                       *)
(*                                                                         *)
(* The sample is chosen by scanning a Go map, so peers come in any order.  *)
(* A wallet has at most one entity; token flows are taken to agree with    *)
(* the counts of the graph, and the read to stay below its cap.            *)
(***************************************************************************)
EXTENDS SignalScores, Sequences

CONSTANTS
    Peers,         \* counterparties; an id's order is that of the numbers, no id is empty
    ActiveDays,    \* days on which transfers are observed
    Hubs,          \* kinds of hub a label may name
    EntityOf,      \* peer -> its entity, or NoEntity
    WalletEntity,  \* the wallet's own, or NoEntity
    NoEntity,
    PeerLimit,     \* peers analysed at most: 30, 45 or 60 by depth
    MaxInteractions, MaxLabels  \* bounds: transfers and labels

ASSUME GraphAssumption ==
    /\ Peers \subseteq Nat \ {0} /\ ActiveDays \subseteq Nat
    /\ Hubs \subseteq {"aggregator", "exchange", "bridge", "treasury"}
    /\ PeerLimit \in Nat \ {0} /\ MaxInteractions \in Nat /\ MaxLabels \in Nat

VARIABLES
    relation,   \* peer -> the INTERACTED_WITH relationship of the wallet to it
    labelled,   \* peer -> hubs its labels name
    inOrder,    \* every transfer so far came in the order of its day
    unscanned,  \* peers the scan has still to look at
    best,       \* the best peer of the scan so far, 0 for none
    picked,     \* peers of the sample, in the order they were picked
    phase       \* "growing", "sampling" or "sampled"

graphVars == <<relation, labelled, inOrder, unscanned, best, picked, phase>>
-----------------------------------------------------------------------------
Known == DOMAIN relation
CountOf(p) == relation[p].inbound + relation[p].outbound
TotalInteractions == MapThenSumSet(CountOf, Known)

(* The first transfer materialized sets the first day for good, the latest the last,
   whichever of them is earlier. *)
Materialized(old, direction, day) ==
    [inbound |-> old.inbound + Points(1, direction = "inbound"),
     outbound |-> old.outbound + Points(1, direction = "outbound"),
     first |-> old.first, last |-> day]

NewRelation(day) == [inbound |-> 0, outbound |-> 0, first |-> day, last |-> day]

Mixed(p) == relation[p].inbound > 0 /\ relation[p].outbound > 0

(* An inbound transfer also makes the peer a funder of the wallet. *)
Funds(p) == relation[p].inbound > 0

SpanOf(p) ==
    IF relation[p].last >= relation[p].first
    THEN relation[p].last - relation[p].first
    ELSE relation[p].first - relation[p].last
-----------------------------------------------------------------------------
HubPenalty == [aggregator |-> 28, exchange |-> 22, bridge |-> 18, treasury |-> 26]

(* What a peer is worth to the sample; a span that runs backwards counts nothing. *)
ClusterPeerBaseScore(p) ==
    Lesser(CountOf(p), 20) + Points(20, Mixed(p)) + Points(12, Mixed(p))
        + (IF relation[p].last >= relation[p].first THEN Lesser(2 * SpanOf(p), 18) ELSE 0)
        + Points(8, Funds(p))
        - MapThenSumSet(LAMBDA h : HubPenalty[h], labelled[p])

EntitiesOf(ps) == {EntityOf[p] : p \in ps} \ {NoEntity}

(* Ten for an entity no picked peer has. *)
CoverageBonus(p, chosen) == Points(10, EntitiesOf({p}) \ EntitiesOf(chosen) # {})

WorthOf(p, chosen) == ClusterPeerBaseScore(p) + CoverageBonus(p, chosen)

(* The scan takes p over the best so far; a tie goes to the smaller id. *)
TakesOverFirstSeen(p, b, chosen) == b = 0 \/ WorthOf(p, chosen) > WorthOf(b, chosen)

TakesOver(p, b, chosen) ==
    \/ b = 0
    \/ WorthOf(p, chosen) > WorthOf(b, chosen)
    \/ WorthOf(p, chosen) = WorthOf(b, chosen) /\ p < b

Picked == {picked[i] : i \in DOMAIN picked}
-----------------------------------------------------------------------------
(* The signal of the peers in the analysed graph and the entities linked in it. *)
SharedStrength(ps) == clampScore(MapThenSumSet(LAMBDA p : Lesser(2 * CountOf(p), 50), ps))

PersistenceStrength(ps) ==
    clampScore(MapThenSumSet(
        LAMBDA p : Lesser(8 * (SpanOf(p) + 1), 50) + Lesser(CountOf(p), 20) \div 2, ps))

HubsAmong(ps, h) == Cardinality({p \in ps : h \in labelled[p]})

ClusterContradiction(ps) ==
    Lesser(7 * HubsAmong(ps, "aggregator") + 6 * HubsAmong(ps, "exchange")
           + 5 * HubsAmong(ps, "bridge"), 24)

ClusterSuppression(ps) == Lesser(8 * HubsAmong(ps, "treasury"), 16)

ClusterScore(ps, linked) ==
    LET shared == Cardinality(linked)
        mutual == Cardinality({p \in ps : Mixed(p)})
        strength == SharedStrength(ps)
        persistence == PersistenceStrength(ps)
        raw == 8 * Cardinality(ps) + 4 * shared + 6 * mutual
                 + strength \div 3 + persistence \div 4
        critical == BoolCount(<<ps # {}, shared > 0, mutual > 0, strength >= 20,
                                persistence >= 20>>)
        sufficiency == Points(20, ps # {}) + Points(20, shared > 0) + Points(20, mutual > 0)
                         + Points(20, strength > 0) + Points(20, persistence > 0)
    IN  ApplyCalibration(clampScore(raw - ClusterContradiction(ps) - ClusterSuppression(ps)),
                         Calibration(critical, 3, sufficiency, 25))

(* A graph within the limit is analysed whole, with the wallet's own entity link. *)
WholeScore == ClusterScore(Known, EntitiesOf(Known) \cup ({WalletEntity} \ {NoEntity}))
-----------------------------------------------------------------------------
GraphsInit ==
    /\ relation = [p \in {} |-> NewRelation(0)]
    /\ labelled = [p \in Peers |-> {}]
    /\ inOrder = TRUE /\ unscanned = {} /\ best = 0
    /\ picked = <<>> /\ phase = "growing"

(* MaterializeNormalizedTransaction: one transfer, of any day, reaches the graph. *)
Materialize(p, direction, day) ==
    LET old == IF p \in Known THEN relation[p] ELSE NewRelation(day) IN
        /\ phase = "growing" /\ TotalInteractions < MaxInteractions
        /\ relation' = [q \in Known \cup {p} |->
               IF q = p THEN Materialized(old, direction, day) ELSE relation[q]]
        /\ inOrder' = (inOrder /\ day >= old.last)
        /\ UNCHANGED <<labelled, unscanned, best, picked, phase>>

(* A label that names the peer a hub is stored. *)
Label(p, hub) ==
    /\ phase = "growing" /\ p \in Known /\ hub \notin labelled[p]
    /\ MapThenSumSet(LAMBDA q : Cardinality(labelled[q]), Peers) < MaxLabels
    /\ labelled' = [labelled EXCEPT ![p] = @ \cup {hub}]
    /\ UNCHANGED <<relation, inOrder, unscanned, best, picked, phase>>

(* BuildClusterAnalysisGraph of a graph with too many peers. *)
BeginSample ==
    /\ phase = "growing" /\ Cardinality(Known) > PeerLimit
    /\ phase' = "sampling" /\ unscanned' = Known
    /\ UNCHANGED <<relation, labelled, inOrder, best, picked>>

(* The loop of clusterSelectPeerSample visits the peers in the map's order. *)
Scan(p) ==
    /\ phase = "sampling" /\ p \in unscanned
    /\ unscanned' = unscanned \ {p}
    /\ best' = IF TakesOver(p, best, Picked) THEN p ELSE best
    /\ UNCHANGED <<relation, labelled, inOrder, picked, phase>>

Pick ==
    /\ phase = "sampling" /\ unscanned = {}
    /\ picked' = Append(picked, best) /\ best' = 0
    /\ IF Len(picked) + 1 = PeerLimit
       THEN phase' = "sampled" /\ unscanned' = {}
       ELSE phase' = phase /\ unscanned' = Known \ (Picked \cup {best})
    /\ UNCHANGED <<relation, labelled, inOrder>>

GraphsNext ==
    \/ \E p \in Peers, d \in {"inbound", "outbound"}, day \in ActiveDays : Materialize(p, d, day)
    \/ \E p \in Peers, hub \in Hubs : Label(p, hub)
    \/ BeginSample
    \/ \E p \in Peers : Scan(p)
    \/ Pick
-----------------------------------------------------------------------------
GraphsTypeOK ==
    /\ Known \subseteq Peers
    /\ relation \in [Known -> [inbound : Nat, outbound : Nat, first : ActiveDays, last : ActiveDays]]
    /\ labelled \in [Peers -> SUBSET Hubs] /\ inOrder \in BOOLEAN
    /\ unscanned \subseteq Known /\ best \in Known \cup {0}
    /\ picked \in Seq(Known) /\ phase \in {"growing", "sampling", "sampled"}

(* The sample does not depend on the order in which the map yields the peers: each pick
   is the peer of most worth after those before it and of the smallest id among equals. *)
SampleIsDeterministic ==
    \A i \in DOMAIN picked :
        LET before == {picked[j] : j \in 1..(i - 1)}
            rivals == Known \ (before \cup {picked[i]})
        IN  \A q \in rivals :
                \/ WorthOf(picked[i], before) > WorthOf(q, before)
                \/ WorthOf(picked[i], before) = WorthOf(q, before) /\ picked[i] < q

(* In a graph analysed whole and fed in order, a transfer never lowers the score of a
   wallet without hubs around it, and a hub label never raises it. *)
ActivityRaisesScore ==
    phase = "growing" /\ phase' = "growing" =>
        /\ (relation' # relation /\ inOrder' /\ \A p \in Peers : labelled[p] = {})
               => WholeScore' >= WholeScore
        /\ labelled' # labelled => WholeScore' <= WholeScore
=============================================================================
