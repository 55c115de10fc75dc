---------------------------- MODULE SignalScores ----------------------------
(***************************************************************************)
(* The scoring rules of packages/intelligence: score.go, shadow_exit.go    *)
(* and first_connection.go, as integer arithmetic on what a report counts. *)
(* Evidence arrives one observation at a time, in any order; the score is  *)
(* recomputed from the counts.  The cluster score, which is built from a   *)
(* wallet graph, is in ClusterGraphs.                                      *)
(*                                                                         *)
(* Ratios keep the code's rounding, for counts so small that its floating  *)
(* point is exact.  The texts and confidences of the evidence are left out.*)
(***************************************************************************)
EXTENDS Integers, FiniteSets, FiniteSetsExt

CONSTANT MaxObserved  \* bound: observations of one report

ASSUME ObservedAssumption == MaxObserved \in Nat

VARIABLES
    engine,   \* which score is built
    seen      \* what the report counts: observation -> how often

scoreVars == <<engine, seen>>
-----------------------------------------------------------------------------
Lesser(x, y) == IF x < y THEN x ELSE y
clampScore(x) == IF x < 0 THEN 0 ELSE Lesser(x, 100)
RateScore(x) == IF x >= 70 THEN "high" ELSE IF x >= 35 THEN "medium" ELSE "low"

(* How many of the claims hold; points for each that does. *)
BoolCount(claims) == Cardinality({k \in DOMAIN claims : claims[k]})
Points(p, claim) == IF claim THEN p ELSE 0

Calibration(critical, required, sufficiency, minimum) ==
    [critical |-> critical, required |-> required, sufficiency |-> sufficiency, minimum |-> minimum]

(* High takes enough kinds of evidence, medium enough of it; a score that the first
   gate stopped is not looked at by the second. *)
ApplyCalibrationLow(raw, c) ==
    LET value == clampScore(raw)
        blocked == RateScore(value) = "high" /\ c.critical < c.required
    IN  IF blocked THEN 34
        ELSE IF RateScore(value) # "low" /\ c.sufficiency < c.minimum THEN 34
        ELSE value

ApplyCalibration(raw, c) ==
    LET value == clampScore(raw)
        blocked == RateScore(value) = "high" /\ c.critical < c.required
    IN  IF blocked THEN 69
        ELSE IF RateScore(value) # "low" /\ c.sufficiency < c.minimum THEN 34
        ELSE value
-----------------------------------------------------------------------------
ShadowExitFields ==
    {"bridge", "exchange", "fanout", "fanout24h", "escape", "outbound24h", "inbound24h",
     "aggregator", "rebalanceRoute", "bridgeReturn", "treasury", "internal"}

Transfers24h(s) == s["outbound24h"] + s["inbound24h"]

(* The share of outbound transfers is at least n in ten. *)
OutflowAtLeast(s, n) == Transfers24h(s) > 0 /\ 10 * s["outbound24h"] >= n * Transfers24h(s)

(* Thirty times the share, a half rounded up. *)
OutflowPoints(s) ==
    IF Transfers24h(s) = 0 THEN 0
    ELSE (60 * s["outbound24h"] + Transfers24h(s)) \div (2 * Transfers24h(s))

ShadowExitGross(s) ==
    24 * s["bridge"] + 12 * s["exchange"] + 10 * s["fanout"] + 8 * clampScore(s["fanout24h"])
        + 16 * s["escape"] + clampScore(OutflowPoints(s))

ShadowExitDiscounts(s) ==
    Points(18, s["treasury"] > 0) + Points(14, s["internal"] > 0)
        + Lesser(8 * s["rebalanceRoute"], 16)
        + Lesser(6 * s["aggregator"] + 8 * s["bridgeReturn"], 20)

ShadowExitCritical(s) ==
    BoolCount(<<s["bridge"] > 0, s["exchange"] > 0, s["fanout"] > 0, s["escape"] > 0,
                OutflowAtLeast(s, 6)>>)

ShadowExitSufficiency(s) ==
    Points(15, s["bridge"] > 0) + Points(15, s["exchange"] > 0) + Points(15, s["fanout"] > 0)
        + Points(15, s["fanout24h"] > 0) + Points(15, s["escape"] > 0)
        + Points(15, OutflowAtLeast(s, 5)) + Points(10, s["bridge"] > 0 /\ s["exchange"] > 0)

ShadowExitScore(s) ==
    ApplyCalibration(clampScore(ShadowExitGross(s) - ShadowExitDiscounts(s)),
                     Calibration(ShadowExitCritical(s), 3, ShadowExitSufficiency(s), 20))
-----------------------------------------------------------------------------
FirstConnectionFields ==
    {"newEntry", "firstSeen", "hotMention", "aggregator", "deployerOrCollector"}

FirstConnectionPenalty(s) ==
    Lesser(8 * s["aggregator"] + 10 * s["deployerOrCollector"], 24)

FirstConnectionCritical(s) ==
    BoolCount(<<s["newEntry"] > 0, s["firstSeen"] > 0, s["hotMention"] > 0>>)

FirstConnectionSufficiency(s) ==
    Points(35, s["newEntry"] > 0) + Points(35, s["firstSeen"] > 0)
        + Points(20, s["hotMention"] > 0)
        + Points(5, s["newEntry"] >= 2) + Points(5, s["firstSeen"] >= 3)

FirstConnectionScore(s) ==
    ApplyCalibration(
        clampScore(18 * s["newEntry"] + 10 * s["firstSeen"] + 6 * s["hotMention"]
                   - FirstConnectionPenalty(s)),
        Calibration(FirstConnectionCritical(s), 2, FirstConnectionSufficiency(s), 25))
-----------------------------------------------------------------------------
Engines == {"shadowExit", "firstConnection"}

Fields(e) == IF e = "shadowExit" THEN ShadowExitFields ELSE FirstConnectionFields

(* What speaks against the claim of the score. *)
Contradicting ==
    {"inbound24h", "aggregator", "rebalanceRoute", "bridgeReturn", "treasury", "internal",
     "deployerOrCollector"}

ScoreOf(e, s) == IF e = "shadowExit" THEN ShadowExitScore(s) ELSE FirstConnectionScore(s)

ScoresInit ==
    /\ engine \in Engines
    /\ seen = [f \in Fields(engine) |-> 0]

(* One more of something is counted. *)
Observe(f) ==
    /\ MapThenSumSet(LAMBDA g : seen[g], DOMAIN seen) < MaxObserved
    /\ seen' = [seen EXCEPT ![f] = @ + 1]
    /\ UNCHANGED engine

ScoresNext == \E f \in DOMAIN seen : Observe(f)
-----------------------------------------------------------------------------
ScoresTypeOK == engine \in Engines /\ seen \in [Fields(engine) -> 0..MaxObserved]

(* One more observation for the claim never lowers the score and one against it never
   raises it, whatever gate it passes or comes to stand before. *)
EvidenceCountsOneWay ==
    \A f \in DOMAIN seen :
        seen'[f] > seen[f] =>
            IF f \in Contradicting
            THEN ScoreOf(engine, seen') <= ScoreOf(engine, seen)
            ELSE ScoreOf(engine, seen') >= ScoreOf(engine, seen)
=============================================================================
