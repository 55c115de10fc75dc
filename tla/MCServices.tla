----------------------------- MODULE MCServices -----------------------------
(***************************************************************************)
(* The services beside jobs and workers for TLC: Billing, AlertDelivery    *)
(* and WalletCaches.  They share no state: a behaviour is of one part,     *)
(* chosen at first, and the others stand still.                            *)
(*                                                                         *)
(* The billing is seen from where one owner has subscribed: Stripe changes *)
(* something or repeats itself twice more, so that the owner may cancel    *)
(* and subscribe again.                                                    *)
(*                                                                         *)
(* The alerts are seen in four scenarios: four signals for a rule that has *)
(* no channel; two signals with one channel while it is switched off or    *)
(* the rule deleted; one signal for two channels; and one for two rules,   *)
(* one of them without a cooldown, for worse signals and snoozed.          *)
(***************************************************************************)
EXTENDS Billing, AlertDelivery, WalletCaches, TLC

CONSTANTS r1, r2, c1, c2

VARIABLE part

ChannelsShared == r1 :> {c1, c2} @@ r2 :> {c2}
DefinitionShared ==
    r1 :> [cooldown |-> 3, renotify |-> TRUE, minimum |-> 1, snoozeUntil |-> 0]
        @@ r2 :> [cooldown |-> 0, renotify |-> FALSE, minimum |-> 2, snoozeUntil |-> 2]

(* The signals and switches still to come are those between a scenario's and the bounds. *)
Scenarios ==
    {[live |-> {r1}, enabled |-> {}, signals |-> 0, toggles |-> 1],
     [live |-> {r1}, enabled |-> {c1}, signals |-> 2, toggles |-> 1],
     [live |-> {r1}, enabled |-> {c1, c2}, signals |-> 3, toggles |-> 0],
     [live |-> {r1, r2}, enabled |-> {c2}, signals |-> 3, toggles |-> 0]}
Scenario == [live |-> live, enabled |-> enabled, signals |-> signals, toggles |-> toggles]

serviceVars == <<part, billingVars, alertVars, cacheVars>>

(* Stripe changes something or repeats itself, twice at most. *)
BillingPart(A) ==
    /\ part = "billing" /\ A /\ UNCHANGED <<part, alertVars, cacheVars>>
    /\ Len(sent') + repeats' <= MaxChanges
AlertPart(A) == part = "alerts" /\ A /\ UNCHANGED <<part, billingVars, cacheVars>>
CachePart(A) == part = "caches" /\ A /\ UNCHANGED <<part, billingVars, alertVars>>

ASSUME SubscribedAssumption == Owners # {} /\ PaidTiers # {} /\ MaxChanges \in Nat \ {0}

(* One owner has subscribed and the webhook has told so. *)
First == [status |-> "active", tier |-> CHOOSE t \in PaidTiers : TRUE]
Subscribed ==
    LET o == CHOOSE o \in Owners : TRUE
    IN  /\ stripe = [p \in Owners |-> IF p = o THEN <<First>> ELSE <<>>]
        /\ sent = <<[owner |-> o, sub |-> 1, is |-> First, named |-> TRUE]>>
        /\ delivered = {1}
        /\ account = [p \in Owners |->
                         IF p = o THEN [status |-> "active", tier |-> First.tier, names |-> 1]
                         ELSE NoAccount]
        /\ subscriptionRow = [p \in Owners |-> [n \in Names |->
                                 IF p = o /\ n = 1 THEN First ELSE NoSubscription]]
        /\ activated = [p \in Owners |-> IF p = o THEN 1 ELSE 0]
        /\ stalest \in {s \in SetToSeqs(Owners) : Last(s) = o}
        /\ hookAt = [h \in Hooks |-> "idle"]
        /\ event = [h \in Hooks |-> 0]
        /\ existing = [h \in Hooks |-> NoAccount]
        /\ syncAt = "idle" /\ batch = <<>> /\ fetched = NoSubscription
        /\ repeats = 0 /\ billingFailures = 0

ServicesInit ==
    /\ part \in {"billing", "alerts", "caches"}
    /\ IF part = "billing" THEN Subscribed ELSE BillingInit /\ stalest = SetToSeq(Owners)
    /\ AlertInit /\ CachesInit
    /\ IF part = "alerts"
       THEN Scenario \in Scenarios
       ELSE live = {} /\ enabled = {} /\ signals = 0 /\ toggles = 0

ServicesNext ==
    BillingPart(BillingNext) \/ AlertPart(AlertNext) \/ CachePart(CachesNext)

ServicesSpec ==
    /\ ServicesInit /\ [][ServicesNext]_serviceVars
    /\ \A h \in Hooks : WF_serviceVars(BillingPart(WebhookStep(h)))
    /\ WF_serviceVars(BillingPart(SyncStep))
    /\ \A d \in Dispatchers : WF_serviceVars(AlertPart(DispatchStep(d)))
    /\ WF_serviceVars(AlertPart(RetryStep))
    /\ WF_serviceVars(AlertPart(\E k \in DOMAIN attempts : BackoffEnds(k)))
    /\ \A r \in Readers : WF_serviceVars(CachePart(ReaderStep(r)))
    /\ \A p \in Refreshers : WF_serviceVars(CachePart(RefreshStep(p)))
    /\ \A k \in Keys : WF_serviceVars(CachePart(Expire(k)))

(* The variables of the parts keep their types. *)
ServicesTypeOK == BillingTypeOK /\ AlertTypeOK /\ CachesTypeOK

(* Failures settle and what may be stale catches up: a failed delivery is retried until
   it is sent or given up, and a cached answer other than a graph stops being old. *)
ServicesSettle == FailuresSettle /\ OthersCatchUp
=============================================================================
