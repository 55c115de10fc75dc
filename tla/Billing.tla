------------------------------ MODULE Billing ------------------------------
(***************************************************************************)
(* The plan of an account: Stripe's webhooks write it (service/billing.go, *)
(* ReconcileStripeWebhook) and billing-subscription-sync rewrites it from  *)
(* what Stripe says of its subscription (billing_sync.go, RunBatch).       *)
(*                                                                         *)
(* Stripe may deliver an event in any order and again.  A handler writes   *)
(* what its own event says, whatever the account has become since: also    *)
(* that it is of a subscription the owner has had before the present one.  *)
(***************************************************************************)
EXTENDS Naturals, Sequences, FiniteSets, SequencesExt

CONSTANTS
    Owners,                 \* accounts
    PaidTiers,              \* the plans that are sold
    Hooks,                  \* concurrent requests of the webhook endpoint
    SyncLimit,              \* QORVI_BILLING_SYNC_LIMIT
    MaxChanges,             \* bound: changes at Stripe, each an event
    MaxRepeats,             \* bound: events delivered again
    MaxBillingFailures      \* bound: requests and sync runs that fail

ASSUME SyncLimitAssumption == SyncLimit \in Nat \ {0}
ASSUME FreeIsNotSold == "free" \notin PaidTiers
ASSUME BillingAssumption == IsFiniteSet(Owners) /\ {MaxChanges, MaxRepeats, MaxBillingFailures} \subseteq Nat

VARIABLES
    stripe,                 \* Stripe: each owner's subscriptions, in the order they began
    sent,                   \* Stripe: the events it has emitted, in order
    delivered,              \* the events (by number) that were delivered
    account,                \* billing_accounts
    subscriptionRow,        \* billing_subscriptions: the state last written of each
    stalest,                \* owners by updated_at, the oldest first
    hookAt, event, existing,        \* each request: its next call, its event, the account it read
    syncAt, batch, fetched,         \* the sync run: its next call, accounts left with the
                                    \* subscription each was read to name, Stripe's answer
    repeats, billingFailures,       \* bounded counters
    activated                       \* history: how often a webhook gave each owner a paid plan

billingVars == <<stripe, sent, delivered, account, subscriptionRow, stalest, hookAt, event,
                 existing, syncAt, batch, fetched, repeats, billingFailures, activated>>

Statuses == {"active", "past_due", "canceled"}
Tiers == PaidTiers \cup {"free"}
Subscriptions == [status : Statuses, tier : PaidTiers]
NoSubscription == [status |-> "none", tier |-> "free"]

(* A subscription is named by its place among its owner's; 0 is no name. *)
Names == 1..MaxChanges
NoName == 0

(* The row of an account with its active_subscription_id; no row has the status "none". *)
Accounts == [status : Statuses \cup {"none"}, tier : Tiers, names : Names \cup {NoName}]
NoAccount == [status |-> "none", tier |-> "free", names |-> NoName]

(* The plan requests are served under; "free" stands for the caller's fallback. *)
ResolvePlanTier(a) == IF a.status = "active" THEN a.tier ELSE "free"

(* A canceled subscription is worth the free plan, for a webhook and for the sync. *)
TierOf(s) == IF s.status = "canceled" THEN "free" ELSE s.tier

BillingInit ==
    /\ stripe = [o \in Owners |-> <<>>]
    /\ sent = <<>> /\ delivered = {}
    /\ account = [o \in Owners |-> NoAccount]
    /\ subscriptionRow = [o \in Owners |-> [n \in Names |-> NoSubscription]]
    /\ stalest \in SetToSeqs(Owners)
    /\ hookAt = [h \in Hooks |-> "idle"]
    /\ event = [h \in Hooks |-> 0]
    /\ existing = [h \in Hooks |-> NoAccount]
    /\ syncAt = "idle" /\ batch = <<>> /\ fetched = NoSubscription
    /\ repeats = 0 /\ billingFailures = 0
    /\ activated = [o \in Owners |-> 0]
-----------------------------------------------------------------------------
(* A subscription's event names it and its price, or only the customer. *)
Emits(o, n, s) ==
    /\ Len(sent) < MaxChanges
    /\ \E named \in BOOLEAN : sent' = Append(sent, [owner |-> o, sub |-> n, is |-> s, named |-> named])
    /\ UNCHANGED <<delivered, account, subscriptionRow, stalest, hookAt, event, existing,
                   syncAt, batch, fetched, repeats, billingFailures, activated>>

(* Stripe: an owner subscribes, also once more.  *)
Subscribe(o) ==
    \E tier \in PaidTiers :
       LET s == [status |-> "active", tier |-> tier]
       IN  /\ stripe' = [stripe EXCEPT ![o] = Append(@, s)]
           /\ Emits(o, Len(stripe[o]) + 1, s)

(* Stripe: a subscription changes or ends; one that has ended stays so. *)
Change(o) ==
    \E n \in DOMAIN stripe[o], s \in Subscriptions :
       /\ stripe[o][n].status # "canceled" /\ stripe[o][n] # s
       /\ stripe' = [stripe EXCEPT ![o][n] = s]
       /\ Emits(o, n, s)

(* Stripe posts an event to the webhook, in any order, perhaps once more. *)
Deliver(h, n) ==
    /\ hookAt[h] = "idle" /\ n \in DOMAIN sent
    /\ IF n \in delivered
       THEN repeats < MaxRepeats /\ repeats' = repeats + 1
       ELSE UNCHANGED repeats
    /\ delivered' = delivered \cup {n}
    /\ event' = [event EXCEPT ![h] = n]
    /\ hookAt' = [hookAt EXCEPT ![h] = "record"]
    /\ UNCHANGED <<stripe, sent, account, subscriptionRow, stalest, existing,
                   syncAt, batch, fetched, billingFailures, activated>>
-----------------------------------------------------------------------------
Owner(h) == sent[event[h]].owner
Said(h) == sent[event[h]].is

Upsert(o, a) ==
    /\ account' = [account EXCEPT ![o] = a]
    /\ \E i \in DOMAIN stalest :
          stalest[i] = o /\ stalest' = Append(RemoveAt(stalest, i), o)

(* RecordWebhookEvent upserts the event by its id: a known one is processed again. *)
RecordWebhookEvent(h) ==
    /\ hookAt[h] = "record"
    /\ hookAt' = [hookAt EXCEPT ![h] = "find"]
    /\ UNCHANGED <<stripe, sent, delivered, account, subscriptionRow, stalest, event, existing,
                   syncAt, batch, fetched, repeats, billingFailures, activated>>

FindBillingAccount(h) ==
    /\ hookAt[h] = "find"
    /\ existing' = [existing EXCEPT ![h] = account[Owner(h)]]
    /\ hookAt' = [hookAt EXCEPT ![h] = "account"]
    /\ UNCHANGED <<stripe, sent, delivered, account, subscriptionRow, stalest, event,
                   syncAt, batch, fetched, repeats, billingFailures, activated>>

(* The account becomes what the event says; an id it does not name is the one read before. *)
UpsertBillingAccount(h) ==
    LET a == [status |-> Said(h).status, tier |-> TierOf(Said(h)),
              names |-> IF sent[event[h]].named THEN sent[event[h]].sub ELSE existing[h].names]
        paid == ResolvePlanTier(a) # "free" /\ ResolvePlanTier(account[Owner(h)]) = "free"
    IN
    /\ hookAt[h] = "account"
    /\ Upsert(Owner(h), a)
    /\ activated' = [activated EXCEPT ![Owner(h)] = @ + IF paid THEN 1 ELSE 0]
    /\ hookAt' = [hookAt EXCEPT ![h] = IF sent[event[h]].named THEN "row" ELSE "idle"]
    /\ event' = [event EXCEPT ![h] = IF sent[@].named THEN @ ELSE 0]
    /\ existing' = [existing EXCEPT ![h] = NoAccount]
    /\ UNCHANGED <<stripe, sent, delivered, subscriptionRow,
                   syncAt, batch, fetched, repeats, billingFailures>>

(* Then the subscription's row and a line of the reconciliation log. *)
UpsertBillingSubscription(h) ==
    /\ hookAt[h] = "row"
    /\ subscriptionRow' = [subscriptionRow EXCEPT ![Owner(h)][sent[event[h]].sub] = Said(h)]
    /\ hookAt' = [hookAt EXCEPT ![h] = "idle"]
    /\ event' = [event EXCEPT ![h] = 0]
    /\ UNCHANGED <<stripe, sent, delivered, account, stalest, existing,
                   syncAt, batch, fetched, repeats, billingFailures, activated>>

(* A call fails: the request ends with an error, what it has written stays. *)
WebhookFails(h) ==
    /\ hookAt[h] # "idle" /\ billingFailures < MaxBillingFailures
    /\ billingFailures' = billingFailures + 1
    /\ hookAt' = [hookAt EXCEPT ![h] = "idle"]
    /\ event' = [event EXCEPT ![h] = 0]
    /\ existing' = [existing EXCEPT ![h] = NoAccount]
    /\ UNCHANGED <<stripe, sent, delivered, account, subscriptionRow, stalest,
                   syncAt, batch, fetched, repeats, activated>>
-----------------------------------------------------------------------------
(* Mutant of Stalest: the accounts written last come first. *)
Freshest(owners) == Reverse(owners)

(* ListBillingAccountsForSubscriptionSync orders by updated_at. *)
Stalest(owners) == owners

(* The accounts that name a subscription, of some in their order. *)
IfKnown(known, o) ==
    IF account[o].names # NoName
    THEN Append(known, [owner |-> o, sub |-> account[o].names]) ELSE known
KnownOf(owners) == FoldLeft(IfKnown, <<>>, owners)

ListBillingAccounts ==
    LET known == KnownOf(Stalest(stalest))
    IN
    /\ syncAt = "idle" /\ known # <<>>
    /\ batch' = SubSeq(known, 1, IF Len(known) < SyncLimit THEN Len(known) ELSE SyncLimit)
    /\ syncAt' = "get"
    /\ UNCHANGED <<stripe, sent, delivered, account, subscriptionRow, stalest, hookAt, event,
                   existing, fetched, repeats, billingFailures, activated>>

GetSubscription ==
    /\ syncAt = "get"
    /\ fetched' = stripe[Head(batch).owner][Head(batch).sub]
    /\ syncAt' = "row"
    /\ UNCHANGED <<stripe, sent, delivered, account, subscriptionRow, stalest, hookAt, event,
                   existing, batch, repeats, billingFailures, activated>>

SyncSubscription ==
    /\ syncAt = "row"
    /\ subscriptionRow' = [subscriptionRow EXCEPT ![Head(batch).owner][Head(batch).sub] = fetched]
    /\ syncAt' = "account"
    /\ UNCHANGED <<stripe, sent, delivered, account, stalest, hookAt, event,
                   existing, batch, fetched, repeats, billingFailures, activated>>

(* The account is written from Stripe's answer, with the subscription it was read to  *)
(* name when the run began; then the next of the batch.                               *)
SyncAccount ==
    /\ syncAt = "account"
    /\ Upsert(Head(batch).owner, [status |-> fetched.status, tier |-> TierOf(fetched),
                                  names |-> Head(batch).sub])
    /\ batch' = Tail(batch) /\ fetched' = NoSubscription
    /\ syncAt' = IF Tail(batch) = <<>> THEN "idle" ELSE "get"
    /\ UNCHANGED <<stripe, sent, delivered, subscriptionRow, hookAt, event,
                   existing, repeats, billingFailures, activated>>

(* A failed call ends the run, also for the accounts behind it. *)
SyncFails ==
    /\ syncAt # "idle" /\ billingFailures < MaxBillingFailures
    /\ billingFailures' = billingFailures + 1
    /\ syncAt' = "idle" /\ batch' = <<>> /\ fetched' = NoSubscription
    /\ UNCHANGED <<stripe, sent, delivered, account, subscriptionRow, stalest, hookAt, event,
                   existing, repeats, activated>>
-----------------------------------------------------------------------------
WebhookStep(h) ==
    \/ RecordWebhookEvent(h)
    \/ FindBillingAccount(h)
    \/ UpsertBillingAccount(h)
    \/ UpsertBillingSubscription(h)

SyncStep == GetSubscription \/ SyncSubscription \/ SyncAccount

BillingNext ==
    \/ \E o \in Owners : Subscribe(o) \/ Change(o)
    \/ \E h \in Hooks : (\E n \in 1..MaxChanges : Deliver(h, n)) \/ WebhookStep(h) \/ WebhookFails(h)
    \/ ListBillingAccounts \/ SyncStep
    \/ SyncFails

BillingSpec == BillingInit /\ [][BillingNext]_billingVars

(* Requests and runs go on once begun.  Nothing in the repository starts a run: an operator *)
(* does (docs/runbooks/launch-gates.md:233).                                                *)
BillingFairness ==
    /\ \A h \in Hooks : WF_billingVars(WebhookStep(h))
    /\ WF_billingVars(SyncStep)

BillingFairSpec == BillingSpec /\ BillingFairness
-----------------------------------------------------------------------------
(* A subscription that is named is one of its owner's at Stripe. *)
NamesKnown ==
    /\ \A i \in DOMAIN sent : sent[i].sub \in DOMAIN stripe[sent[i].owner]
    /\ \A o \in Owners : account[o].names \in {NoName} \cup DOMAIN stripe[o]
    /\ \A h \in Hooks : hookAt[h] = "account" =>
          existing[h].names \in {NoName} \cup DOMAIN stripe[Owner(h)]
    /\ \A i \in DOMAIN batch : batch[i].sub \in DOMAIN stripe[batch[i].owner]

BillingTypeOK ==
    /\ stripe \in [Owners -> Seq(Subscriptions)]
    /\ sent \in Seq([owner : Owners, sub : Names, is : Subscriptions, named : BOOLEAN])
    /\ delivered \subseteq DOMAIN sent
    /\ account \in [Owners -> Accounts]
    /\ subscriptionRow \in [Owners -> [Names -> Subscriptions \cup {NoSubscription}]]
    /\ IsInjective(stalest) /\ Range(stalest) = Owners
    /\ hookAt \in [Hooks -> {"idle", "record", "find", "account", "row"}]
    /\ event \in [Hooks -> {0} \cup DOMAIN sent]
    /\ existing \in [Hooks -> Accounts]
    /\ syncAt \in {"idle", "get", "row", "account"}
    /\ batch \in Seq([owner : Owners, sub : Names])
    /\ fetched \in Subscriptions \cup {NoSubscription}
    /\ (batch = <<>>) = (syncAt = "idle")
    /\ repeats \in 0..MaxRepeats /\ billingFailures \in 0..MaxBillingFailures
    /\ activated \in [Owners -> Nat]
    /\ NamesKnown

Agrees(o) ==
    LET s == stripe[o][account[o].names]
    IN  /\ ResolvePlanTier(account[o]) = ResolvePlanTier(s)
        /\ subscriptionRow[o][account[o].names] = s

(* docs/runbooks/launch-gates.md:233, running the sync brings accounts back in line with  *)
(* Stripe.  Whatever order events came in, whichever requests or runs failed half way: if *)
(* runs are started again and again, an account that names a subscription ends with the   *)
(* plan Stripe has for that one, and with a row that agrees, when Stripe is left alone    *)
(* (each run's limit, the order by updated_at, the two writes, an account read when the   *)
(* run began).  The subscription it names may be an older one of the owner.               *)
AccountsFollowStripe ==
    []<><<ListBillingAccounts>>_billingVars
       => <>[](\A o \in Owners : account[o].names # NoName => Agrees(o))

(* docs/runbooks/launch-gates.md:110: a webhook that is delivered twice activates *)
(* nothing twice: an owner is given a paid plan at most once per event that says  *)
(* its subscription is active.                                                    *)
NoDuplicateActivation ==
    \A o \in Owners :
       activated[o] <= Cardinality({n \in delivered : sent[n].owner = o /\ sent[n].is.status = "active"})
=============================================================================
