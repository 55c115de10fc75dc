--------------------------- MODULE WalletTracking ---------------------------
(***************************************************************************)
(* Realtime tracking of wallets: runs of wallet-tracking-subscription-sync *)
(* send the addresses of tracked wallets to a provider's webhook and write *)
(* one subscription row per wallet; webhook events write the same rows.    *)
(* Nothing keeps two runs apart: each replaces the provider's whole list   *)
(* by the one it read.  One provider; the loop treats each by itself.      *)
(***************************************************************************)
EXTENDS Integers, Sequences, FiniteSets

CONSTANTS
    Addresses,          \* wallets
    Syncs,              \* worker processes that run the synchronisation
    Limit,              \* QORVI_TRACKING_SUBSCRIPTION_SYNC_LIMIT
    Setups,             \* configurations: "none", "webhook", "callback"
    MaxSyncFailures     \* bound: failed calls

ASSUME SetupAssumption == Setups \subseteq {"none", "webhook", "callback"}
ASSUME LimitAssumption == Limit \in Nat \ {0}
ASSUME SyncBoundsAssumption == MaxSyncFailures \in Nat

VARIABLES
    setup,              \* the deployment's configuration
    listed,             \* wallets whose tracking status is tracked, labeled or scored
    subscription,       \* the status of each wallet's row, "none" without a row
    hooks,              \* the provider: the addresses of each webhook it has
    syncing,            \* each process: its next call
    refs,               \* each process: the wallets it has listed
    hook,               \* each process: the webhook whose list it replaces
    outcome, unwritten, \* each process: the status it writes and where it still does
    syncFailures,       \* bounded counter
    displaced,          \* history: addresses a run took off the provider's lists
    counterparties      \* history: others that reported transfers have named

syncVars == <<setup, listed, subscription, hooks, syncing, refs, hook, outcome, unwritten,
              syncFailures, displaced, counterparties>>

Registered == UNION {hooks[i] : i \in DOMAIN hooks}

(* The limit keeps those of highest priority, which changes as wallets are updated. *)
Listings ==
    IF Cardinality(listed) <= Limit THEN {listed}
    ELSE {S \in SUBSET listed : Cardinality(S) = Limit}

SyncInit ==
    /\ listed = {}
    /\ subscription = [w \in Addresses |-> "none"]
    /\ setup \in Setups
    /\ hooks = IF setup = "webhook" THEN <<{}>> ELSE <<>>
    /\ syncing = [s \in Syncs |-> "idle"]
    /\ refs = [s \in Syncs |-> {}]
    /\ hook = [s \in Syncs |-> 0]
    /\ outcome = [s \in Syncs |-> "active"]
    /\ unwritten = [s \in Syncs |-> {}]
    /\ syncFailures = 0
    /\ displaced = {} /\ counterparties = {}
-----------------------------------------------------------------------------
(* A backfill or a score promotes the wallet; its row never goes back (WalletStatus). *)
Track(w) ==
    /\ listed' = listed \cup {w}
    /\ UNCHANGED <<setup, subscription, hooks, syncing, refs, hook, outcome, unwritten,
                   syncFailures, displaced, counterparties>>
-----------------------------------------------------------------------------
(* A run *)

syncFrame == <<setup, listed, syncFailures, counterparties>>

(* The run writes a status for each wallet it has listed. *)
Write(s, result) ==
    /\ syncing' = [syncing EXCEPT ![s] = "write"]
    /\ outcome' = [outcome EXCEPT ![s] = result]
    /\ unwritten' = [unwritten EXCEPT ![s] = refs'[s]]

(* The wallets are listed.  Without wallets the provider is not called; without a client
   or an address to call back the rows are pending. *)
List(s) ==
    /\ syncing[s] = "idle" /\ listed # {}
    /\ \E S \in Listings : refs' = [refs EXCEPT ![s] = S]
    /\ \/ setup = "none" /\ Write(s, "pending") /\ UNCHANGED hook
       \/ /\ setup = "webhook"
          /\ syncing' = [syncing EXCEPT ![s] = "replace"]
          /\ hook' = [hook EXCEPT ![s] = 1]
          /\ UNCHANGED <<outcome, unwritten>>
       \/ /\ setup = "callback"
          /\ syncing' = [syncing EXCEPT ![s] = "find"]
          /\ UNCHANGED <<hook, outcome, unwritten>>
    /\ UNCHANGED <<syncFrame, subscription, hooks, displaced>>

(* A webhook with the same address to call back is used again. *)
Find(s) ==
    /\ syncing[s] = "find"
    /\ IF hooks = <<>>
       THEN syncing' = [syncing EXCEPT ![s] = "create"] /\ UNCHANGED hook
       ELSE /\ \E i \in DOMAIN hooks : hook' = [hook EXCEPT ![s] = i]
            /\ syncing' = [syncing EXCEPT ![s] = "replace"]
    /\ UNCHANGED <<syncFrame, subscription, hooks, refs, outcome, unwritten, displaced>>

(* What the call does at the provider: the webhook has the run's list and no other. *)
Applies(s) ==
    /\ hooks' = IF syncing[s] = "create" THEN Append(hooks, refs[s])
                ELSE [hooks EXCEPT ![hook[s]] = refs[s]]
    /\ displaced' = (displaced \cup Registered) \ UNION {hooks'[i] : i \in DOMAIN hooks'}

Reconcile(s) ==
    /\ syncing[s] \in {"replace", "create"}
    /\ Applies(s)
    /\ UNCHANGED refs /\ Write(s, "active")
    /\ UNCHANGED <<syncFrame, subscription, hook>>

(* Mutant of ReconcileFails: the rows are written as if the call had succeeded. *)
ReconcileFailsActive(s) ==
    /\ syncing[s] \in {"find", "replace", "create"}
    /\ syncFailures < MaxSyncFailures
    /\ syncFailures' = syncFailures + 1
    /\ UNCHANGED <<hooks, displaced>>
    /\ UNCHANGED refs /\ Write(s, "active")
    /\ UNCHANGED <<setup, listed, subscription, hook, counterparties>>

(* The provider fails, before or after its effect: every listed wallet is errored. *)
ReconcileFails(s) ==
    /\ syncing[s] \in {"find", "replace", "create"}
    /\ syncFailures < MaxSyncFailures
    /\ syncFailures' = syncFailures + 1
    /\ \/ UNCHANGED <<hooks, displaced>>
       \/ syncing[s] # "find" /\ Applies(s)
    /\ UNCHANGED refs /\ Write(s, "errored")
    /\ UNCHANGED <<setup, listed, subscription, hook, counterparties>>

RunEnds(s) ==
    /\ syncing' = [syncing EXCEPT ![s] = "idle"]
    /\ refs' = [refs EXCEPT ![s] = {}]
    /\ hook' = [hook EXCEPT ![s] = 0]
    /\ outcome' = [outcome EXCEPT ![s] = "active"]
    /\ unwritten' = [unwritten EXCEPT ![s] = {}]

(* The rows are upserted one by one. *)
WriteRow(s) ==
    /\ syncing[s] = "write"
    /\ \E w \in unwritten[s] :
          /\ subscription' = [subscription EXCEPT ![w] = outcome[s]]
          /\ IF unwritten[s] = {w} THEN RunEnds(s)
             ELSE /\ unwritten' = [unwritten EXCEPT ![s] = @ \ {w}]
                  /\ UNCHANGED <<syncing, refs, hook, outcome>>
    /\ UNCHANGED <<syncFrame, hooks, displaced>>

(* Postgres fails, or the process dies: the rest is not written until the next run. *)
RunFails(s) ==
    /\ syncing[s] # "idle"
    /\ syncFailures < MaxSyncFailures
    /\ syncFailures' = syncFailures + 1
    /\ RunEnds(s)
    /\ UNCHANGED <<setup, listed, subscription, hooks, displaced, counterparties>>
-----------------------------------------------------------------------------
(* A webhook reports a transfer of an address that it has, or had when the event was sent
   or sent first.  The rows of both its sides are written, one by one: the second write
   may fail. *)
AcceptEvent(w, other) ==
    /\ w \in Registered \cup displaced
    /\ \E rows \in SUBSET {w, other} \ {{}} :
          subscription' = [v \in Addresses |-> IF v \in rows THEN "active" ELSE subscription[v]]
    /\ counterparties' = counterparties \cup ({other} \ (Registered \cup displaced))
    /\ UNCHANGED <<setup, listed, hooks, syncing, refs, hook, outcome, unwritten,
                   syncFailures, displaced>>
-----------------------------------------------------------------------------
SyncStep(s) == List(s) \/ Find(s) \/ Reconcile(s) \/ WriteRow(s)

SyncNext ==
    \/ \E w \in Addresses : Track(w) \/ \E other \in Addresses : AcceptEvent(w, other)
    \/ \E s \in Syncs : SyncStep(s) \/ ReconcileFails(s) \/ RunFails(s)

SyncSpec == SyncInit /\ [][SyncNext]_syncVars

(* The synchronisation runs again and again; wallets and events need not come. *)
SyncFairness == \A s \in Syncs : WF_syncVars(SyncStep(s))

SyncFairSpec == SyncSpec /\ SyncFairness
-----------------------------------------------------------------------------
(* Every variable keeps its type; a run that writes has rows to write. *)
SyncTypeOK ==
    /\ subscription \in [Addresses -> {"none", "pending", "active", "errored"}]
    /\ setup \in Setups /\ (setup = "webhook" => hooks # <<>>)
    /\ hooks \in Seq(SUBSET Addresses)
    /\ listed \in SUBSET Addresses /\ displaced \in SUBSET Addresses
    /\ counterparties \in SUBSET Addresses
    /\ syncing \in [Syncs -> {"idle", "find", "replace", "create", "write"}]
    /\ refs \in [Syncs -> SUBSET Addresses] /\ unwritten \in [Syncs -> SUBSET Addresses]
    /\ hook \in [Syncs -> Nat]
    /\ outcome \in [Syncs -> {"pending", "active", "errored"}]
    /\ \A s \in Syncs :
          /\ syncing[s] = "write" => unwritten[s] # {} /\ unwritten[s] \subseteq refs[s]
          /\ syncing[s] = "replace" => hook[s] \in DOMAIN hooks
    /\ syncFailures \in 0..MaxSyncFailures

(* A subscription that says active is registered at the provider, unless another run has
   taken its address off the list or a transfer with a tracked wallet named it: no failed
   call, late row or other configuration makes a wallet look tracked. *)
ActiveUnlessNamed ==
    \A w \in Addresses :
        subscription[w] = "active" => w \in Registered \cup displaced \cup counterparties

(* A wallet that is tracked is registered in the end and stays so, although runs overlap
   and replace each other's lists; for limits that leave no wallet out. *)
EventuallyRegistered ==
    \A w \in Addresses : (setup # "none" /\ w \in listed) ~> [](w \in Registered)
=============================================================================
