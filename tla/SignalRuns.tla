----------------------------- MODULE SignalRuns -----------------------------
(***************************************************************************)
(* The score workers of apps/workers: cluster_score.go, shadow_exit.go and *)
(* first_connection.go.  Each run scores one wallet and then makes the     *)
(* same calls in the same order: the signal event, the findings, the       *)
(* labels, the findings read from them, the tracking status, the summary   *)
(* cache, the alerts and the job run.  A finding is two rows, a candidate  *)
(* and its evidence bundle, written by two statements under a key of type, *)
(* wallet and moment.                                                      *)
(*                                                                         *)
(* Runs of one wallet overlap freely; any call may fail and any run die.   *)
(* What the calls before the signal store is in EntryFeatures and          *)
(* TransferEvidence, what the dispatcher does in AlertDelivery.            *)
(***************************************************************************)
EXTENDS Naturals, Sequences, FiniteSets

CONSTANTS
    Snapshots,           \* runs
    Moments,             \* observation times, one for each window scored
    NoType,              \* a finding entry without a type
    NoWriter,            \* no run has written the row
    MaxSnapshotFailures  \* bound: calls that fail and runs that die

ASSUME SnapshotAssumption ==
    /\ Snapshots # {} /\ Moments # {}
    /\ NoWriter \notin Snapshots
    /\ MaxSnapshotFailures \in Nat

VARIABLES
    kind,        \* run -> which worker it is
    observedAt,  \* run -> the moment of its report
    facts,       \* run -> what its report counts
    call,        \* run -> the call it makes next, or how it ended
    entries,     \* run -> findings still to be recorded
    recorded,    \* runs whose signal event is stored
    candidate,   \* key -> the run that wrote the finding_candidates row
    bundle,      \* key -> the run that wrote its finding_evidence_bundles row
    scored,      \* runs that marked the wallet scored
    dispatched,  \* runs that handed their signal to the alerts
    jobRuns,     \* run -> status of its job run row
    broken,      \* runs of which a call failed or that died
    contended,   \* keys that two runs were writing at once
    snapshotFailures

runVars == <<kind, observedAt, facts, call, entries, recorded, candidate, bundle, scored,
             dispatched, jobRuns, broken, contended, snapshotFailures>>
-----------------------------------------------------------------------------
Kinds == {"cluster score", "shadow exit", "first connection"}

FindingTypes == {"smart_money_convergence", "exit_preparation", "cross_chain_rotation",
                 "cex_deposit_pressure", "fund_adjacent_activity", "high_conviction_entry"}

ASSUME TypeAssumption == NoType \notin FindingTypes

(* The deduplication key: type and moment, of the one wallet. *)
FindingKeys == FindingTypes \X Moments

(* A finding entry has its subject or lacks it; only the evidence reports, which no
   reachable step of these runs passes on, let through treasury and MM findings. *)
Entry(type) == [type |-> type, subject |-> TRUE]
Bare(type) == [type |-> type, subject |-> FALSE]
Base == [type |-> NoType, subject |-> TRUE]
FindingEntries == [type : FindingTypes \cup {NoType}, subject : BOOLEAN]

(* What a run of the kind may count: enough for each of its findings or not. *)
CountsOf(k) ==
    CASE k = "cluster score" -> {"two counterparties"}
      [] k = "shadow exit" -> {"bridge escapes", "exchange proximity"}
      [] k = "first connection" -> {"early overlap"}

ClusterEntries(seen) == <<Entry("smart_money_convergence")>>

FirstConnectionEntries(seen) == <<Entry("smart_money_convergence")>>

(* Each finding is appended as an entry without subject and then the base of all,
   which has no type; the two are not merged. *)
ShadowExitEntries(seen) ==
    <<Bare("exit_preparation"), Base>>
        \o (IF "bridge escapes" \in seen THEN <<Bare("cross_chain_rotation"), Base>> ELSE <<>>)
        \o (IF "exchange proximity" \in seen THEN <<Bare("cex_deposit_pressure"), Base>> ELSE <<>>)

OwnEntries(k, seen) ==
    CASE k = "cluster score" -> ClusterEntries(seen)
      [] k = "shadow exit" -> ShadowExitEntries(seen)
      [] k = "first connection" -> FirstConnectionEntries(seen)

ClusterAllows(seen) == IF "two counterparties" \in seen THEN {"fund_adjacent_activity"} ELSE {}

FirstConnectionAllows(seen) == IF "early overlap" \in seen THEN {"high_conviction_entry"} ELSE {}

(* Without the evidence reports a shadow exit allows none. *)
ShadowExitAllows(seen) == {}

AllowedBy(k, seen) ==
    CASE k = "cluster score" -> ClusterAllows(seen)
      [] k = "shadow exit" -> ShadowExitAllows(seen)
      [] k = "first connection" -> FirstConnectionAllows(seen)

(* Of what the report allows, fund activity needs an inferred fund label too. *)
InterpretedEntries(k, seen, fund) ==
    LET allowed == AllowedBy(k, seen) IN
        (IF "fund_adjacent_activity" \in allowed /\ fund
         THEN <<Entry("fund_adjacent_activity")>> ELSE <<>>)
            \o (IF "high_conviction_entry" \in allowed
                THEN <<Entry("high_conviction_entry")>> ELSE <<>>)

(* What UpsertFinding refuses before it sends a statement. *)
Normalizes(e) == e.type # NoType /\ e.subject
-----------------------------------------------------------------------------
Ended == {"reported", "failed", "dead"}

Calls == {"idle", "signal", "finding", "bundle", "labels", "interpreted",
          "interpreted bundle", "tracked", "cache", "alerts", "job run"} \cup Ended

(* The calls whose error is also recorded as a failed job run. *)
ClusterRecordsErrorOf == {"idle", "signal", "cache"}
ShadowExitRecordsErrorOf == {"signal", "cache"}
FirstConnectionRecordsErrorOf == {"signal", "cache"}

RecordsErrorOf(k) ==
    CASE k = "cluster score" -> ClusterRecordsErrorOf
      [] k = "shadow exit" -> ShadowExitRecordsErrorOf
      [] k = "first connection" -> FirstConnectionRecordsErrorOf

SnapshotsInit ==
    /\ kind \in [Snapshots -> Kinds]
    /\ observedAt \in [Snapshots -> Moments]
    /\ facts = [r \in Snapshots |-> {}]
    /\ call = [r \in Snapshots |-> "idle"]
    /\ entries = [r \in Snapshots |-> <<>>]
    /\ recorded = {} /\ scored = {} /\ dispatched = {}
    /\ candidate = [k \in FindingKeys |-> NoWriter]
    /\ bundle = [k \in FindingKeys |-> NoWriter]
    /\ jobRuns = [r \in Snapshots |-> "none"]
    /\ broken = {} /\ contended = {} /\ snapshotFailures = 0

Goes(r, c) == call' = [call EXCEPT ![r] = c]

KeyOf(r) == <<Head(entries[r]).type, observedAt[r]>>

(* The wallet is ensured, its graph or its candidates and evidence are read, and the
   score is built. *)
ReadInputs(r) ==
    /\ call[r] = "idle"
    /\ \E seen \in SUBSET CountsOf(kind[r]) : facts' = [facts EXCEPT ![r] = seen]
    /\ Goes(r, "signal")
    /\ UNCHANGED <<kind, observedAt, entries, recorded, candidate, bundle, scored, dispatched,
                   jobRuns, broken, contended, snapshotFailures>>

RecordSignalEvent(r) ==
    /\ call[r] = "signal"
    /\ recorded' = recorded \cup {r}
    /\ entries' = [entries EXCEPT ![r] = OwnEntries(kind[r], facts[r])]
    /\ Goes(r, "finding")
    /\ UNCHANGED <<kind, observedAt, facts, candidate, bundle, scored, dispatched, jobRuns,
                   broken, contended, snapshotFailures>>

(* The next call once the entries of this one are all recorded. *)
AfterEntries(c) == IF c = "finding" THEN "labels" ELSE "tracked"
BundleCall(c) == IF c = "finding" THEN "bundle" ELSE "interpreted bundle"
EntryCall(c) == IF c = "bundle" THEN "finding" ELSE "interpreted"

NoMoreFindings(r) ==
    /\ call[r] \in {"finding", "interpreted"}
    /\ entries[r] = <<>>
    /\ Goes(r, AfterEntries(call[r]))
    /\ UNCHANGED <<kind, observedAt, facts, entries, recorded, candidate, bundle, scored,
                   dispatched, jobRuns, broken, contended, snapshotFailures>>

(* The runs that have written the candidate of key k and not yet its bundle. *)
Writing(k) == {r \in Snapshots : call[r] \in {"bundle", "interpreted bundle"} /\ KeyOf(r) = k}

UpsertFindingCandidate(r) ==
    /\ call[r] \in {"finding", "interpreted"}
    /\ entries[r] # <<>>
    /\ Normalizes(Head(entries[r]))
    /\ candidate' = [candidate EXCEPT ![KeyOf(r)] = r]
    /\ contended' = IF Writing(KeyOf(r)) # {} THEN contended \cup {KeyOf(r)} ELSE contended
    /\ Goes(r, BundleCall(call[r]))
    /\ UNCHANGED <<kind, observedAt, facts, entries, recorded, bundle, scored, dispatched,
                   jobRuns, broken, snapshotFailures>>

(* The bundle's statement without its update on conflict. *)
UpsertFindingBundleOnce(r) ==
    /\ call[r] \in {"bundle", "interpreted bundle"}
    /\ bundle' = [bundle EXCEPT ![KeyOf(r)] = IF @ = NoWriter THEN r ELSE @]
    /\ entries' = [entries EXCEPT ![r] = Tail(@)]
    /\ Goes(r, EntryCall(call[r]))
    /\ UNCHANGED <<kind, observedAt, facts, recorded, candidate, scored, dispatched, jobRuns,
                   broken, contended, snapshotFailures>>

UpsertFindingBundle(r) ==
    /\ call[r] \in {"bundle", "interpreted bundle"}
    /\ bundle' = [bundle EXCEPT ![KeyOf(r)] = r]
    /\ entries' = [entries EXCEPT ![r] = Tail(@)]
    /\ Goes(r, EntryCall(call[r]))
    /\ UNCHANGED <<kind, observedAt, facts, recorded, candidate, scored, dispatched, jobRuns,
                   broken, contended, snapshotFailures>>

(* An entry that does not normalize ends the run, and leaves no job run. *)
RefuseFinding(r) ==
    /\ call[r] \in {"finding", "interpreted"}
    /\ entries[r] # <<>>
    /\ ~Normalizes(Head(entries[r]))
    /\ Goes(r, "failed")
    /\ UNCHANGED <<kind, observedAt, facts, entries, recorded, candidate, bundle, scored,
                   dispatched, jobRuns, broken, contended, snapshotFailures>>

ReadWalletLabels(r) ==
    /\ call[r] = "labels"
    /\ \E fund \in BOOLEAN :
          entries' = [entries EXCEPT ![r] = InterpretedEntries(kind[r], facts[r], fund)]
    /\ Goes(r, "interpreted")
    /\ UNCHANGED <<kind, observedAt, facts, recorded, candidate, bundle, scored, dispatched,
                   jobRuns, broken, contended, snapshotFailures>>

MarkWalletScored(r) ==
    /\ call[r] = "tracked"
    /\ scored' = scored \cup {r}
    /\ Goes(r, "cache")
    /\ UNCHANGED <<kind, observedAt, facts, entries, recorded, candidate, bundle, dispatched,
                   jobRuns, broken, contended, snapshotFailures>>

InvalidateSummary(r) ==
    /\ call[r] = "cache"
    /\ Goes(r, "alerts")
    /\ UNCHANGED <<kind, observedAt, facts, entries, recorded, candidate, bundle, scored,
                   dispatched, jobRuns, broken, contended, snapshotFailures>>

(* An error of the dispatcher is only noted in the job run's details. *)
DispatchWalletSignal(r) ==
    /\ call[r] = "alerts"
    /\ dispatched' = dispatched \cup {r}
    /\ Goes(r, "job run")
    /\ UNCHANGED <<kind, observedAt, facts, entries, recorded, candidate, bundle, scored,
                   jobRuns, broken, contended, snapshotFailures>>

RecordJobRun(r) ==
    /\ call[r] = "job run"
    /\ jobRuns' = [jobRuns EXCEPT ![r] = "succeeded"]
    /\ Goes(r, "reported")
    /\ UNCHANGED <<kind, observedAt, facts, entries, recorded, candidate, bundle, scored,
                   dispatched, broken, contended, snapshotFailures>>

(* A call fails: the run ends there.  The failed job run is recorded if that works. *)
CallFails(r) ==
    /\ call[r] \notin Ended \cup {"alerts"}
    /\ snapshotFailures < MaxSnapshotFailures
    /\ snapshotFailures' = snapshotFailures + 1
    /\ broken' = broken \cup {r}
    /\ Goes(r, "failed")
    /\ \/ /\ call[r] \in RecordsErrorOf(kind[r])
          /\ jobRuns' = [jobRuns EXCEPT ![r] = "failed"]
       \/ UNCHANGED jobRuns
    /\ UNCHANGED <<kind, observedAt, facts, entries, recorded, candidate, bundle, scored,
                   dispatched, contended>>

(* The worker is stopped. *)
Dies(r) ==
    /\ call[r] \notin Ended
    /\ snapshotFailures < MaxSnapshotFailures
    /\ snapshotFailures' = snapshotFailures + 1
    /\ broken' = broken \cup {r}
    /\ Goes(r, "dead")
    /\ UNCHANGED <<kind, observedAt, facts, entries, recorded, candidate, bundle, scored,
                   dispatched, jobRuns, contended>>

ScoreStep(r) ==
    \/ ReadInputs(r) \/ RecordSignalEvent(r) \/ NoMoreFindings(r)
    \/ UpsertFindingCandidate(r) \/ UpsertFindingBundle(r) \/ RefuseFinding(r)
    \/ ReadWalletLabels(r) \/ MarkWalletScored(r) \/ InvalidateSummary(r)
    \/ DispatchWalletSignal(r) \/ RecordJobRun(r)

SnapshotsNext == \E r \in Snapshots : ScoreStep(r) \/ CallFails(r) \/ Dies(r)

SnapshotsSpec == SnapshotsInit /\ [][SnapshotsNext]_runVars
-----------------------------------------------------------------------------
SnapshotsTypeOK ==
    /\ kind \in [Snapshots -> Kinds]
    /\ observedAt \in [Snapshots -> Moments]
    /\ \A r \in Snapshots : facts[r] \subseteq CountsOf(kind[r])
    /\ call \in [Snapshots -> Calls]
    /\ entries \in [Snapshots -> Seq(FindingEntries)]
    /\ recorded \subseteq Snapshots /\ scored \subseteq Snapshots
    /\ dispatched \subseteq Snapshots /\ broken \subseteq Snapshots
    /\ candidate \in [FindingKeys -> Snapshots \cup {NoWriter}]
    /\ bundle \in [FindingKeys -> Snapshots \cup {NoWriter}]
    /\ jobRuns \in [Snapshots -> {"none", "failed", "succeeded"}]
    /\ contended \subseteq FindingKeys
    /\ snapshotFailures \in 0..MaxSnapshotFailures

(* The rows of a finding are of one run.  The candidate and its bundle are written by
   two statements under a key that a cluster score and a first connection of the same
   moment share: only runs that overlap in between, or a run stopped in between, leave
   the summary of one with the evidence of another. *)
FindingsAreWhole ==
    \A k \in FindingKeys :
        candidate[k] # bundle[k]
            => \/ k \in contended \/ candidate[k] \in broken
               \/ candidate[k] \in Writing(k)

(* A run whose signal is stored ends with the alerts told, unless a call of it failed
   or it died; its job run then says so only if the findings and the status are there. *)
SignalsAreDispatched ==
    \A r \in Snapshots :
        /\ r \in recorded /\ call[r] \in Ended /\ kind[r] # "shadow exit"
              => r \in dispatched \/ r \in broken
        /\ jobRuns[r] = "succeeded"
              => /\ r \in recorded \cap scored \cap dispatched
                 /\ bundle[<<"smart_money_convergence", observedAt[r]>>] # NoWriter

(* Both: what a run writes arrives whole or is found to have failed. *)
SignalsArrive == FindingsAreWhole /\ SignalsAreDispatched

(* The same of shadow exits alone, as their tests expect. *)
ExitsAreDispatched ==
    \A r \in Snapshots :
        kind[r] = "shadow exit" /\ r \in recorded /\ call[r] \in Ended
            => r \in dispatched \/ r \in broken
=============================================================================
