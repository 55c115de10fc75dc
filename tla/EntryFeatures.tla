---------------------------- MODULE EntryFeatures ----------------------------
(***************************************************************************)
(* The first-connection snapshots of one wallet: a run keeps the           *)
(* counterparties that are new in the last 24 h as the entry features of   *)
(* the day it looks at, and first says what has become of those of the     *)
(* snapshot before (apps/workers/first_connection.go,                      *)
(* packages/db/wallet_entry_features.go).                                  *)
(*                                                                         *)
(* Every read and write is a statement of its own: runs overlap, stop      *)
(* between two of them, and may be told to look at an earlier moment.      *)
(* What a run does with its report afterwards (signal, findings, caches,   *)
(* alerts) touches no entry features.  Time is counted in half hours, the  *)
(* least the query tells apart, which gives whole hours, rounded.          *)
(***************************************************************************)
EXTENDS Naturals, FiniteSets

CONSTANTS
    Counterparties,
    Runners,                \* runs that may be under way at once
    DayLength,              \* 24 h in half hours
    Persistence,            \* 24, in hours: a counterparty still met then has stayed
    Maturity,               \* 72 h in half hours: no outcome is waited for any longer
    MaxTime, MaxTransfers, MaxRuns,     \* bounds
    MaxLate                 \* bound: how long a transfer takes to be stored, how far a run looks back

ASSUME TimesAssumption ==
    /\ DayLength \in Nat \ {0} /\ Persistence \in Nat /\ Maturity \in Nat
    /\ MaxTime \in Nat /\ DayLength <= MaxTime /\ MaxRuns \in Nat /\ MaxLate \in Nat

VARIABLES
    now,
    transfers,              \* transactions: what is stored of the wallet, as <<counterparty, time>>
    features,               \* wallet_entry_features_daily, by observed_day
    run,                    \* each run: its next call, what it looks at and has read
    runs,                   \* bounded counter
    disturbed               \* history: two runs overlapped, or one looked at an earlier moment

entryVars == <<now, transfers, features, run, runs, disturbed>>

Days == 0..(MaxTime \div DayLength)
Day(t) == t \div DayLength

(* HoldingPersistenceState and OutcomeResolvedAt: "sustained" and "short_lived" are resolved. *)
States == {"", "monitoring", "sustained", "short_lived"}
Resolved(f) == f.state \in {"sustained", "short_lived"}

Features == [end : 1..MaxTime, tops : SUBSET Counterparties, state : States,
             resolvedAt : 0..MaxTime, repeat : BOOLEAN]
NoFeatures == [end |-> 0, tops |-> {}, state |-> "", resolvedAt |-> 0, repeat |-> FALSE]

NoRun == [at |-> "idle", observed |-> NoFeatures, prior |-> NoFeatures]

(* The first run has left its snapshot, at some hour of the day. *)
EntryInit ==
    /\ now \in 1..DayLength
    /\ transfers \in SUBSET (Counterparties \X {now})
    /\ features = [d \in Days |->
                      IF d = Day(now)
                      THEN [NoFeatures EXCEPT !.end = now, !.tops = {m[1] : m \in transfers}]
                      ELSE NoFeatures]
    /\ run = [r \in Runners |-> NoRun]
    /\ runs = 0
    /\ disturbed = FALSE

(* FirstConnectionCandidateMetrics: met in the last 24 h, and not before. *)
FirstSeen ==
    {c \in Counterparties :
        /\ \E t \in 1..now : <<c, t>> \in transfers /\ t + DayLength >= now
        /\ ~\E t \in 1..now : <<c, t>> \in transfers /\ t + DayLength < now}

(* ReadLatestWalletEntryFeaturesBefore *)
Prior(t) ==
    {d \in Days : /\ features[d].end \in 1..(t - 1)
                  /\ \A e \in Days : features[e].end < t => features[e].end <= features[d].end}

(* Mutant of Matures: what is resolved is looked at again. *)
MaturesAgain(f) == f.tops # {}

(* Mutant of ObservationEnd: without the end of the maturity window. *)
ObservationEndOpen(f, t) == t

Matures(f) == ~Resolved(f) /\ f.tops # {}

ObservationEnd(f, t) == IF t > f.end + Maturity THEN f.end + Maturity ELSE t

(* ReadWalletEntryFeatureFollowThrough: the later meetings with the counterparties *)
Met(f, until) == {m \in transfers : m[1] \in f.tops /\ m[2] > f.end /\ m[2] <= until}

(* The query casts hours to int, which rounds them: 23.5 are 24. *)
Hours(halves) == (halves + 1) \div 2

Sustained(f, until) ==
    LET met == Met(f, until)
    IN
    /\ \E m \in met, n \in met : m[1] # n[1]
    /\ \E m \in met : Hours(m[2] - f.end) >= Persistence

(* maturePriorEntryFeatures *)
Outcome(f, t) ==
    LET until == ObservationEnd(f, t)
        state == IF Sustained(f, until) THEN "sustained"
                 ELSE IF until >= f.end + Maturity THEN "short_lived" ELSE "monitoring"
    IN
    [f EXCEPT !.state = state, !.resolvedAt = IF state = "monitoring" THEN 0 ELSE until]
-----------------------------------------------------------------------------
RunGoes(r, label) ==
    run' = [run EXCEPT ![r] = IF label = "idle" THEN NoRun ELSE [@ EXCEPT !.at = label]]

(* ReadFirstConnectionCandidateMetrics looks at the present, whatever moment the run  *)
(* is for; a signal given by hand comes without counterparties.  Whether the run      *)
(* claims a repeated success depends on the wallets met there, too.                   *)
RunSnapshot(r, t, claims) ==
    /\ run[r].at = "idle" /\ runs < MaxRuns
    /\ \E tops \in {FirstSeen, {}} :
          /\ claims => tops # {}
          /\ run' = [run EXCEPT ![r] = [at |-> "prior",
                        observed |-> [NoFeatures EXCEPT !.end = t, !.tops = tops, !.repeat = claims],
                        prior |-> NoFeatures]]
    /\ runs' = runs + 1
    /\ disturbed' = (disturbed \/ t < now \/ \E s \in Runners : run[s].at # "idle")
    /\ UNCHANGED <<now, transfers, features>>

ReadPrior(r) ==
    LET matured == {d \in Prior(run[r].observed.end) : Matures(features[d])}
    IN
    /\ run[r].at = "prior"
    /\ \/ matured = {} /\ RunGoes(r, "count")
       \/ \E d \in matured :
             run' = [run EXCEPT ![r].at = "follow", ![r].prior = features[d]]
    /\ UNCHANGED <<now, transfers, features, runs, disturbed>>

ReadFollowThrough(r) ==
    /\ run[r].at = "follow"
    /\ run' = [run EXCEPT ![r].at = "mature",
                          ![r].prior = Outcome(run[r].prior, run[r].observed.end)]
    /\ UNCHANGED <<now, transfers, features, runs, disturbed>>

(* Mutant of UpsertEntry: the row of the day on which the run writes. *)
UpsertEntryToday(f) == features' = [features EXCEPT ![Day(now)] = f]

(* UpsertWalletEntryFeatures: the day's row is replaced with everything it says. *)
UpsertEntry(f) == features' = [features EXCEPT ![Day(f.end)] = f]

UpsertMatured(r) ==
    /\ run[r].at = "mature"
    /\ UpsertEntry(run[r].prior)
    /\ RunGoes(r, "count")
    /\ UNCHANGED <<now, transfers, runs, disturbed>>

(* ReadHistoricalSustainedEntryOutcomeCount > 0 *)
HasHistory(t) == \E d \in Days : features[d].state = "sustained" /\ features[d].end < t

ReadHistoricalCount(r) ==
    /\ run[r].at = "count"
    /\ run' = [run EXCEPT ![r].at = "upsert",
                          ![r].observed.repeat = @ /\ HasHistory(run[r].observed.end)]
    /\ UNCHANGED <<now, transfers, features, runs, disturbed>>

UpsertObserved(r) ==
    /\ run[r].at = "upsert"
    /\ UpsertEntry(run[r].observed)
    /\ RunGoes(r, "idle")
    /\ UNCHANGED <<now, transfers, runs, disturbed>>

(* A call fails, or the worker stops. *)
RunFails(r) ==
    /\ run[r].at # "idle"
    /\ RunGoes(r, "idle")
    /\ UNCHANGED <<now, transfers, features, runs, disturbed>>
-----------------------------------------------------------------------------
Recent == {t \in 1..now : t + MaxLate >= now}

(* An ingest stores a transfer, at once or after a while. *)
StoreTransfer(c, t) ==
    /\ Cardinality(transfers) < MaxTransfers
    /\ transfers' = transfers \cup {<<c, t>>}
    /\ UNCHANGED <<now, features, run, runs, disturbed>>

Tick ==
    /\ now < MaxTime
    /\ now' = now + 1
    /\ UNCHANGED <<transfers, features, run, runs, disturbed>>

RunStep(r) ==
    \/ ReadPrior(r) \/ ReadFollowThrough(r) \/ UpsertMatured(r)
    \/ ReadHistoricalCount(r) \/ UpsertObserved(r) \/ RunFails(r)

EntryNext ==
    \/ \E r \in Runners :
          \/ \E t \in Recent, claims \in BOOLEAN : RunSnapshot(r, t, claims)
          \/ RunStep(r)
    \/ \E c \in Counterparties, t \in Recent : StoreTransfer(c, t)
    \/ Tick

EntrySpec == EntryInit /\ [][EntryNext]_entryVars
-----------------------------------------------------------------------------
EntryTypeOK ==
    /\ now \in 1..MaxTime
    /\ transfers \subseteq Counterparties \X (1..MaxTime)
    /\ features \in [Days -> Features \cup {NoFeatures}]
    /\ \A d \in Days : features[d] # NoFeatures => Day(features[d].end) = d
    /\ run \in [Runners -> {NoRun} \cup
                   [at : {"prior", "follow", "mature", "count", "upsert"},
                    observed : Features, prior : Features \cup {NoFeatures}]]
    /\ runs \in 0..MaxRuns /\ disturbed \in BOOLEAN

(* A snapshot is called sustained only for two counterparties met again within 72 h, *)
(* one of them no more than half an hour short of 24 h later, whichever runs         *)
(* overlap, repeat or look back.                                                     *)
SustainedIsEarned ==
    \A d \in Days : features[d].state = "sustained" =>
        LET met == Met(features[d], features[d].end + Maturity)
        IN  /\ \E m \in met, n \in met : m[1] # n[1]
            /\ \E m \in met : m[2] + 1 >= features[d].end + 2 * Persistence

(* An outcome is final: neither later transfers nor later runs change a snapshot     *)
(* once it is resolved.  A run that overlapped another, or looked at an earlier      *)
(* moment, may; and an outcome resolved on the snapshot's own day, as the rounded    *)
(* hours of one of 00:10 allow at 23:50, goes with it at the day's next snapshot.    *)
OutcomesStay ==
    [][\A d \in Days :
          Resolved(features[d]) /\ ~disturbed /\ Day(features[d].resolvedAt) # d
              => features'[d] = features[d]]_entryVars
=============================================================================
