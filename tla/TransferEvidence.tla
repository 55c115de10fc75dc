-------------------------- MODULE TransferEvidence --------------------------
(***************************************************************************)
(* The transfer evidence of one wallet: a shadow-exit run reads the        *)
(* transfers of the last 24 h, looks up what each receiver did next, and   *)
(* replaces the day's rows (db/bridge_exchange_evidence.go, and in the     *)
(* same way db/treasury_mm_evidence.go).                                   *)
(*                                                                         *)
(* The replacement is a delete for each table and an insert for each row,  *)
(* in no transaction; a row that is there already, by its key, keeps the   *)
(* day it was stored for.                                                  *)
(***************************************************************************)
EXTENDS Naturals

CONSTANTS
    Transfers, SentAt,      \* outbound transfers and when they happened
    Tables, TableOf,        \* where a transfer is evidence
    Unfinished,             \* tables that keep a transfer whose receiver has done nothing yet
    ShadowRuns,             \* runs that may be under way at once
    Lookback,               \* 24 h, the window and the day, in units of time
    MaxMoment, MaxSnapshots, MaxFound      \* bounds

ASSUME TransfersAssumption ==
    /\ SentAt \in [Transfers -> 1..MaxMoment] /\ TableOf \in [Transfers -> Tables]
    /\ Unfinished \subseteq Tables
    /\ Lookback \in Nat \ {0} /\ MaxMoment \in Nat \ {0}
    /\ MaxSnapshots \in Nat /\ MaxFound \in Nat

VARIABLES
    moment,
    found,                  \* transactions: how often what a receiver did next has changed
    rows,                   \* the evidence tables
    snap,                   \* each run: its next call, its day, what it has to do
    snapshots,              \* bounded counter
    reported                \* history: what the last run of a day saw, if no other disturbed it

evidenceVars == <<moment, found, rows, snap, snapshots, reported>>

EvidenceDays == 0..(MaxMoment \div Lookback)
EvidenceDay(t) == t \div Lookback

(* An observation: the transfer and the downstream transaction, 0 when there is none. *)
Observations == [transfer : Transfers, downstream : 0..MaxFound]

(* A row is found by its observation: the keys of the tables leave its day out. *)
EvidenceRows == [seen : Observations, day : EvidenceDays]
Stored(o) == \E row \in rows : row.seen = o

NoSnapshot == [at |-> "idle", day |-> 0, todo |-> {}, report |-> {}, met |-> FALSE]

Unsettled == [settled |-> FALSE, report |-> {}]

EvidenceInit ==
    /\ moment = 1
    /\ found = [t \in Transfers |-> 0]
    /\ rows = {}
    /\ snap = [s \in ShadowRuns |-> NoSnapshot]
    /\ snapshots = 0
    /\ reported = [d \in EvidenceDays |-> Unsettled]
-----------------------------------------------------------------------------
(* ReadWalletBridgeExchangeEvidence: the transfers of the window, without an end *)
InWindow == {t \in Transfers : SentAt[t] <= moment /\ SentAt[t] + Lookback >= moment}

ReadTransactions(s) ==
    LET others == \E r \in ShadowRuns : snap[r].at # "idle"
    IN
    /\ snap[s].at = "idle" /\ snapshots < MaxSnapshots
    /\ snap' = [r \in ShadowRuns |->
                  IF r = s THEN [at |-> "look", day |-> EvidenceDay(moment), todo |-> InWindow,
                                 report |-> {}, met |-> others]
                  ELSE [snap[r] EXCEPT !.met = snap[r].at # "idle"]]
    /\ snapshots' = snapshots + 1
    /\ reported' = [reported EXCEPT ![EvidenceDay(moment)] = Unsettled]
    /\ UNCHANGED <<moment, found, rows>>

(* lookupDownstreamTransactions: the first one, as far as it is stored by now *)
BuildObservation(s, t) ==
    LET kept == found[t] > 0 \/ TableOf[t] \in Unfinished
    IN
    /\ snap[s].at = "look" /\ t \in snap[s].todo
    /\ snap' = [snap EXCEPT ![s].todo = @ \ {t},
                            ![s].report = @ \cup
                                IF kept THEN {[transfer |-> t, downstream |-> found[t]]} ELSE {}]
    /\ UNCHANGED <<moment, found, rows, snapshots, reported>>

(* From here on "todo" holds the tables whose rows of the day are still there. *)
BeginReplace(s) ==
    /\ snap[s].at = "look" /\ snap[s].todo = {}
    /\ snap' = [snap EXCEPT ![s].at = "delete", ![s].todo = Tables]
    /\ UNCHANGED <<moment, found, rows, snapshots, reported>>

OfDay(row, table, day) == TableOf[row.seen.transfer] = table /\ row.day = day

DeleteForDay(s, table) ==
    /\ snap[s].at = "delete" /\ table \in snap[s].todo
    /\ rows' = {row \in rows : ~OfDay(row, table, snap[s].day)}
    /\ snap' = [snap EXCEPT ![s].todo = @ \ {table}]
    /\ UNCHANGED <<moment, found, snapshots, reported>>

(* The features of the day are written from the report; now "todo" is what is left to insert. *)
UpsertFeatures(s) ==
    /\ snap[s].at = "delete" /\ snap[s].todo = {}
    /\ snap' = [snap EXCEPT ![s].at = "insert", ![s].todo = snap[s].report]
    /\ UNCHANGED <<moment, found, rows, snapshots, reported>>

Insert(s, o) ==
    /\ snap[s].at = "insert" /\ o \in snap[s].todo
    /\ rows' = rows \cup IF Stored(o) THEN {} ELSE {[seen |-> o, day |-> snap[s].day]}
    /\ snap' = [snap EXCEPT ![s].todo = @ \ {o}]
    /\ UNCHANGED <<moment, found, snapshots, reported>>

Settle(s) ==
    /\ snap[s].at = "insert" /\ snap[s].todo = {}
    /\ reported' = [reported EXCEPT ![snap[s].day] =
                       [settled |-> ~snap[s].met, report |-> snap[s].report]]
    /\ snap' = [snap EXCEPT ![s] = NoSnapshot]
    /\ UNCHANGED <<moment, found, rows, snapshots>>

(* A statement fails or the worker stops, between any two statements. *)
SnapshotFails(s) ==
    /\ snap[s].at # "idle"
    /\ snap' = [snap EXCEPT ![s] = NoSnapshot]
    /\ UNCHANGED <<moment, found, rows, snapshots, reported>>
-----------------------------------------------------------------------------
(* An ingest stores what the receiver did next, or something it did before that. *)
StoreDownstream(t) ==
    /\ found[t] < MaxFound /\ SentAt[t] <= moment
    /\ found' = [found EXCEPT ![t] = @ + 1]
    /\ UNCHANGED <<moment, rows, snap, snapshots, reported>>

Pass ==
    /\ moment < MaxMoment
    /\ moment' = moment + 1
    /\ UNCHANGED <<found, rows, snap, snapshots, reported>>

SnapshotStep(s) ==
    \/ \E t \in Transfers : BuildObservation(s, t)
    \/ BeginReplace(s)
    \/ \E table \in Tables : DeleteForDay(s, table)
    \/ UpsertFeatures(s)
    \/ \E o \in Observations : Insert(s, o)
    \/ Settle(s)
    \/ SnapshotFails(s)

EvidenceNext ==
    \/ \E s \in ShadowRuns : ReadTransactions(s) \/ SnapshotStep(s)
    \/ \E t \in Transfers : StoreDownstream(t)
    \/ Pass

EvidenceSpec == EvidenceInit /\ [][EvidenceNext]_evidenceVars
-----------------------------------------------------------------------------
EvidenceTypeOK ==
    /\ moment \in 1..MaxMoment
    /\ found \in [Transfers -> 0..MaxFound]
    /\ rows \subseteq EvidenceRows
    /\ \A s \in ShadowRuns :
          /\ snap[s].at \in {"idle", "look", "delete", "insert"} /\ snap[s].day \in EvidenceDays
          /\ snap[s].report \subseteq Observations /\ snap[s].met \in BOOLEAN
          /\ snap[s].todo \subseteq (CASE snap[s].at = "look" -> Transfers
                                       [] snap[s].at = "delete" -> Tables
                                       [] OTHER -> Observations)
    /\ snapshots \in 0..MaxSnapshots
    /\ reported \in [EvidenceDays -> [settled : BOOLEAN, report : SUBSET Observations]]

(* After a run that no other overlapped and nothing stopped, the rows of its day are *)
(* observations it made, and each of them is stored; later runs, for other days, and *)
(* their failures change neither.                                                    *)
EvidenceOfLatestRun ==
    \A d \in EvidenceDays : reported[d].settled =>
        /\ \A row \in rows : row.day = d => row.seen \in reported[d].report
        /\ \A o \in reported[d].report : Stored(o)
=============================================================================
