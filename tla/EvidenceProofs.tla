---------------------------- MODULE EvidenceProofs ----------------------------
(***************************************************************************)
(* Proofs about the evidence that workers write: SignalRuns, for any       *)
(* snapshots, however they overlap, fail or die; EntryFeatures, for any    *)
(* counterparties and runs; TransferEvidence, for any transfers and runs;  *)
(* and about the scores made of evidence: SignalScores, for any number of  *)
(* observations, and ClusterGraphs, for any graph and any order of scans;  *)
(* and about the index made of the curated lists: CuratedLists, for any    *)
(* lists, keys, changes and runs.                                          *)
(*                                                                         *)
(* Each part goes the same way: what one run's step does to the records is *)
(* summed up first, and the invariant is kept by what is summed up.  The   *)
(* scores rest on sums over sets, whose recursion is unfolded by induction *)
(* on the least counterexample, as are the folds of the curated lists.     *)
(***************************************************************************)
EXTENDS SignalRuns, EntryFeatures, TransferEvidence, ClusterGraphs, CuratedLists,
        FoldLemmas, FiniteSetTheorems, TLAPS
-----------------------------------------------------------------------------
(* Signal runs. *)
Normal == {e \in FindingEntries : Normalizes(e)}
Convergence == <<Entry("smart_money_convergence")>>
HasBundle(r) == bundle[<<"smart_money_convergence", observedAt[r]>>] # NoWriter
AtBundle(r) == call[r] \in {"bundle", "interpreted bundle"}

SignalTypes ==
    /\ kind \in [Snapshots -> Kinds] /\ observedAt \in [Snapshots -> Moments]
    /\ call \in [Snapshots -> Calls]
    /\ entries \in [Snapshots -> Seq(FindingEntries)]
    /\ candidate \in [FindingKeys -> Snapshots \cup {NoWriter}]
    /\ bundle \in [FindingKeys -> Snapshots \cup {NoWriter}]
    /\ jobRuns \in [Snapshots -> {"none", "failed", "succeeded"}]

(* How far a run has come: a shadow exit ends at its first finding, the others have their
   finding's bundle when they go on, and only a failed call ends them. *)
RunCame(r) ==
    /\ kind[r] = "shadow exit"
          => /\ call[r] \in {"idle", "signal", "finding", "failed", "dead"}
             /\ call[r] = "finding" => entries[r] # <<>> /\ ~Normalizes(Head(entries[r]))
    /\ kind[r] # "shadow exit"
          => /\ call[r] = "finding" => entries[r] = Convergence \/ (entries[r] = <<>> /\ HasBundle(r))
             /\ call[r] = "bundle" => entries[r] = Convergence
             /\ call[r] \in {"labels", "interpreted", "interpreted bundle", "tracked", "cache", "alerts",
                             "job run", "reported"} => HasBundle(r)
             /\ call[r] \in {"interpreted", "interpreted bundle"} => entries[r] \in Seq(Normal)
             /\ call[r] = "interpreted bundle" => entries[r] # <<>>
             /\ call[r] = "failed" => r \in broken
    /\ call[r] = "dead" => r \in broken
    /\ call[r] \notin {"idle", "signal", "failed", "dead"} => r \in recorded
    /\ call[r] \in {"cache", "alerts", "job run", "reported"} => r \in scored
    /\ call[r] \in {"job run", "reported"} => r \in dispatched
    /\ jobRuns[r] = "succeeded" => call[r] = "reported"

(* Who is about to write a bundle wrote the candidate last, or met another there. *)
WritersMet == \A r \in Snapshots : AtBundle(r) => candidate[KeyOf(r)] = r \/ KeyOf(r) \in contended

SignalInv == SignalTypes /\ (\A r \in Snapshots : RunCame(r)) /\ WritersMet /\ FindingsAreWhole

(* The findings of an interpretation are recorded; a preparation of an exit is not. *)
LEMMA NormalEntries ==
    /\ Entry("smart_money_convergence") \in Normal /\ Entry("fund_adjacent_activity") \in Normal
    /\ Entry("high_conviction_entry") \in Normal
    /\ ~Normalizes(Bare("exit_preparation"))
BY TypeAssumption DEF Normal, Normalizes, Entry, Bare, FindingEntries, FindingTypes

(* A shadow exit's findings begin with the preparation of the exit. *)
LEMMA ShadowEntries ==
    ASSUME NEW sight
    PROVE  /\ ShadowExitEntries(sight) \in Seq(FindingEntries) /\ ShadowExitEntries(sight) # <<>>
           /\ Head(ShadowExitEntries(sight)) = Bare("exit_preparation")
<1> DEFINE s1 == <<Bare("exit_preparation"), Base>>
           s2 == IF "bridge escapes" \in sight THEN <<Bare("cross_chain_rotation"), Base>> ELSE <<>>
           s3 == IF "exchange proximity" \in sight THEN <<Bare("cex_deposit_pressure"), Base>> ELSE <<>>
<1>1. /\ Bare("exit_preparation") \in FindingEntries /\ Base \in FindingEntries
      /\ Bare("cross_chain_rotation") \in FindingEntries /\ Bare("cex_deposit_pressure") \in FindingEntries
  BY DEF Bare, Base, FindingEntries, FindingTypes
<1>2. s1 \in Seq(FindingEntries) /\ s2 \in Seq(FindingEntries) /\ s3 \in Seq(FindingEntries)
  <2> HIDE DEF s1, s2, s3
  <2>1. ASSUME NEW e1 \in FindingEntries, NEW e2 \in FindingEntries
        PROVE  <<e1, e2>> \in Seq(FindingEntries) /\ <<>> \in Seq(FindingEntries)
    OBVIOUS
  <2> QED
    BY <1>1, <2>1 DEF s1, s2, s3
<1>3. Len(s1) = 2 /\ s1[1] = Bare("exit_preparation")
  OBVIOUS
<1>4. ShadowExitEntries(sight) = (s1 \o s2) \o s3
  BY DEF ShadowExitEntries
<1> HIDE DEF s1, s2, s3
<1>5. /\ s1 \o s2 \in Seq(FindingEntries) /\ Len(s1 \o s2) >= 2 /\ (s1 \o s2)[1] = s1[1]
  <2>1. s1 \o s2 \in Seq(FindingEntries) /\ Len(s1 \o s2) = Len(s1) + Len(s2)
    BY <1>2
  <2>2. Len(s2) \in Nat /\ 1 \in 1..Len(s1)
    BY <1>2, <1>3
  <2>3. (s1 \o s2)[1] = s1[1]
    BY <1>2, <2>2
  <2> QED
    BY <1>3, <2>1, <2>2, <2>3
<1>6. /\ (s1 \o s2) \o s3 \in Seq(FindingEntries) /\ Len((s1 \o s2) \o s3) >= 2
      /\ ((s1 \o s2) \o s3)[1] = (s1 \o s2)[1]
  <2> DEFINE u == s1 \o s2
  <2>1. u \in Seq(FindingEntries) /\ Len(u) >= 2 /\ Len(u) \in Nat
    BY <1>5
  <2> HIDE DEF u
  <2>2. u \o s3 \in Seq(FindingEntries) /\ Len(u \o s3) = Len(u) + Len(s3) /\ Len(s3) \in Nat
    BY <1>2, <2>1
  <2>3. 1 \in 1..Len(u)
    BY <2>1
  <2>4. (u \o s3)[1] = u[1]
    BY <1>2, <2>1, <2>3
  <2>5. (u \o s3) \in Seq(FindingEntries) /\ Len(u \o s3) >= 2 /\ (u \o s3)[1] = u[1]
    BY <2>1, <2>2, <2>4
  <2> QED
    BY <2>5 DEF u
<1> QED
  BY <1>3, <1>4, <1>5, <1>6

(* So a shadow exit has no first finding that is recorded, and each other score has one. *)
LEMMA OwnEntriesAre ==
    ASSUME NEW k \in Kinds, NEW sight
    PROVE  /\ OwnEntries(k, sight) \in Seq(FindingEntries)
           /\ k # "shadow exit" => OwnEntries(k, sight) = Convergence
           /\ k = "shadow exit" => /\ OwnEntries(k, sight) # <<>>
                                   /\ ~Normalizes(Head(OwnEntries(k, sight)))
<1>1. CASE k = "shadow exit"
  <2>1. OwnEntries(k, sight) = ShadowExitEntries(sight)
    BY <1>1 DEF OwnEntries
  <2> QED
    BY <1>1, <2>1, ShadowEntries, NormalEntries
<1>2. CASE k # "shadow exit"
  <2>1. OwnEntries(k, sight) = Convergence
    BY <1>2 DEF OwnEntries, Kinds, ClusterEntries, FirstConnectionEntries, Convergence
  <2>2. Convergence \in Seq(FindingEntries)
    BY NormalEntries DEF Normal, Convergence
  <2> QED
    BY <1>2, <2>1, <2>2
<1> QED
  BY <1>1, <1>2

(* An interpretation yields findings that are recorded, or none. *)
LEMMA InterpretedAre ==
    ASSUME NEW k, NEW sight, NEW fund
    PROVE  InterpretedEntries(k, sight, fund) \in Seq(Normal)
<1> DEFINE allowed == AllowedBy(k, sight)
           s1 == IF "fund_adjacent_activity" \in allowed /\ fund
                 THEN <<Entry("fund_adjacent_activity")>> ELSE <<>>
           s2 == IF "high_conviction_entry" \in allowed THEN <<Entry("high_conviction_entry")>> ELSE <<>>
<1>1. InterpretedEntries(k, sight, fund) = s1 \o s2
  BY DEF InterpretedEntries
<1> HIDE DEF allowed
<1>2. s1 \in Seq(Normal) /\ s2 \in Seq(Normal)
  BY NormalEntries
<1> HIDE DEF s1, s2
<1> QED
  BY <1>1, <1>2

(* The first of such findings is recorded. *)
LEMMA HeadsNormal ==
    /\ Normalizes(Head(Convergence))
    /\ \A s \in Seq(Normal) : s # <<>> => Normalizes(Head(s))
<1>1. Head(Convergence) \in Normal
  BY NormalEntries DEF Convergence
<1>2. \A s \in Seq(Normal) : s # <<>> => Head(s) \in Normal
  OBVIOUS
<1> QED
  BY <1>1, <1>2 DEF Normal

(* They are findings. *)
LEMMA NormalSeq == Seq(Normal) \subseteq Seq(FindingEntries)
<1>1. Normal \subseteq FindingEntries
  BY DEF Normal
<1> QED
  BY <1>1

(* A run that has a finding to record has its key, and so has one that writes a bundle. *)
LEMMA KeyTyped ==
    ASSUME SignalTypes, NEW r \in Snapshots, entries[r] # <<>>, Normalizes(Head(entries[r]))
    PROVE  KeyOf(r) \in FindingKeys
<1>1. Head(entries[r]) \in FindingEntries /\ observedAt[r] \in Moments
  <2>1. entries[r] \in Seq(FindingEntries) /\ observedAt[r] \in Moments
    BY DEF SignalTypes
  <2> QED
    BY <2>1
<1> QED
  BY <1>1 DEF KeyOf, FindingKeys, FindingEntries, Normalizes

(* A run about to write a bundle has the finding it is for, and is no shadow exit. *)
LEMMA BundleKeyTyped ==
    ASSUME SignalTypes, NEW r \in Snapshots, RunCame(r), AtBundle(r)
    PROVE  /\ KeyOf(r) \in FindingKeys /\ entries[r] # <<>> /\ kind[r] # "shadow exit"
           /\ call[r] = "bundle" => KeyOf(r) = <<"smart_money_convergence", observedAt[r]>>
<1>1. kind[r] # "shadow exit"
  BY DEF RunCame, AtBundle
<1>2. CASE call[r] = "bundle"
  <2>1. entries[r] = Convergence
    BY <1>1, <1>2 DEF RunCame
  <2>2. Head(entries[r]) = Entry("smart_money_convergence") /\ entries[r] # <<>>
    BY <2>1 DEF Convergence
  <2>3. Normalizes(Head(entries[r]))
    BY <2>2, NormalEntries DEF Normal
  <2> QED
    <3>1. KeyOf(r) \in FindingKeys
      BY <2>2, <2>3, KeyTyped
    <3>2. KeyOf(r) = <<"smart_money_convergence", observedAt[r]>>
      BY <2>2 DEF KeyOf, Entry
    <3> QED
      BY <1>1, <2>2, <3>1, <3>2
<1>3. CASE call[r] = "interpreted bundle"
  <2>1. entries[r] \in Seq(Normal) /\ entries[r] # <<>>
    BY <1>1, <1>3 DEF RunCame
  <2>2. Head(entries[r]) \in Normal
    BY <2>1
  <2> QED
    BY <1>1, <1>3, <2>1, <2>2, KeyTyped DEF Normal
<1> QED
  BY <1>2, <1>3 DEF AtBundle

(* The runs that do not move; nothing that was recorded, told or written is taken back. *)
OthersRest(r) ==
    /\ SignalTypes' /\ kind' = kind /\ observedAt' = observedAt
    /\ \A q \in Snapshots \ {r} :
          call'[q] = call[q] /\ entries'[q] = entries[q] /\ jobRuns'[q] = jobRuns[q]
    /\ recorded \subseteq recorded' /\ scored \subseteq scored' /\ dispatched \subseteq dispatched'
    /\ broken \subseteq broken' /\ contended \subseteq contended'
    /\ \A k \in FindingKeys : bundle[k] # NoWriter => bundle'[k] # NoWriter

(* A run that rests has come as far as before. *)
LEMMA OthersCame ==
    ASSUME SignalTypes, NEW r \in Snapshots, OthersRest(r), NEW q \in Snapshots \ {r}, RunCame(q)
    PROVE  RunCame(q)'
<1>1. HasBundle(q) => HasBundle(q)'
  <2>1. <<"smart_money_convergence", observedAt[q]>> \in FindingKeys
    BY DEF SignalTypes, FindingKeys, FindingTypes
  <2> QED
    BY <2>1 DEF OthersRest, HasBundle
<1> QED
  BY <1>1 DEF RunCame, OthersRest

(* The next call of one run is set. *)
LEMMA CallSet ==
    ASSUME SignalTypes, NEW r \in Snapshots, NEW c \in Calls, Goes(r, c)
    PROVE  /\ call' \in [Snapshots -> Calls] /\ call'[r] = c
           /\ \A q \in Snapshots \ {r} : call'[q] = call[q]
BY DEF SignalTypes, Goes

(* The findings that one run still has to record are set. *)
LEMMA EntriesSet ==
    ASSUME SignalTypes, NEW r \in Snapshots, NEW s \in Seq(FindingEntries),
           entries' = [entries EXCEPT ![r] = s]
    PROVE  /\ entries' \in [Snapshots -> Seq(FindingEntries)] /\ entries'[r] = s
           /\ \A q \in Snapshots \ {r} : entries'[q] = entries[q]
BY DEF SignalTypes

(* Most calls write no row of a finding, and come from and to calls that do not. *)
Quiet(r) ==
    /\ candidate' = candidate /\ bundle' = bundle /\ contended' = contended
    /\ ~AtBundle(r) /\ ~(AtBundle(r))'

(* Each call of a run leaves the other runs alone, and the run as far as RunCame says. *)
LEMMA ReadInputsRests ==
    ASSUME SignalTypes, NEW r \in Snapshots, RunCame(r), ReadInputs(r)
    PROVE  OthersRest(r) /\ Quiet(r) /\ RunCame(r)'
<1>1. call'[r] = "signal" /\ call' \in [Snapshots -> Calls] /\ \A q \in Snapshots \ {r} : call'[q] = call[q]
  BY CallSet DEF ReadInputs, Calls
<1> QED
  BY <1>1 DEF ReadInputs, OthersRest, Quiet, AtBundle, RunCame, SignalTypes

(* The signal event is stored, with the findings still to record. *)
LEMMA RecordSignalRests ==
    ASSUME SignalTypes, NEW r \in Snapshots, RunCame(r), RecordSignalEvent(r)
    PROVE  OthersRest(r) /\ Quiet(r) /\ RunCame(r)'
<1>1. call'[r] = "finding" /\ call' \in [Snapshots -> Calls] /\ \A q \in Snapshots \ {r} : call'[q] = call[q]
  BY CallSet DEF RecordSignalEvent, Calls
<1> PICK s : s = OwnEntries(kind[r], facts[r])
  OBVIOUS
<1>2. kind[r] \in Kinds
  BY DEF SignalTypes
<1>3. /\ s \in Seq(FindingEntries) /\ (kind[r] # "shadow exit" => s = Convergence)
      /\ (kind[r] = "shadow exit" => s # <<>> /\ ~Normalizes(Head(s)))
  BY <1>2, OwnEntriesAre
<1>4. /\ entries' \in [Snapshots -> Seq(FindingEntries)] /\ entries'[r] = s
      /\ \A q \in Snapshots \ {r} : entries'[q] = entries[q]
  BY <1>3, EntriesSet DEF RecordSignalEvent
<1>5. /\ call[r] = "signal" /\ kind' = kind /\ recorded' = recorded \cup {r}
      /\ UNCHANGED <<observedAt, candidate, bundle, scored, dispatched, jobRuns, broken, contended>>
  BY DEF RecordSignalEvent
<1>6. OthersRest(r) /\ Quiet(r)
  BY <1>1, <1>4, <1>5 DEF OthersRest, Quiet, AtBundle, SignalTypes
<1>7. RunCame(r)'
  BY <1>1, <1>3, <1>4, <1>5 DEF RunCame
<1> QED
  BY <1>6, <1>7

(* A run without findings goes on to the labels or to the status. *)
LEMMA NoMoreRests ==
    ASSUME SignalTypes, NEW r \in Snapshots, RunCame(r), NoMoreFindings(r)
    PROVE  OthersRest(r) /\ Quiet(r) /\ RunCame(r)'
<1> PICK c : c = AfterEntries(call[r])
  OBVIOUS
<1>1. c = (IF call[r] = "finding" THEN "labels" ELSE "tracked") /\ c \in Calls
  BY DEF AfterEntries, Calls
<1>2. call'[r] = c /\ call' \in [Snapshots -> Calls] /\ \A q \in Snapshots \ {r} : call'[q] = call[q]
  BY <1>1, CallSet DEF NoMoreFindings
<1>3. entries[r] = <<>> /\ Convergence # <<>>
  BY DEF NoMoreFindings, Convergence
<1>4. OthersRest(r) /\ Quiet(r)
  BY <1>1, <1>2 DEF NoMoreFindings, OthersRest, Quiet, AtBundle, SignalTypes
<1>5. RunCame(r)'
  BY <1>1, <1>2, <1>3 DEF NoMoreFindings, RunCame, HasBundle
<1> QED
  BY <1>4, <1>5

(* A finding that is not recorded ends the run. *)
LEMMA RefuseRests ==
    ASSUME SignalTypes, NEW r \in Snapshots, RunCame(r), RefuseFinding(r)
    PROVE  OthersRest(r) /\ Quiet(r) /\ RunCame(r)'
<1>1. call'[r] = "failed" /\ call' \in [Snapshots -> Calls] /\ \A q \in Snapshots \ {r} : call'[q] = call[q]
  BY CallSet DEF RefuseFinding, Calls, Ended
<1>2. kind[r] = "shadow exit"
  <2> SUFFICES ASSUME kind[r] # "shadow exit" PROVE FALSE
    OBVIOUS
  <2>1. entries[r] # <<>> /\ ~Normalizes(Head(entries[r])) /\ call[r] \in {"finding", "interpreted"}
    BY DEF RefuseFinding
  <2>2. entries[r] = Convergence \/ entries[r] \in Seq(Normal)
    BY <2>1 DEF RunCame
  <2> QED
    BY <2>1, <2>2, HeadsNormal
<1>3. OthersRest(r) /\ Quiet(r)
  BY <1>1 DEF RefuseFinding, OthersRest, Quiet, AtBundle, SignalTypes
<1>4. RunCame(r)'
  BY <1>1, <1>2 DEF RefuseFinding, RunCame
<1> QED
  BY <1>3, <1>4

(* The labels are read, and interpreted as findings. *)
LEMMA ReadLabelsRests ==
    ASSUME SignalTypes, NEW r \in Snapshots, RunCame(r), ReadWalletLabels(r)
    PROVE  OthersRest(r) /\ Quiet(r) /\ RunCame(r)'
<1>1. /\ call'[r] = "interpreted" /\ call' \in [Snapshots -> Calls]
      /\ \A q \in Snapshots \ {r} : call'[q] = call[q]
  BY CallSet DEF ReadWalletLabels, Calls
<1>2. PICK s \in Seq(Normal) : entries' = [entries EXCEPT ![r] = s]
  BY InterpretedAre DEF ReadWalletLabels
<1>3. /\ entries' \in [Snapshots -> Seq(FindingEntries)] /\ entries'[r] = s
      /\ \A q \in Snapshots \ {r} : entries'[q] = entries[q]
  BY <1>2, NormalSeq, EntriesSet
<1>4. /\ call[r] = "labels" /\ kind' = kind
      /\ UNCHANGED <<observedAt, candidate, bundle, recorded, scored, dispatched, jobRuns, broken, contended>>
  BY DEF ReadWalletLabels
<1>5. OthersRest(r) /\ Quiet(r)
  BY <1>1, <1>3, <1>4 DEF OthersRest, Quiet, AtBundle, SignalTypes
<1>6. RunCame(r)'
  BY <1>1, <1>3, <1>4 DEF RunCame, HasBundle
<1> QED
  BY <1>5, <1>6

(* The status, the cache and the alerts. *)
LEMMA LastCallsRest ==
    ASSUME SignalTypes, NEW r \in Snapshots, RunCame(r),
           \/ MarkWalletScored(r) \/ InvalidateSummary(r)
           \/ DispatchWalletSignal(r)
    PROVE  OthersRest(r) /\ Quiet(r) /\ RunCame(r)'
<1> PICK c : call'[r] = c
  OBVIOUS
<1>1. /\ call' \in [Snapshots -> Calls] /\ \A q \in Snapshots \ {r} : call'[q] = call[q]
      /\ \/ MarkWalletScored(r) /\ call'[r] = "cache"
         \/ InvalidateSummary(r) /\ call'[r] = "alerts"
         \/ DispatchWalletSignal(r) /\ call'[r] = "job run"
  <2>1. "cache" \in Calls /\ "alerts" \in Calls /\ "job run" \in Calls
    BY DEF Calls
  <2> QED
    BY <2>1, CallSet DEF MarkWalletScored, InvalidateSummary, DispatchWalletSignal
<1>2. OthersRest(r) /\ Quiet(r)
  BY <1>1 DEF MarkWalletScored, InvalidateSummary, DispatchWalletSignal, OthersRest, Quiet, AtBundle,
     SignalTypes
<1>3. RunCame(r)'
  BY <1>1 DEF MarkWalletScored, InvalidateSummary, DispatchWalletSignal, RunCame, HasBundle
<1> QED
  BY <1>2, <1>3

(* The job run is recorded, and the run is over. *)
LEMMA RecordJobRests ==
    ASSUME SignalTypes, NEW r \in Snapshots, RunCame(r), RecordJobRun(r)
    PROVE  OthersRest(r) /\ Quiet(r) /\ RunCame(r)'
<1>1. call'[r] = "reported" /\ call' \in [Snapshots -> Calls] /\ \A q \in Snapshots \ {r} : call'[q] = call[q]
  BY CallSet DEF RecordJobRun, Calls, Ended
<1>2. OthersRest(r) /\ Quiet(r)
  BY <1>1 DEF RecordJobRun, OthersRest, Quiet, AtBundle, SignalTypes
<1>3. RunCame(r)'
  BY <1>1 DEF RecordJobRun, RunCame, HasBundle
<1> QED
  BY <1>2, <1>3

(* The candidate is written; if another is about to write the bundle, they contend. *)
LEMMA UpsertCandidateRests ==
    ASSUME SignalTypes, NEW r \in Snapshots, RunCame(r), UpsertFindingCandidate(r)
    PROVE  /\ OthersRest(r) /\ RunCame(r)' /\ ~AtBundle(r) /\ KeyOf(r) \in FindingKeys
           /\ KeyOf(r)' = KeyOf(r) /\ AtBundle(r)' /\ entries' = entries /\ bundle' = bundle
           /\ candidate' = [candidate EXCEPT ![KeyOf(r)] = r]
           /\ contended' = IF Writing(KeyOf(r)) # {} THEN contended \cup {KeyOf(r)} ELSE contended
<1> PICK c : c = BundleCall(call[r])
  OBVIOUS
<1>1. /\ call[r] \in {"finding", "interpreted"} /\ c \in Calls /\ Goes(r, c)
      /\ c = (IF call[r] = "finding" THEN "bundle" ELSE "interpreted bundle")
  BY DEF UpsertFindingCandidate, BundleCall, Calls
<1>2. call'[r] = c /\ call' \in [Snapshots -> Calls] /\ \A q \in Snapshots \ {r} : call'[q] = call[q]
  BY <1>1, CallSet
<1>3. KeyOf(r) \in FindingKeys
  BY KeyTyped DEF UpsertFindingCandidate
<1>4. candidate' \in [FindingKeys -> Snapshots \cup {NoWriter}]
  BY <1>3 DEF UpsertFindingCandidate, SignalTypes
<1>5. OthersRest(r)
  <2>1. contended \subseteq contended'
    BY DEF UpsertFindingCandidate
  <2> QED
    BY <1>2, <1>4, <2>1 DEF UpsertFindingCandidate, OthersRest, SignalTypes
<1>6. RunCame(r)'
  BY <1>1, <1>2 DEF UpsertFindingCandidate, RunCame, HasBundle
<1>7. KeyOf(r)' = KeyOf(r) /\ ~AtBundle(r) /\ AtBundle(r)'
  BY <1>1, <1>2 DEF UpsertFindingCandidate, KeyOf, AtBundle
<1> QED
  BY <1>3, <1>5, <1>6, <1>7 DEF UpsertFindingCandidate

(* What is left of a sequence. *)
LEMMA TailTyped == ASSUME NEW S, NEW s \in Seq(S), s # <<>> PROVE Tail(s) \in Seq(S)
OBVIOUS

(* The bundle is written, and the finding is done. *)
LEMMA UpsertBundleRests ==
    ASSUME SignalTypes, NEW r \in Snapshots, RunCame(r), UpsertFindingBundle(r)
    PROVE  /\ OthersRest(r) /\ RunCame(r)' /\ AtBundle(r) /\ KeyOf(r) \in FindingKeys /\ ~(AtBundle(r))'
           /\ bundle' = [bundle EXCEPT ![KeyOf(r)] = r] /\ candidate' = candidate /\ contended' = contended
<1> PICK c : c = EntryCall(call[r])
  OBVIOUS
<1>1. /\ AtBundle(r) /\ c \in Calls /\ Goes(r, c)
      /\ c = (IF call[r] = "bundle" THEN "finding" ELSE "interpreted")
  BY DEF UpsertFindingBundle, EntryCall, Calls, AtBundle
<1>2. call'[r] = c /\ call' \in [Snapshots -> Calls] /\ \A q \in Snapshots \ {r} : call'[q] = call[q]
  BY <1>1, CallSet
<1>3. /\ KeyOf(r) \in FindingKeys /\ entries[r] # <<>> /\ kind[r] # "shadow exit"
      /\ call[r] = "bundle" => KeyOf(r) = <<"smart_money_convergence", observedAt[r]>>
  BY <1>1, BundleKeyTyped
<1>4. bundle' \in [FindingKeys -> Snapshots \cup {NoWriter}] /\ bundle'[KeyOf(r)] = r
      /\ \A k \in FindingKeys : bundle[k] # NoWriter => bundle'[k] # NoWriter
  BY <1>3, SnapshotAssumption DEF UpsertFindingBundle, SignalTypes
<1> PICK s : s = Tail(entries[r])
  OBVIOUS
<1>5. /\ s \in Seq(FindingEntries)
      /\ call[r] = "bundle" => s = <<>>
      /\ call[r] = "interpreted bundle" => s \in Seq(Normal)
  <2>1. entries[r] \in Seq(FindingEntries)
    BY DEF SignalTypes
  <2>2. s \in Seq(FindingEntries)
    BY <1>3, <2>1, TailTyped
  <2>3. ASSUME call[r] = "bundle" PROVE s = <<>>
    <3>1. entries[r] = Convergence
      BY <1>3, <2>3 DEF RunCame
    <3> QED
      BY <3>1 DEF Convergence
  <2>4. ASSUME call[r] = "interpreted bundle" PROVE s \in Seq(Normal)
    <3>1. entries[r] \in Seq(Normal)
      BY <1>3, <2>4 DEF RunCame
    <3> QED
      BY <1>3, <3>1, TailTyped
  <2> QED
    BY <2>2, <2>3, <2>4
<1>6. /\ entries' \in [Snapshots -> Seq(FindingEntries)] /\ entries'[r] = s
      /\ \A q \in Snapshots \ {r} : entries'[q] = entries[q]
  BY <1>5, EntriesSet DEF UpsertFindingBundle
<1>7. OthersRest(r)
  BY <1>2, <1>4, <1>6 DEF UpsertFindingBundle, OthersRest, SignalTypes
<1>8. call[r] = "bundle" => HasBundle(r)'
  <2> PICK k : k = KeyOf(r)
    OBVIOUS
  <2>1. bundle'[k] # NoWriter
    BY <1>4, SnapshotAssumption
  <2>2. observedAt' = observedAt
    BY DEF UpsertFindingBundle
  <2> QED
    BY <1>3, <2>1, <2>2 DEF HasBundle
<1>9. HasBundle(r) => HasBundle(r)'
  <2>1. <<"smart_money_convergence", observedAt[r]>> \in FindingKeys /\ observedAt' = observedAt
    BY DEF SignalTypes, FindingKeys, FindingTypes, UpsertFindingBundle
  <2> QED
    BY <1>4, <2>1 DEF HasBundle
<1>10. RunCame(r)'
  BY <1>1, <1>2, <1>3, <1>5, <1>6, <1>8, <1>9 DEF UpsertFindingBundle, RunCame, AtBundle
<1>11. ~(AtBundle(r))'
  BY <1>1, <1>2 DEF AtBundle
<1> QED
  BY <1>1, <1>3, <1>7, <1>10, <1>11 DEF UpsertFindingBundle

(* A run that a failed call or its end stops. *)
LEMMA StopRests ==
    ASSUME SignalTypes, NEW r \in Snapshots, RunCame(r), CallFails(r) \/ Dies(r)
    PROVE  /\ OthersRest(r) /\ RunCame(r)' /\ ~(AtBundle(r))' /\ r \in broken'
           /\ bundle' = bundle /\ candidate' = candidate /\ contended' = contended
<1>1. /\ call' \in [Snapshots -> Calls] /\ \A q \in Snapshots \ {r} : call'[q] = call[q]
      /\ call'[r] \in {"failed", "dead"} /\ call[r] # "reported"
  <2>1. "failed" \in Calls /\ "dead" \in Calls
    BY DEF Calls, Ended
  <2> QED
    BY <2>1, CallSet DEF CallFails, Dies, Ended
<1>2. /\ broken' = broken \cup {r} /\ kind' = kind /\ observedAt' = observedAt
      /\ jobRuns' = [jobRuns EXCEPT ![r] = "failed"] \/ jobRuns' = jobRuns
      /\ UNCHANGED <<entries, recorded, candidate, bundle, scored, dispatched, contended>>
  BY DEF CallFails, Dies
<1>3. /\ jobRuns' \in [Snapshots -> {"none", "failed", "succeeded"}]
      /\ \A q \in Snapshots \ {r} : jobRuns'[q] = jobRuns[q]
      /\ jobRuns'[r] # "succeeded"
  BY <1>1, <1>2 DEF SignalTypes, RunCame
<1>4. OthersRest(r)
  BY <1>1, <1>2, <1>3 DEF OthersRest, SignalTypes
<1>5. RunCame(r)'
  BY <1>1, <1>2, <1>3 DEF RunCame
<1>6. ~(AtBundle(r))'
  BY <1>1 DEF AtBundle
<1> QED
  BY <1>2, <1>4, <1>5, <1>6

(* A run that rests has the key it had. *)
LEMMA RestsKey ==
    ASSUME NEW r \in Snapshots, OthersRest(r), NEW q \in Snapshots \ {r}
    PROVE  KeyOf(q)' = KeyOf(q) /\ (AtBundle(q))' = AtBundle(q)
BY DEF OthersRest, KeyOf, AtBundle

(* No step makes a run write a bundle to a candidate of another that it has not met. *)
LEMMA WritersKept ==
    ASSUME SignalTypes, WritersMet, \A q \in Snapshots : RunCame(q), NEW r \in Snapshots, OthersRest(r),
           \/ Quiet(r)
           \/ UpsertFindingCandidate(r) \/ UpsertFindingBundle(r) \/ CallFails(r) \/ Dies(r)
    PROVE  WritersMet'
<1> SUFFICES ASSUME NEW q \in Snapshots, AtBundle(q)'
             PROVE  candidate'[KeyOf(q)'] = q \/ KeyOf(q)' \in contended'
  BY DEF WritersMet
<1>1. CASE Quiet(r) \/ UpsertFindingBundle(r) \/ CallFails(r) \/ Dies(r)
  <2>1. candidate' = candidate /\ contended' = contended /\ q # r
    BY <1>1, UpsertBundleRests, StopRests DEF Quiet
  <2> QED
    BY <2>1, RestsKey DEF WritersMet
<1>2. CASE UpsertFindingCandidate(r)
  <2>1. /\ KeyOf(r) \in FindingKeys /\ KeyOf(r)' = KeyOf(r)
        /\ candidate' = [candidate EXCEPT ![KeyOf(r)] = r]
        /\ contended' = IF Writing(KeyOf(r)) # {} THEN contended \cup {KeyOf(r)} ELSE contended
    BY <1>2, UpsertCandidateRests
  <2>2. CASE q = r
    BY <2>1, <2>2 DEF SignalTypes
  <2>3. CASE q # r /\ KeyOf(q) = KeyOf(r)
    <3>1. KeyOf(q)' = KeyOf(q) /\ AtBundle(q)
      BY <2>3, RestsKey
    <3>2. q \in Writing(KeyOf(r))
      BY <2>3, <3>1 DEF Writing, AtBundle
    <3> QED
      BY <2>1, <2>3, <3>1, <3>2
  <2>4. CASE q # r /\ KeyOf(q) # KeyOf(r)
    <3>1. KeyOf(q)' = KeyOf(q) /\ AtBundle(q)
      BY <2>4, RestsKey
    <3>2. KeyOf(q) \in FindingKeys
      BY <3>1, BundleKeyTyped
    <3>3. candidate[KeyOf(q)] = q \/ KeyOf(q) \in contended
      BY <3>1 DEF WritersMet
    <3> QED
      BY <2>1, <2>4, <3>1, <3>2, <3>3 DEF SignalTypes
  <2> QED
    BY <2>2, <2>3, <2>4
<1> QED
  BY <1>1, <1>2

(* No step leaves the rows of a finding to two runs that neither met nor stopped. *)
LEMMA WholeKept ==
    ASSUME SignalTypes, WritersMet, FindingsAreWhole, \A q \in Snapshots : RunCame(q),
           NEW r \in Snapshots, OthersRest(r),
           \/ Quiet(r)
           \/ UpsertFindingCandidate(r) \/ UpsertFindingBundle(r) \/ CallFails(r) \/ Dies(r)
    PROVE  FindingsAreWhole'
<1> SUFFICES ASSUME NEW k \in FindingKeys, candidate'[k] # bundle'[k]
             PROVE  k \in contended' \/ candidate'[k] \in broken' \/ candidate'[k] \in Writing(k)'
  BY DEF FindingsAreWhole
<1>1. broken \subseteq broken' /\ contended \subseteq contended'
  BY DEF OthersRest
<1>2. ASSUME NEW q \in Writing(k), q # r PROVE q \in Writing(k)'
  <2>1. q \in Snapshots /\ AtBundle(q) /\ KeyOf(q) = k
    BY DEF Writing, AtBundle
  <2>2. KeyOf(q)' = k /\ AtBundle(q)'
    BY <1>2, <2>1, RestsKey
  <2> QED
    BY <2>1, <2>2 DEF Writing, AtBundle
<1>3. candidate[k] # bundle[k]
         => k \in contended \/ candidate[k] \in broken \/ candidate[k] \in Writing(k)
  BY DEF FindingsAreWhole
<1>4. CASE Quiet(r)
  <2>1. r \notin Writing(k)
    BY <1>4 DEF Quiet, Writing, AtBundle
  <2> QED
    BY <1>1, <1>2, <1>3, <1>4, <2>1 DEF Quiet
<1>5. CASE UpsertFindingCandidate(r)
  <2>1. /\ KeyOf(r) \in FindingKeys /\ KeyOf(r)' = KeyOf(r) /\ AtBundle(r)' /\ ~AtBundle(r)
        /\ candidate' = [candidate EXCEPT ![KeyOf(r)] = r] /\ bundle' = bundle
    BY <1>5, UpsertCandidateRests
  <2>2. r \notin Writing(k)
    BY <2>1 DEF Writing, AtBundle
  <2>3. CASE k = KeyOf(r)
    <3>1. candidate'[k] = r
      BY <2>1, <2>3 DEF SignalTypes
    <3>2. r \in Writing(k)'
      BY <2>1, <2>3 DEF Writing, AtBundle
    <3> QED
      BY <3>1, <3>2
  <2>4. CASE k # KeyOf(r)
    <3>1. candidate'[k] = candidate[k] /\ bundle'[k] = bundle[k]
      BY <2>1, <2>4 DEF SignalTypes
    <3> QED
      BY <1>1, <1>2, <1>3, <2>2, <3>1
  <2> QED
    BY <2>3, <2>4
<1>6. CASE UpsertFindingBundle(r)
  <2>1. /\ KeyOf(r) \in FindingKeys /\ AtBundle(r)
        /\ bundle' = [bundle EXCEPT ![KeyOf(r)] = r] /\ candidate' = candidate /\ contended' = contended
    BY <1>6, UpsertBundleRests
  <2>2. CASE k = KeyOf(r)
    <3>1. bundle'[k] = r
      BY <2>1, <2>2 DEF SignalTypes
    <3>2. candidate[k] = r \/ k \in contended
      BY <2>1, <2>2 DEF WritersMet
    <3> QED
      BY <2>1, <3>1, <3>2
  <2>3. CASE k # KeyOf(r)
    <3>1. bundle'[k] = bundle[k] /\ r \notin Writing(k)
      BY <2>1, <2>3 DEF SignalTypes, Writing
    <3> QED
      BY <1>1, <1>2, <1>3, <2>1, <3>1
  <2> QED
    BY <2>2, <2>3
<1>7. CASE CallFails(r) \/ Dies(r)
  <2>1. r \in broken' /\ bundle' = bundle /\ candidate' = candidate
    BY <1>7, StopRests
  <2> QED
    BY <1>1, <1>2, <1>3, <2>1
<1> QED
  BY <1>4, <1>5, <1>6, <1>7

(* Every call of a run, its failure and its death keep the invariant. *)
LEMMA SignalStep ==
    ASSUME SignalInv, NEW r \in Snapshots, ScoreStep(r) \/ CallFails(r) \/ Dies(r)
    PROVE  SignalInv'
<1>1. SignalTypes /\ (\A q \in Snapshots : RunCame(q)) /\ WritersMet /\ FindingsAreWhole
  BY DEF SignalInv
<1>2. /\ OthersRest(r) /\ RunCame(r)'
      /\ \/ Quiet(r)
         \/ UpsertFindingCandidate(r) \/ UpsertFindingBundle(r) \/ CallFails(r) \/ Dies(r)
  BY <1>1, ReadInputsRests, RecordSignalRests, NoMoreRests, RefuseRests, ReadLabelsRests, LastCallsRest,
     RecordJobRests, UpsertCandidateRests, UpsertBundleRests, StopRests DEF ScoreStep
<1>3. SignalTypes'
  BY <1>2 DEF OthersRest
<1>4. ASSUME NEW q \in Snapshots PROVE RunCame(q)'
  BY <1>1, <1>2, OthersCame
<1> QED
  BY <1>1, <1>2, <1>3, <1>4, WritersKept, WholeKept DEF SignalInv

(* So does a step of others. *)
LEMMA SignalStill == ASSUME SignalInv, UNCHANGED runVars PROVE SignalInv'
BY DEF SignalInv, runVars, SignalTypes, RunCame, HasBundle, WritersMet, AtBundle, KeyOf,
   FindingsAreWhole, Writing

(* The invariant holds at first. *)
LEMMA SignalStarts == SnapshotsInit => SignalInv
<1> SUFFICES ASSUME SnapshotsInit PROVE SignalInv
  OBVIOUS
<1>1. SignalTypes
  BY DEF SnapshotsInit, SignalTypes, Calls
<1>2. \A r \in Snapshots : call[r] = "idle" /\ jobRuns[r] = "none"
  BY DEF SnapshotsInit
<1>3. \A r \in Snapshots : RunCame(r)
  BY <1>2 DEF RunCame
<1>4. WritersMet /\ FindingsAreWhole
  BY <1>2 DEF SnapshotsInit, WritersMet, AtBundle, FindingsAreWhole
<1> QED
  BY <1>1, <1>3, <1>4 DEF SignalInv

(* The invariant holds always. *)
LEMMA SignalInvHolds == SnapshotsSpec => []SignalInv
<1>1. SignalInv /\ [SnapshotsNext]_runVars => SignalInv'
  BY SignalStep, SignalStill DEF SnapshotsNext
<1> QED
  BY <1>1, SignalStarts, PTL DEF SnapshotsSpec

(* What the invariant says of the runs, and of the findings. *)
LEMMA SignalInvArrives == SignalInv => SignalsArrive
<1> SUFFICES ASSUME SignalInv PROVE SignalsArrive
  OBVIOUS
<1>1. FindingsAreWhole
  BY DEF SignalInv
<1>2. SignalsAreDispatched
  BY DEF SignalInv, SignalsAreDispatched, RunCame, HasBundle, SignalTypes, Kinds, Ended
<1> QED
  BY <1>1, <1>2 DEF SignalsArrive

(* No signal is lost but to a failure: when no run is under way, each finding that is stored
   came with its signal, and what a run made of a snapshot is stored whole. *)
THEOREM SignalsHold == SnapshotsSpec => []SignalsArrive
BY SignalInvHolds, SignalInvArrives, PTL

-----------------------------------------------------------------------------
(* Entry features. *)
FeatureRows == [end : Nat, tops : SUBSET Counterparties, state : States, resolvedAt : Nat, repeat : BOOLEAN]
RunCalls == {"idle", "prior", "follow", "mature", "count", "upsert"}

EntryTypes ==
    /\ now \in Nat /\ transfers \subseteq Counterparties \X Nat
    /\ features \in [Days -> FeatureRows]
    /\ run \in [Runners -> [at : RunCalls, observed : FeatureRows, prior : FeatureRows]]
    /\ disturbed \in BOOLEAN

(* A snapshot is called sustained for what was met, and no run has another in hand. *)
Earned(f) == f.state = "sustained" => Sustained(f, f.end + Maturity)
EarnedAll ==
    /\ \A d \in Days : Earned(features[d])
    /\ \A r \in Runners : Earned(run[r].prior) /\ run[r].observed.state = ""

(* The outcome of a snapshot is of a moment between it and one that has been. *)
OutcomeKnown(f, t) == Resolved(f) => f.end <= f.resolvedAt /\ f.resolvedAt <= t

(* While runs follow each other none sees an earlier moment than an outcome that is known,
   and none is about to write one again. *)
OutcomesKnown ==
    /\ \A d \in Days : /\ features[d].end # 0 => Day(features[d].end) = d
                       /\ Resolved(features[d]) => features[d].end # 0
    /\ \A r \in Runners : run[r].at \in {"follow", "mature"} => run[r].prior.end # 0
    /\ ~disturbed =>
        /\ \A r \in Runners, s \in Runners : run[r].at # "idle" /\ run[s].at # "idle" => r = s
        /\ \A d \in Days : OutcomeKnown(features[d], now)
        /\ \A r \in Runners : run[r].at # "idle" =>
              /\ run[r].observed.end <= now
              /\ \A d \in Days : OutcomeKnown(features[d], run[r].observed.end)
        /\ \A r \in Runners : run[r].at \in {"follow", "mature"} =>
              \A d \in Days : d = Day(run[r].prior.end) => ~Resolved(features[d])
        /\ \A r \in Runners : run[r].at = "mature" => OutcomeKnown(run[r].prior, run[r].observed.end)

EntryInv == EntryTypes /\ EarnedAll /\ OutcomesKnown

RunRecords == [at : RunCalls, observed : FeatureRows, prior : FeatureRows]

(* The features of a day without any, and a run that has not begun. *)
LEMMA NoFeaturesTyped ==
    /\ NoFeatures \in FeatureRows /\ NoFeatures.state = "" /\ NoFeatures.end = 0 /\ NoFeatures.resolvedAt = 0
    /\ NoRun \in RunRecords /\ NoRun.at = "idle" /\ NoRun.observed = NoFeatures /\ NoRun.prior = NoFeatures
BY DEF NoFeatures, FeatureRows, States, NoRun, RunRecords, RunCalls

(* More transfers take nothing away from what is earned. *)
LEMMA EarnedMore == ASSUME NEW f, transfers \subseteq transfers', Earned(f) PROVE Earned(f)'
BY DEF Earned, Sustained, Met

(* Nothing is to be earned before there is an outcome. *)
LEMMA UnresolvedEarned == ASSUME NEW f, f.state = "" PROVE Earned(f) /\ ~Resolved(f)
BY DEF Earned, Resolved

(* The outcome given to a snapshot is earned, and is of a moment the run can see. *)
LEMMA OutcomeIs ==
    ASSUME EntryTypes, NEW f \in FeatureRows, NEW t \in Nat, NEW g, g = Outcome(f, t)
    PROVE  /\ g \in FeatureRows /\ g.end = f.end /\ Earned(g)
           /\ Resolved(g) => g.end <= g.resolvedAt /\ g.resolvedAt <= t
           /\ g.resolvedAt <= t
<1> DEFINE until == ObservationEnd(f, t)
           state == IF Sustained(f, until) THEN "sustained"
                    ELSE IF until >= f.end + Maturity THEN "short_lived" ELSE "monitoring"
           at == IF state = "monitoring" THEN 0 ELSE until
<1>1. f.end \in Nat /\ f.tops \in SUBSET Counterparties /\ f.repeat \in BOOLEAN
  BY DEF FeatureRows
<1>2. until \in Nat /\ until <= t /\ until <= f.end + Maturity
  BY <1>1, TimesAssumption DEF ObservationEnd
<1>3. g = [f EXCEPT !.state = state, !.resolvedAt = at]
  BY DEF Outcome
<1> HIDE DEF until
<1>4. state \in States /\ at \in Nat /\ at <= t /\ (state # "monitoring" => at = until)
  BY <1>2 DEF States
<1>5. /\ state = "sustained" => Sustained(f, until)
      /\ state = "short_lived" => until >= f.end + Maturity
  OBVIOUS
<1> HIDE DEF state, at
<1>6. g \in FeatureRows /\ g.end = f.end /\ g.tops = f.tops /\ g.state = state /\ g.resolvedAt = at
  BY <1>3, <1>4 DEF FeatureRows
<1>7. ASSUME NEW m \in Met(f, until) PROVE m \in Met(g, g.end + Maturity) /\ m[2] \in Nat /\ m[2] <= until
  <2>1. m \in transfers /\ m[1] \in f.tops /\ m[2] > f.end /\ m[2] <= until
    BY DEF Met
  <2>2. m[2] \in Nat
    BY <2>1 DEF EntryTypes
  <2>3. m[2] <= f.end + Maturity
    BY <1>1, <1>2, <2>1, <2>2, TimesAssumption
  <2> QED
    BY <1>6, <2>1, <2>2, <2>3 DEF Met
<1>8. Sustained(f, until) => Sustained(g, g.end + Maturity)
  BY <1>6, <1>7 DEF Sustained
<1>9. ASSUME Sustained(f, until) PROVE f.end <= until
  <2>1. PICK m \in Met(f, until) : Hours(m[2] - f.end) >= Persistence
    BY <1>9 DEF Sustained
  <2>2. m[2] \in Nat /\ m[2] <= until /\ m[2] > f.end
    BY <1>7 DEF Met
  <2> QED
    BY <1>1, <1>2, <2>2
<1>10. until >= f.end + Maturity => f.end <= until
  BY <1>1, <1>2, TimesAssumption
<1>11. Earned(g)
  BY <1>5, <1>6, <1>8 DEF Earned
<1>12. ASSUME Resolved(g) PROVE g.end <= g.resolvedAt /\ g.resolvedAt <= t
  <2>1. state \in {"sustained", "short_lived"}
    BY <1>6, <1>12 DEF Resolved
  <2>2. at = until /\ f.end <= until
    BY <1>4, <1>5, <1>9, <1>10, <2>1
  <2> QED
    BY <1>2, <1>6, <2>2
<1> QED
  BY <1>4, <1>6, <1>11, <1>12

(* What a run does to its record, and to the features of a day. *)
RunSet(r, w) == run' \in [Runners -> RunRecords] /\ run'[r] = w /\ \A s \in Runners \ {r} : run'[s] = run[s]
FeaturesSet(f) ==
    /\ features' \in [Days -> FeatureRows]
    /\ \A d \in Days : features'[d] = IF d = Day(f.end) THEN f ELSE features[d]

(* The record of one run is set. *)
LEMMA RunsSet ==
    ASSUME EntryTypes, NEW r \in Runners, NEW w \in RunRecords, run' = [run EXCEPT ![r] = w]
    PROVE  RunSet(r, w)
BY DEF EntryTypes, RunSet, RunRecords

(* A run goes on to its next call, or ends. *)
LEMMA RunsGo ==
    ASSUME EntryTypes, NEW r \in Runners, NEW label \in RunCalls, RunGoes(r, label)
    PROVE  \E w \in RunRecords :
              /\ RunSet(r, w)
              /\ label = "idle" => w = NoRun
              /\ label # "idle" => w.at = label /\ w.observed = run[r].observed /\ w.prior = run[r].prior
<1>1. run[r] \in RunRecords
  BY DEF EntryTypes, RunRecords
<1>2. CASE label = "idle"
  BY <1>2, NoFeaturesTyped, RunsSet DEF RunGoes
<1>3. CASE label # "idle"
  <2> DEFINE w == [run[r] EXCEPT !.at = label]
  <2>1. w \in RunRecords /\ w.at = label /\ w.observed = run[r].observed /\ w.prior = run[r].prior
    BY <1>1 DEF RunRecords
  <2>2. run' = [run EXCEPT ![r] = w]
    BY <1>3 DEF RunGoes
  <2> HIDE DEF w
  <2> QED
    BY <1>3, <2>1, <2>2, RunsSet
<1> QED
  BY <1>2, <1>3

(* The features of one day are written. *)
LEMMA UpsertSets ==
    ASSUME EntryTypes, NEW f \in FeatureRows, UpsertEntry(f)
    PROVE  FeaturesSet(f)
BY DEF EntryTypes, UpsertEntry, FeaturesSet

(* The steps of a run. *)
Begun(r, w) ==
    /\ run[r].at = "idle" /\ w.at = "prior" /\ w.prior = NoFeatures
    /\ w.observed.state = "" /\ w.observed.end \in 1..now /\ w.observed.resolvedAt = 0
    /\ disturbed' \in BOOLEAN
    /\ ~disturbed' => ~disturbed /\ w.observed.end >= now /\ \A s \in Runners : run[s].at = "idle"
    /\ features' = features
PriorTaken(r, w) ==
    /\ run[r].at = "prior" /\ w.at = "follow" /\ w.observed = run[r].observed
    /\ \E d \in Days : w.prior = features[d] /\ ~Resolved(features[d]) /\ features[d].end # 0
    /\ features' = features /\ disturbed' = disturbed
FollowTaken(r, w) ==
    /\ run[r].at = "follow" /\ w.at = "mature" /\ w.observed = run[r].observed
    /\ w.prior = Outcome(run[r].prior, run[r].observed.end)
    /\ features' = features /\ disturbed' = disturbed
PriorKept(r, w) ==
    /\ run[r].at # "idle" /\ w.at \in {"count", "upsert"} /\ w.prior = run[r].prior
    /\ w.observed.end = run[r].observed.end /\ w.observed.state = run[r].observed.state
    /\ w.observed.resolvedAt = run[r].observed.resolvedAt
    /\ \/ features' = features
       \/ run[r].at = "mature" /\ FeaturesSet(run[r].prior)
    /\ disturbed' = disturbed
RunOver(r, w) ==
    /\ run[r].at # "idle" /\ w = NoRun
    /\ \/ features' = features
       \/ FeaturesSet(run[r].observed)
    /\ disturbed' = disturbed
RunMoves(r) ==
    /\ now' = now /\ transfers' = transfers
    /\ \E w \in RunRecords :
          /\ RunSet(r, w)
          /\ \/ Begun(r, w) \/ PriorTaken(r, w) \/ FollowTaken(r, w) \/ PriorKept(r, w) \/ RunOver(r, w)

(* Each call of a run is one of the steps above: it begins, *)
LEMMA SnapshotMoves ==
    ASSUME EntryTypes, NEW r \in Runners, NEW t \in Recent, NEW claims \in BOOLEAN, RunSnapshot(r, t, claims)
    PROVE  RunMoves(r)
<1>1. PICK tops \in {FirstSeen, {}} :
          run' = [run EXCEPT ![r] = [at |-> "prior",
                        observed |-> [NoFeatures EXCEPT !.end = t, !.tops = tops, !.repeat = claims],
                        prior |-> NoFeatures]]
  BY DEF RunSnapshot
<1> DEFINE o == [NoFeatures EXCEPT !.end = t, !.tops = tops, !.repeat = claims]
           w == [at |-> "prior", observed |-> o, prior |-> NoFeatures]
<1>2. t \in 1..now /\ now \in Nat /\ tops \in SUBSET Counterparties
  BY DEF Recent, EntryTypes, FirstSeen
<1>3. o \in FeatureRows /\ o.state = "" /\ o.end = t /\ o.resolvedAt = 0
  <2>1. t \in Nat
    BY <1>2
  <2> QED
    BY <1>2, <2>1, NoFeaturesTyped, Zenon DEF FeatureRows
<1> HIDE DEF o
<1>4. w \in RunRecords /\ w.at = "prior" /\ w.prior = NoFeatures /\ w.observed = o
  BY <1>3, NoFeaturesTyped DEF RunRecords, RunCalls
<1>5. run' = [run EXCEPT ![r] = w]
  BY <1>1 DEF o
<1> HIDE DEF w
<1>6. /\ disturbed' \in BOOLEAN
      /\ ~disturbed' => ~disturbed /\ ~(t < now) /\ \A s \in Runners : run[s].at = "idle"
  BY DEF RunSnapshot, EntryTypes
<1>7. ~(t < now) => t >= now
  BY <1>2
<1>8. Begun(r, w)
  BY <1>2, <1>3, <1>4, <1>6, <1>7 DEF Begun, RunSnapshot
<1> QED
  BY <1>4, <1>5, <1>8, RunsSet DEF RunMoves, RunSnapshot

(* what a run has in hand are features, *)
LEMMA RunTyped ==
    ASSUME EntryTypes, NEW r \in Runners
    PROVE  run[r] \in RunRecords /\ run[r].observed \in FeatureRows /\ run[r].prior \in FeatureRows
BY DEF EntryTypes, RunRecords

(* it takes up an earlier snapshot or goes on without, *)
LEMMA ReadPriorMoves == ASSUME EntryTypes, NEW r \in Runners, ReadPrior(r) PROVE RunMoves(r)
<1>1. /\ run[r].at = "prior" /\ now' = now /\ transfers' = transfers /\ features' = features
      /\ disturbed' = disturbed
  BY DEF ReadPrior
<1>2. CASE RunGoes(r, "count")
  <2>1. "count" \in RunCalls /\ "count" # "idle"
    BY DEF RunCalls
  <2> QED
    BY <1>1, <1>2, <2>1, RunsGo DEF RunMoves, PriorKept
<1>3. ASSUME NEW d \in Prior(run[r].observed.end), Matures(features[d]),
             run' = [run EXCEPT ![r].at = "follow", ![r].prior = features[d]]
      PROVE  RunMoves(r)
  <2> DEFINE w == [run[r] EXCEPT !.at = "follow", !.prior = features[d]]
  <2>1. d \in Days /\ features[d] \in FeatureRows /\ features[d].end # 0 /\ ~Resolved(features[d])
    BY <1>3 DEF Prior, Matures, EntryTypes
  <2>2. /\ w \in RunRecords /\ w.at = "follow" /\ w.observed = run[r].observed /\ w.prior = features[d]
    BY <2>1, RunTyped DEF RunRecords, RunCalls
  <2>3. run' = [run EXCEPT ![r] = w]
    BY <1>3
  <2> HIDE DEF w
  <2>4. PriorTaken(r, w)
    BY <1>1, <2>1, <2>2 DEF PriorTaken
  <2> QED
    BY <1>1, <2>2, <2>3, <2>4, RunsSet DEF RunMoves
<1> QED
  BY <1>2, <1>3 DEF ReadPrior

(* it works out the outcome of that, *)
LEMMA ReadFollowMoves == ASSUME EntryTypes, NEW r \in Runners, ReadFollowThrough(r) PROVE RunMoves(r)
<1>1. /\ run[r].at = "follow" /\ now' = now /\ transfers' = transfers /\ features' = features
      /\ disturbed' = disturbed
  BY DEF ReadFollowThrough
<1> DEFINE g == Outcome(run[r].prior, run[r].observed.end)
           w == [run[r] EXCEPT !.at = "mature", !.prior = g]
<1>2. run[r].observed.end \in Nat
  BY RunTyped DEF FeatureRows
<1>3. g \in FeatureRows
  BY <1>2, RunTyped, OutcomeIs
<1> HIDE DEF g
<1>4. w \in RunRecords /\ w.at = "mature" /\ w.observed = run[r].observed /\ w.prior = g
  BY <1>3, RunTyped DEF RunRecords, RunCalls
<1>5. run' = [run EXCEPT ![r] = w]
  BY DEF ReadFollowThrough, g
<1> HIDE DEF w
<1>6. FollowTaken(r, w)
  BY <1>1, <1>4 DEF FollowTaken, g
<1> QED
  BY <1>1, <1>4, <1>5, <1>6, RunsSet DEF RunMoves

(* it writes this down, *)
LEMMA UpsertMaturedMoves == ASSUME EntryTypes, NEW r \in Runners, UpsertMatured(r) PROVE RunMoves(r)
<1>1. FeaturesSet(run[r].prior)
  <2> PICK f : f = run[r].prior
    OBVIOUS
  <2>1. f \in FeatureRows /\ UpsertEntry(f)
    BY RunTyped DEF UpsertMatured
  <2> QED
    BY <2>1, UpsertSets
<1>2. "count" \in RunCalls /\ "count" # "idle"
  BY DEF RunCalls
<1> QED
  BY <1>1, <1>2, RunsGo DEF UpsertMatured, RunMoves, PriorKept

(* it counts the days before, *)
LEMMA ReadCountMoves == ASSUME EntryTypes, NEW r \in Runners, ReadHistoricalCount(r) PROVE RunMoves(r)
<1> DEFINE o == [run[r].observed EXCEPT !.repeat = run[r].observed.repeat /\ HasHistory(run[r].observed.end)]
           w == [run[r] EXCEPT !.at = "upsert", !.observed = o]
<1>1. /\ o \in FeatureRows /\ o.end = run[r].observed.end /\ o.state = run[r].observed.state
      /\ o.resolvedAt = run[r].observed.resolvedAt
  BY RunTyped, Zenon DEF FeatureRows
<1>2. run' = [run EXCEPT ![r] = w]
  BY DEF ReadHistoricalCount
<1> HIDE DEF o
<1>3. w \in RunRecords /\ w.at = "upsert" /\ w.observed = o /\ w.prior = run[r].prior
  BY <1>1, RunTyped DEF RunRecords, RunCalls
<1> HIDE DEF w
<1>4. PriorKept(r, w)
  BY <1>1, <1>3 DEF PriorKept, ReadHistoricalCount
<1> QED
  BY <1>2, <1>3, <1>4, RunsSet DEF RunMoves, ReadHistoricalCount

(* and it writes its own snapshot, or fails. *)
LEMMA RunEndsMoves ==
    ASSUME EntryTypes, NEW r \in Runners, UpsertObserved(r) \/ RunFails(r)
    PROVE  RunMoves(r)
<1>1. \/ features' = features
      \/ FeaturesSet(run[r].observed)
  <2> PICK f : f = run[r].observed
    OBVIOUS
  <2>1. f \in FeatureRows
    BY RunTyped
  <2> QED
    BY <2>1, UpsertSets DEF UpsertObserved, RunFails
<1>2. "idle" \in RunCalls
  BY DEF RunCalls
<1>3. RunSet(r, NoRun) /\ NoRun \in RunRecords
  BY <1>2, RunsGo, NoFeaturesTyped DEF UpsertObserved, RunFails
<1> QED
  BY <1>1, <1>3 DEF UpsertObserved, RunFails, RunMoves, RunOver

(* What moves the records on: a run, a transfer that is stored, the time. *)
EntryMoves ==
    \/ \E r \in Runners : RunMoves(r)
    \/ /\ now' \in Nat /\ now <= now' /\ transfers \subseteq transfers'
       /\ transfers' \subseteq Counterparties \X Nat
       /\ features' = features /\ run' = run /\ disturbed' = disturbed

(* Every step of the specification is one of these. *)
LEMMA EntrySteps == ASSUME EntryTypes, [EntryNext]_entryVars PROVE EntryMoves
<1>1. now \in Nat /\ transfers \subseteq Counterparties \X Nat
  BY DEF EntryTypes
<1>2. ASSUME NEW r \in Runners, NEW t \in Recent, NEW claims \in BOOLEAN, RunSnapshot(r, t, claims)
      PROVE  RunMoves(r)
  BY <1>2, SnapshotMoves
<1>3. ASSUME NEW r \in Runners, RunStep(r) PROVE RunMoves(r)
  BY <1>3, ReadPriorMoves, ReadFollowMoves, UpsertMaturedMoves, ReadCountMoves, RunEndsMoves DEF RunStep
<1>4. ASSUME NEW c \in Counterparties, NEW t \in Recent, StoreTransfer(c, t) PROVE EntryMoves
  <2>1. t \in Nat
    BY <1>1 DEF Recent
  <2> QED
    BY <1>1, <1>4, <2>1 DEF StoreTransfer, EntryMoves
<1>5. ASSUME Tick PROVE EntryMoves
  <2>1. now' \in Nat /\ now <= now'
    BY <1>1, <1>5 DEF Tick
  <2> QED
    BY <1>1, <1>5, <2>1 DEF Tick, EntryMoves
<1>6. ASSUME UNCHANGED entryVars PROVE EntryMoves
  BY <1>1, <1>6 DEF entryVars, EntryMoves
<1> QED
  BY <1>2, <1>3, <1>4, <1>5, <1>6 DEF EntryNext, EntryMoves

(* The types are kept. *)
LEMMA EntryTypesKept == ASSUME EntryTypes, EntryMoves PROVE EntryTypes'
<1>1. ASSUME NEW r \in Runners, RunMoves(r) PROVE EntryTypes'
  <2>1. PICK w \in RunRecords :
           /\ RunSet(r, w)
           /\ \/ Begun(r, w) \/ PriorTaken(r, w) \/ FollowTaken(r, w) \/ PriorKept(r, w) \/ RunOver(r, w)
    BY <1>1 DEF RunMoves
  <2>2. features' \in [Days -> FeatureRows] /\ disturbed' \in BOOLEAN
    BY <2>1 DEF Begun, PriorTaken, FollowTaken, PriorKept, RunOver, FeaturesSet, EntryTypes
  <2> QED
    BY <1>1, <2>1, <2>2 DEF RunMoves, RunSet, RunRecords, EntryTypes
<1> QED
  BY <1>1 DEF EntryMoves, EntryTypes

(* What is called sustained was earned when it was written, and nothing unearns it. *)
LEMMA EarnedKept == ASSUME EntryTypes, EarnedAll, EntryMoves PROVE EarnedAll'
<1>1. ASSUME NEW r \in Runners, RunMoves(r) PROVE EarnedAll'
  <2>1. PICK w \in RunRecords :
           /\ RunSet(r, w)
           /\ \/ Begun(r, w) \/ PriorTaken(r, w) \/ FollowTaken(r, w) \/ PriorKept(r, w) \/ RunOver(r, w)
    BY <1>1 DEF RunMoves
  <2>2. transfers \subseteq transfers'
    BY <1>1 DEF RunMoves
  <2>3. /\ Earned(run[r].prior) /\ run[r].observed.state = "" /\ Earned(run[r].observed)
        /\ Earned(NoFeatures) /\ NoRun.prior = NoFeatures /\ NoRun.observed.state = ""
    BY UnresolvedEarned, NoFeaturesTyped DEF EarnedAll
  <2>4. Earned(w.prior) /\ w.observed.state = ""
    <3>1. CASE FollowTaken(r, w)
      <4>1. run[r].observed.end \in Nat /\ run[r].prior \in FeatureRows
        BY RunTyped DEF FeatureRows
      <4> QED
        BY <2>3, <3>1, <4>1, OutcomeIs DEF FollowTaken
    <3> QED
      BY <2>1, <2>3, <3>1 DEF EarnedAll, Begun, PriorTaken, PriorKept, RunOver
  <2>5. ASSUME NEW f, Earned(f) PROVE Earned(f)'
    BY <2>2, <2>5, EarnedMore
  <2>6. ASSUME NEW d \in Days PROVE Earned(features[d])'
    <3> PICK f : f = features'[d]
      OBVIOUS
    <3>1. f = features[d] \/ f = run[r].prior \/ f = run[r].observed
      BY <2>1 DEF Begun, PriorTaken, FollowTaken, PriorKept, RunOver, FeaturesSet
    <3>2. Earned(f)
      BY <2>3, <3>1 DEF EarnedAll
    <3>3. Earned(f)'
      BY <2>5, <3>2
    <3> QED
      BY <3>3 DEF Earned, Sustained, Met
  <2>7. ASSUME NEW s \in Runners PROVE Earned(run[s].prior)' /\ (run[s].observed.state = "")'
    <3> PICK f : f = run'[s].prior
      OBVIOUS
    <3>1. run'[s] = w \/ run'[s] = run[s]
      BY <2>1 DEF RunSet
    <3>2. Earned(f) /\ run'[s].observed.state = ""
      BY <2>4, <3>1 DEF EarnedAll
    <3>3. Earned(f)'
      BY <2>5, <3>2
    <3> QED
      BY <3>2, <3>3 DEF Earned, Sustained, Met
  <2> QED
    BY <2>6, <2>7 DEF EarnedAll
<1>2. ASSUME features' = features, run' = run, transfers \subseteq transfers' PROVE EarnedAll'
  <2>1. ASSUME NEW d \in Days PROVE Earned(features[d])'
    <3> PICK f : f = features[d]
      OBVIOUS
    <3>1. Earned(f) /\ f = features'[d]
      BY <1>2 DEF EarnedAll
    <3>2. Earned(f)'
      BY <1>2, <3>1, EarnedMore
    <3> QED
      BY <3>1, <3>2 DEF Earned, Sustained, Met
  <2>2. ASSUME NEW s \in Runners PROVE Earned(run[s].prior)' /\ (run[s].observed.state = "")'
    <3> PICK f : f = run[s].prior
      OBVIOUS
    <3>1. Earned(f) /\ f = run'[s].prior /\ run'[s].observed.state = ""
      BY <1>2 DEF EarnedAll
    <3>2. Earned(f)'
      BY <1>2, <3>1, EarnedMore
    <3> QED
      BY <3>1, <3>2 DEF Earned, Sustained, Met
  <2> QED
    BY <2>1, <2>2 DEF EarnedAll
<1> QED
  BY <1>1, <1>2 DEF EntryMoves

(* A number lies within the window that its quotient names. *)
LEMMA Bucket ==
    ASSUME NEW a \in Nat, NEW n \in Nat \ {0}
    PROVE  /\ a \div n \in Nat
           /\ n * (a \div n) <= a
           /\ a < n * (a \div n) + n
<1>1. a \div n \in Nat /\ a % n \in 0..(n - 1) /\ a = n * (a \div n) + (a % n)
  OBVIOUS
<1>2. n * (a \div n) \in Nat
  BY <1>1
<1> QED
  BY <1>1, <1>2

(* What lies between two times of one window lies in it, too. *)
LEMMA BetweenBuckets ==
    ASSUME NEW a \in Nat, NEW b \in Nat, NEW c \in Nat, NEW n \in Nat \ {0},
           a <= b, b <= c, a \div n = c \div n
    PROVE  b \div n = a \div n
<1>1. PICK p \in Nat : p = a \div n /\ n * p <= a /\ c < n * p + n
  BY Bucket
<1>2. PICK q \in Nat : q = b \div n /\ n * q <= b /\ b < n * q + n
  BY Bucket
<1>3. ASSUME NEW x \in Nat, NEW y \in Nat, n * x < n * y + n PROVE x <= y
  <2> SUFFICES ASSUME y + 1 <= x PROVE FALSE
    BY <1>3
  <2>1. PICK k \in Nat : x = y + 1 + k
    <3>1. x - (y + 1) \in Nat /\ x = y + 1 + (x - (y + 1))
      OBVIOUS
    <3> QED
      BY <3>1
  <2>2. n * x = n * y + n + n * k /\ n * k \in Nat /\ n * y \in Nat
    BY <2>1
  <2> QED
    BY <1>3, <2>2
<1>4. n * p \in Nat /\ n * q \in Nat
  OBVIOUS
<1>5. n * q < n * p + n /\ n * p < n * q + n
  BY <1>1, <1>2, <1>4
<1>6. q <= p /\ p <= q
  BY <1>3, <1>5
<1> QED
  BY <1>1, <1>2, <1>6

(* The same of one day and of one run. *)
DayKnown(d) ==
    /\ features[d].end # 0 => Day(features[d].end) = d
    /\ Resolved(features[d]) => features[d].end # 0
    /\ ~disturbed => OutcomeKnown(features[d], now)
RunKnows(r) ==
    /\ run[r].at \in {"follow", "mature"} => run[r].prior.end # 0
    /\ ~disturbed =>
        /\ run[r].at # "idle" =>
              /\ run[r].observed.end <= now
              /\ \A d \in Days : OutcomeKnown(features[d], run[r].observed.end)
        /\ run[r].at \in {"follow", "mature"} =>
              \A d \in Days : d = Day(run[r].prior.end) => ~Resolved(features[d])
        /\ run[r].at = "mature" => OutcomeKnown(run[r].prior, run[r].observed.end)
OneRun ==
    ~disturbed => \A r \in Runners, s \in Runners : run[r].at # "idle" /\ run[s].at # "idle" => r = s

(* The invariant, day by day and run by run. *)
LEMMA KnownIs == OutcomesKnown <=> (\A d \in Days : DayKnown(d)) /\ (\A r \in Runners : RunKnows(r)) /\ OneRun
BY DEF OutcomesKnown, DayKnown, RunKnows, OneRun

(* An outcome that is known stays known. *)
LEMMA KnownLater ==
    ASSUME NEW f \in FeatureRows, NEW t \in Nat, NEW u \in Nat, t <= u, OutcomeKnown(f, t)
    PROVE  OutcomeKnown(f, u)
<1>1. f.end \in Nat /\ f.resolvedAt \in Nat
  BY DEF FeatureRows
<1> QED
  BY <1>1 DEF OutcomeKnown

(* Where there is no outcome, none is to be known. *)
LEMMA UnresolvedKnown == ASSUME NEW f, ~Resolved(f), NEW t PROVE OutcomeKnown(f, t)
BY DEF OutcomeKnown

(* A step of a run writes an outcome that is known, or what it looked at. *)
LEMMA RunWrites ==
    ASSUME EntryTypes, EarnedAll, OutcomesKnown, NEW r \in Runners, NEW w \in RunRecords,
           \/ Begun(r, w) \/ PriorTaken(r, w) \/ FollowTaken(r, w) \/ PriorKept(r, w) \/ RunOver(r, w)
    PROVE  /\ features' \in [Days -> FeatureRows]
           /\ ~disturbed' => ~disturbed
           /\ \A d \in Days :
                 \/ features'[d] = features[d]
                 \/ d = Day(features'[d].end) /\ features'[d] = run[r].observed /\ ~Resolved(run[r].observed)
                       /\ run[r].at # "idle"
                 \/ d = Day(features'[d].end) /\ features'[d] = run[r].prior /\ run[r].at = "mature"
<1>1. ~Resolved(run[r].observed)
  BY UnresolvedEarned DEF EarnedAll
<1> QED
  BY <1>1 DEF Begun, PriorTaken, FollowTaken, PriorKept, RunOver, FeaturesSet, EntryTypes

(* After a step of a run, each day's outcome is known. *)
LEMMA DaysKnown ==
    ASSUME EntryTypes, EarnedAll, OutcomesKnown, NEW r \in Runners, NEW w \in RunRecords, now' = now,
           \/ Begun(r, w) \/ PriorTaken(r, w) \/ FollowTaken(r, w) \/ PriorKept(r, w) \/ RunOver(r, w),
           NEW d \in Days
    PROVE  DayKnown(d)'
<1> PICK f : f = features'[d]
  OBVIOUS
<1>1. /\ \/ f = features[d]
         \/ d = Day(f.end) /\ f = run[r].observed /\ ~Resolved(f)
         \/ d = Day(f.end) /\ f = run[r].prior /\ run[r].at = "mature"
      /\ ~disturbed' => ~disturbed
  <2>1. \/ features'[d] = features[d]
        \/ d = Day(features'[d].end) /\ features'[d] = run[r].observed /\ ~Resolved(run[r].observed)
        \/ d = Day(features'[d].end) /\ features'[d] = run[r].prior /\ run[r].at = "mature"
    BY RunWrites
  <2>2. ~disturbed' => ~disturbed
    BY RunWrites
  <2> QED
    BY <2>1, <2>2
<1>2. DayKnown(d) /\ RunKnows(r)
  BY KnownIs
<1>3. f.end # 0 => Day(f.end) = d
  BY <1>1, <1>2 DEF DayKnown
<1>4. Resolved(f) => f.end # 0
  BY <1>1, <1>2 DEF DayKnown, RunKnows
<1>5. ASSUME ~disturbed' PROVE OutcomeKnown(f, now)
  <2>1. CASE f = run[r].prior /\ run[r].at = "mature"
    <3>1. /\ run[r].observed.end \in Nat /\ f \in FeatureRows /\ now \in Nat
          /\ run[r].observed.end <= now /\ OutcomeKnown(f, run[r].observed.end)
      BY <1>1, <1>2, <1>5, <2>1, RunTyped DEF RunKnows, FeatureRows, EntryTypes
    <3> QED
      BY <3>1, KnownLater
  <2> QED
    BY <1>1, <1>2, <1>5, <2>1, UnresolvedKnown DEF DayKnown
<1> QED
  BY <1>3, <1>4, <1>5 DEF DayKnown, OutcomeKnown, Resolved

(* The run that moved knows what it is about to write. *)
LEMMA MoverKnows ==
    ASSUME EntryTypes, EarnedAll, OutcomesKnown, NEW r \in Runners, NEW w \in RunRecords, now' = now,
           RunSet(r, w),
           \/ Begun(r, w) \/ PriorTaken(r, w) \/ FollowTaken(r, w) \/ PriorKept(r, w) \/ RunOver(r, w)
    PROVE  RunKnows(r)'
<1>1. /\ run'[r] = w /\ RunKnows(r) /\ now \in Nat /\ (~disturbed' => ~disturbed)
      /\ \A d \in Days : DayKnown(d)
  BY KnownIs, RunWrites DEF RunSet, EntryTypes
<1>2. CASE Begun(r, w)
  <2>1. ASSUME ~disturbed', NEW d \in Days
        PROVE  w.observed.end <= now /\ OutcomeKnown(features[d], w.observed.end)
    <3>1. w.observed.end = now
      <4>1. w.observed.end \in 1..now /\ w.observed.end >= now
        BY <1>2, <2>1 DEF Begun
      <4>2. now \in Nat
        BY <1>1
      <4> QED
        BY <4>1, <4>2
    <3> QED
      BY <1>1, <2>1, <3>1 DEF DayKnown
  <2>2. ASSUME ~disturbed' PROVE w.observed.end <= now
    <3>1. w.observed.end \in 1..now /\ now \in Nat
      BY <1>1, <1>2 DEF Begun
    <3> QED
      BY <3>1
  <2>3. features' = features /\ w.at = "prior"
    BY <1>2 DEF Begun
  <2> QED
    BY <1>1, <2>1, <2>2, <2>3 DEF RunKnows, OutcomeKnown, Resolved
<1>3. CASE PriorTaken(r, w)
  <2>1. PICK e \in Days : w.prior = features[e] /\ ~Resolved(features[e]) /\ features[e].end # 0
    BY <1>3 DEF PriorTaken
  <2>2. Day(w.prior.end) = e
    BY <1>1, <2>1 DEF DayKnown
  <2> QED
    BY <1>1, <1>3, <2>1, <2>2 DEF PriorTaken, RunKnows, OutcomeKnown, Resolved, Day
<1>4. CASE FollowTaken(r, w)
  <2>1. run[r].observed.end \in Nat /\ run[r].prior \in FeatureRows
    BY RunTyped DEF FeatureRows
  <2>2. /\ w.prior.end = run[r].prior.end /\ OutcomeKnown(w.prior, run[r].observed.end)
        /\ w.observed = run[r].observed /\ run[r].at = "follow" /\ w.at = "mature" /\ features' = features
    BY <1>4, <2>1, OutcomeIs DEF FollowTaken, OutcomeKnown
  <2> QED
    BY <1>1, <2>2 DEF RunKnows, OutcomeKnown, Resolved, Day
<1>5. CASE PriorKept(r, w)
  <2>1. ASSUME ~disturbed', NEW d \in Days PROVE OutcomeKnown(features[d], w.observed.end)'
    <3> PICK f : f = features'[d]
      OBVIOUS
    <3>1. f = features[d] \/ (f = run[r].prior /\ run[r].at = "mature") \/ ~Resolved(f)
      BY <1>5, RunWrites
    <3>2. w.observed.end = run[r].observed.end /\ run[r].at # "idle"
      BY <1>5 DEF PriorKept
    <3>3. OutcomeKnown(f, w.observed.end)
      BY <1>1, <2>1, <3>1, <3>2, UnresolvedKnown DEF RunKnows
    <3> QED
      BY <3>3 DEF OutcomeKnown, Resolved
  <2>2. ASSUME ~disturbed' PROVE w.observed.end <= now
    BY <1>1, <1>5, <2>2 DEF PriorKept, RunKnows
  <2> QED
    BY <1>1, <1>5, <2>1, <2>2 DEF PriorKept, RunKnows, OutcomeKnown, Resolved
<1>6. CASE RunOver(r, w)
  BY <1>1, <1>6, NoFeaturesTyped DEF RunOver, RunKnows
<1> QED
  BY <1>2, <1>3, <1>4, <1>5, <1>6

(* The others are idle, or runs overlap. *)
LEMMA OthersKnow ==
    ASSUME EntryTypes, OutcomesKnown, NEW r \in Runners, NEW w \in RunRecords, now' = now, RunSet(r, w),
           \/ Begun(r, w) \/ PriorTaken(r, w) \/ FollowTaken(r, w) \/ PriorKept(r, w) \/ RunOver(r, w),
           NEW s \in Runners \ {r}
    PROVE  RunKnows(s)' /\ (~disturbed' => run'[s].at = "idle")
<1>1. RunKnows(s) /\ run'[s] = run[s] /\ OneRun
  BY KnownIs DEF RunSet
<1>2. ASSUME ~disturbed' PROVE run[s].at = "idle"
  <2>1. CASE Begun(r, w)
    BY <1>2, <2>1 DEF Begun
  <2>2. CASE ~Begun(r, w)
    <3>1. run[r].at # "idle" /\ disturbed' = disturbed
      BY <2>2 DEF PriorTaken, FollowTaken, PriorKept, RunOver
    <3> QED
      BY <1>1, <1>2, <3>1 DEF OneRun
  <2> QED
    BY <2>1, <2>2
<1> QED
  BY <1>1, <1>2 DEF RunKnows

(* Together, no step of any kind breaks this. *)
LEMMA KnownKept == ASSUME EntryTypes, EarnedAll, OutcomesKnown, EntryMoves PROVE OutcomesKnown'
<1>1. ASSUME NEW r \in Runners, RunMoves(r) PROVE OutcomesKnown'
  <2>1. PICK w \in RunRecords :
           /\ RunSet(r, w)
           /\ \/ Begun(r, w) \/ PriorTaken(r, w) \/ FollowTaken(r, w) \/ PriorKept(r, w) \/ RunOver(r, w)
    BY <1>1 DEF RunMoves
  <2>2. now' = now
    BY <1>1 DEF RunMoves
  <2>3. \A d \in Days : DayKnown(d)'
    BY <2>1, <2>2, DaysKnown
  <2>4. \A s \in Runners : RunKnows(s)'
    BY <2>1, <2>2, MoverKnows, OthersKnow
  <2>5. OneRun'
    BY <2>1, <2>2, OthersKnow DEF OneRun
  <2> QED
    BY <2>3, <2>4, <2>5 DEF OutcomesKnown, DayKnown, RunKnows, OneRun
<1>2. ASSUME now' \in Nat, now <= now', features' = features, run' = run, disturbed' = disturbed
      PROVE  OutcomesKnown'
  <2>1. ASSUME ~disturbed, NEW d \in Days PROVE OutcomeKnown(features[d], now)'
    <3> PICK f : f = features[d]
      OBVIOUS
    <3>1. f \in FeatureRows /\ now \in Nat /\ OutcomeKnown(f, now)
      BY <2>1 DEF EntryTypes, OutcomesKnown
    <3>2. OutcomeKnown(f, now')
      BY <1>2, <3>1, KnownLater
    <3> QED
      BY <1>2, <3>2 DEF OutcomeKnown, Resolved
  <2>2. ASSUME ~disturbed, NEW r \in Runners, run[r].at # "idle" PROVE run[r].observed.end <= now'
    <3>1. run[r].observed.end \in Nat /\ now \in Nat /\ run[r].observed.end <= now
      BY <2>2, RunTyped DEF FeatureRows, EntryTypes, OutcomesKnown
    <3> QED
      BY <1>2, <3>1
  <2>3. \A d \in Days : DayKnown(d)'
    BY <1>2, <2>1 DEF OutcomesKnown, DayKnown, OutcomeKnown, Resolved, Day
  <2>4. \A r \in Runners : RunKnows(r)'
    BY <1>2, <2>2 DEF OutcomesKnown, RunKnows, OutcomeKnown, Resolved, Day
  <2>5. OneRun'
    BY <1>2 DEF OutcomesKnown, OneRun
  <2> QED
    BY <2>3, <2>4, <2>5 DEF OutcomesKnown, DayKnown, RunKnows, OneRun
<1> QED
  BY <1>1, <1>2 DEF EntryMoves

(* No step writes over an outcome that came after its day, unless runs overlapped or
   looked back. *)
LEMMA OutcomesKept ==
    ASSUME EntryTypes, EarnedAll, OutcomesKnown, EntryMoves
    PROVE  \A d \in Days : Resolved(features[d]) /\ ~disturbed /\ Day(features[d].resolvedAt) # d
              => features'[d] = features[d]
<1> SUFFICES ASSUME NEW d \in Days, Resolved(features[d]), ~disturbed, Day(features[d].resolvedAt) # d
             PROVE  features'[d] = features[d]
  OBVIOUS
<1>1. ASSUME NEW r \in Runners, RunMoves(r) PROVE features'[d] = features[d]
  <2>1. PICK w \in RunRecords :
           \/ Begun(r, w) \/ PriorTaken(r, w) \/ FollowTaken(r, w) \/ PriorKept(r, w) \/ RunOver(r, w)
    BY <1>1 DEF RunMoves
  <2>2. /\ features[d].end # 0 /\ Day(features[d].end) = d /\ OutcomeKnown(features[d], now)
        /\ RunKnows(r)
    BY KnownIs DEF DayKnown
  <2>3. CASE d = Day(run[r].observed.end) /\ run[r].at # "idle"
    <3>1. features[d].end <= features[d].resolvedAt /\ features[d].resolvedAt <= run[r].observed.end
      BY <2>2, <2>3 DEF RunKnows, OutcomeKnown
    <3>2. /\ features[d].end \in Nat /\ features[d].resolvedAt \in Nat /\ run[r].observed.end \in Nat
          /\ DayLength \in Nat \ {0}
      BY RunTyped, TimesAssumption DEF EntryTypes, FeatureRows
    <3>3. Day(features[d].resolvedAt) = d
      <4>1. PICK a \in Nat, b \in Nat, c \in Nat :
               a = features[d].end /\ b = features[d].resolvedAt /\ c = run[r].observed.end
        BY <3>2
      <4>2. Day(a) = d /\ Day(c) = d /\ a <= b /\ b <= c
        BY <2>2, <2>3, <3>1, <4>1
      <4>3. Day(b) = Day(a)
        BY <3>2, <4>2, BetweenBuckets DEF Day
      <4> QED
        BY <4>1, <4>2, <4>3
    <3> QED
      BY <3>3
  <2>4. CASE d = Day(run[r].prior.end) /\ run[r].at = "mature"
    BY <2>2, <2>4 DEF RunKnows
  <2> QED
    BY <2>1, <2>3, <2>4, RunWrites
<1> QED
  BY <1>1 DEF EntryMoves

(* The invariant holds at first. *)
LEMMA EntryStarts == EntryInit => EntryInv
<1> SUFFICES ASSUME EntryInit PROVE EntryInv
  OBVIOUS
<1> DEFINE first == [NoFeatures EXCEPT !.end = now, !.tops = {m[1] : m \in transfers}]
<1>0. now \in Nat
  <2>1. now \in 1..DayLength
    BY DEF EntryInit
  <2> QED
    BY <2>1, TimesAssumption
<1>1. /\ transfers \in SUBSET (Counterparties \X {now}) /\ disturbed = FALSE
      /\ features = [d \in Days |-> IF d = Day(now) THEN first ELSE NoFeatures]
      /\ run = [r \in Runners |-> NoRun]
  BY DEF EntryInit
<1>2. first \in FeatureRows /\ first.end = now /\ first.state = ""
  <2>1. {m[1] : m \in transfers} \in SUBSET Counterparties /\ now \in Nat
    BY <1>0, <1>1
  <2> QED
    BY <2>1, NoFeaturesTyped DEF FeatureRows
<1> HIDE DEF first
<1>3. EntryTypes
  <2>1. now \in Nat /\ transfers \subseteq Counterparties \X Nat /\ disturbed \in BOOLEAN
    <3>1. Counterparties \X {now} \subseteq Counterparties \X Nat
      BY <1>0
    <3> QED
      BY <1>0, <1>1, <3>1
  <2>2. features \in [Days -> FeatureRows] /\ run \in [Runners -> RunRecords]
    BY <1>1, <1>2, NoFeaturesTyped
  <2> QED
    BY <2>1, <2>2 DEF EntryTypes, RunRecords
<1>4. \A d \in Days : features[d].state = "" /\ (features[d].end # 0 => features[d].end = now /\ d = Day(now))
  BY <1>1, <1>2, NoFeaturesTyped
<1>5. \A r \in Runners : run[r].at = "idle" /\ run[r].observed.state = "" /\ run[r].prior.state = ""
  BY <1>1, NoFeaturesTyped
<1>6. EarnedAll
  BY <1>4, <1>5, UnresolvedEarned DEF EarnedAll
<1>7. OutcomesKnown
  BY <1>4, <1>5, UnresolvedEarned DEF OutcomesKnown, OutcomeKnown
<1> QED
  BY <1>3, <1>6, <1>7 DEF EntryInv

(* The invariant holds always. *)
LEMMA EntryInvHolds == EntrySpec => []EntryInv
<1>1. ASSUME EntryInv, [EntryNext]_entryVars PROVE EntryInv'
  <2>1. EntryMoves
    BY <1>1, EntrySteps DEF EntryInv
  <2> QED
    BY <1>1, <2>1, EntryTypesKept, EarnedKept, KnownKept DEF EntryInv
<1> QED
  BY <1>1, EntryStarts, PTL DEF EntrySpec

(* Whole hours, rounded, fall short of the time by half an hour at most. *)
LEMMA HoursRound ==
    ASSUME NEW x \in Nat, NEW h \in Nat, Hours(x) >= h
    PROVE  x + 1 >= 2 * h
BY DEF Hours

(* A snapshot called sustained has met two counterparties again within 72 hours, one of
   them after 24 hours, or half an hour less, whichever runs overlap, stop or look back. *)
THEOREM SustainedHolds == EntrySpec => []SustainedIsEarned
<1>1. ASSUME EntryInv, NEW d \in Days, features[d].state = "sustained"
      PROVE  LET met == Met(features[d], features[d].end + Maturity)
             IN  /\ \E m \in met, n \in met : m[1] # n[1]
                 /\ \E m \in met : m[2] + 1 >= features[d].end + 2 * Persistence
  <2> PICK f : f = features[d]
    OBVIOUS
  <2> DEFINE met == Met(f, f.end + Maturity)
  <2>1. /\ \E m \in met, n \in met : m[1] # n[1]
        /\ \E m \in met : Hours(m[2] - f.end) >= Persistence
    BY <1>1 DEF EntryInv, EarnedAll, Earned, Sustained
  <2>2. PICK m \in met : Hours(m[2] - f.end) >= Persistence
    BY <2>1
  <2>3. f.end \in Nat /\ m[2] \in Nat /\ m[2] > f.end
    BY <1>1 DEF EntryInv, EntryTypes, FeatureRows, Met
  <2>4. m[2] - f.end \in Nat /\ Persistence \in Nat
    BY <2>3, TimesAssumption
  <2>5. (m[2] - f.end) + 1 >= 2 * Persistence
    BY <2>2, <2>4, HoursRound
  <2>6. m[2] + 1 >= f.end + 2 * Persistence
    BY <2>3, <2>4, <2>5
  <2> QED
    BY <2>1, <2>6
<1>2. EntryInv => SustainedIsEarned
  BY <1>1 DEF SustainedIsEarned
<1> QED
  BY <1>2, EntryInvHolds, PTL

(* No later run changes an outcome that came after the snapshot's day, unless runs
   overlapped or looked back. *)
THEOREM OutcomesHold == EntrySpec => OutcomesStay
<1>1. EntryInv /\ [EntryNext]_entryVars
         => [\A d \in Days :
                Resolved(features[d]) /\ ~disturbed /\ Day(features[d].resolvedAt) # d
                    => features'[d] = features[d]]_entryVars
  BY EntrySteps, OutcomesKept DEF EntryInv
<1> QED
  BY <1>1, EntryInvHolds, PTL DEF EntrySpec, OutcomesStay

-----------------------------------------------------------------------------
(* Transfer evidence. *)
SeenRows == [transfer : Transfers, downstream : Nat]
TableRows == [seen : SeenRows, day : Nat]

SnapRecords ==
    [at : {"idle", "look", "delete", "insert"}, day : Nat,
     todo : SUBSET (Transfers \cup Tables \cup SeenRows), report : SUBSET SeenRows, met : BOOLEAN]

EvidenceTypes ==
    /\ moment \in Nat /\ found \in [Transfers -> Nat]
    /\ rows \subseteq TableRows
    /\ snap \in [ShadowRuns -> SnapRecords]
    /\ \A s \in ShadowRuns : snap[s].at = "insert" => snap[s].todo \subseteq SeenRows
    /\ reported \in [EvidenceDays -> [settled : BOOLEAN, report : SUBSET SeenRows]]

(* Nothing is of a day to come. *)
DaysPast ==
    /\ \A q \in rows : q.day <= EvidenceDay(moment)
    /\ \A s \in ShadowRuns : snap[s].at # "idle" => snap[s].day <= EvidenceDay(moment)
    /\ \A d \in EvidenceDays : reported[d].settled => d <= EvidenceDay(moment)

(* A run that met no other works alone, on a day that no row is after. *)
AloneAtWork(s) ==
    snap[s].at # "idle" /\ ~snap[s].met =>
        /\ \A r \in ShadowRuns \ {s} : snap[r].at = "idle"
        /\ \A q \in rows : q.day <= snap[s].day
        /\ snap[s].at = "delete" =>
              \A q \in rows : q.day = snap[s].day => TableOf[q.seen.transfer] \in snap[s].todo
        /\ snap[s].at = "insert" =>
              /\ snap[s].todo \subseteq snap[s].report
              /\ \A q \in rows : q.day = snap[s].day => q.seen \in snap[s].report
              /\ \A o \in snap[s].report \ snap[s].todo : Stored(o)

(* What a settled day holds, no run at work is about to change. *)
SettledHolds(d) ==
    reported[d].settled =>
        /\ \A s \in ShadowRuns : snap[s].at # "idle" => snap[s].day > d
        /\ \A q \in rows : q.day = d => q.seen \in reported[d].report
        /\ \A o \in reported[d].report : \E q \in rows : q.seen = o /\ q.day <= d

EvidenceRest ==
    /\ DaysPast
    /\ \A s \in ShadowRuns : AloneAtWork(s)
    /\ \A d \in EvidenceDays : SettledHolds(d)

EvidenceInv == EvidenceTypes /\ EvidenceRest

(* A later moment is not of an earlier day. *)
LEMMA LaterDay ==
    ASSUME NEW a \in Nat, NEW b \in Nat, a <= b
    PROVE  /\ EvidenceDay(a) \in Nat /\ EvidenceDay(b) \in Nat
           /\ EvidenceDay(a) <= EvidenceDay(b)
<1> DEFINE n == Lookback
<1>n. n \in Nat \ {0}
  BY TransfersAssumption
<1> HIDE DEF n
<1>1. PICK p \in Nat, q \in Nat : p = a \div n /\ q = b \div n
  BY <1>n, Bucket
<1>2. n * p <= a /\ n * q <= b /\ b < n * q + n /\ n * p \in Nat /\ n * q \in Nat
  BY <1>n, <1>1, Bucket
<1>3. ASSUME q < p PROVE FALSE
  <2>1. PICK k \in Nat : p = q + 1 + k
    <3>1. p - q - 1 \in Nat
      BY <1>3
    <3> QED
      BY <3>1
  <2>2. n * p = n * q + n + n * k /\ n * k \in Nat
    BY <1>n, <2>1
  <2> QED
    BY <1>n, <1>2, <2>2
<1>4. p <= q
  BY <1>3
<1> QED
  BY <1>1, <1>4 DEF n, EvidenceDay

(* The steps of a run. *)
SnapSet(s, w) ==
    /\ snap' \in [ShadowRuns -> SnapRecords] /\ snap'[s] = w
    /\ \A r \in ShadowRuns \ {s} : snap'[r] = snap[r]

Begins(s, d) ==
    /\ d = EvidenceDay(moment)
    /\ snap' \in [ShadowRuns -> SnapRecords]
    /\ snap[s].at = "idle"
    /\ snap'[s].at = "look" /\ snap'[s].day = d
    /\ ~snap'[s].met => \A r \in ShadowRuns : snap[r].at = "idle"
    /\ \A r \in ShadowRuns \ {s} :
          /\ snap'[r].at = snap[r].at /\ snap'[r].day = snap[r].day /\ snap'[r].todo = snap[r].todo
          /\ snap[r].at # "idle" => snap'[r].met
    /\ reported' = [reported EXCEPT ![d] = Unsettled]
    /\ rows' = rows
Looks(s, w) ==
    /\ snap[s].at = "look" /\ w.at \in {"look", "delete"} /\ (w.at = "delete" => w.todo = Tables)
    /\ rows' = rows /\ reported' = reported
Deletes(s, w) ==
    /\ snap[s].at = "delete" /\ w.at = "delete"
    /\ \E table : /\ w.todo = snap[s].todo \ {table}
                  /\ rows' = {q \in rows : ~OfDay(q, table, snap[s].day)}
    /\ reported' = reported
Deleted(s, w) ==
    /\ snap[s].at = "delete" /\ snap[s].todo = {}
    /\ w.at = "insert" /\ w.todo = w.report
    /\ rows' = rows /\ reported' = reported
Inserts(s, w) ==
    /\ snap[s].at = "insert" /\ w.at = "insert" /\ w.report = snap[s].report
    /\ \E o \in SeenRows : /\ o \in snap[s].todo /\ w.todo = snap[s].todo \ {o}
                           /\ rows' = rows \cup IF Stored(o) THEN {} ELSE {[seen |-> o, day |-> snap[s].day]}
    /\ reported' = reported
Ends(s, w) ==
    /\ snap[s].at # "idle" /\ w.at = "idle" /\ rows' = rows
    /\ \/ reported' = reported
       \/ /\ snap[s].at = "insert" /\ snap[s].todo = {}
          /\ reported' = [reported EXCEPT ![snap[s].day] =
                             [settled |-> ~snap[s].met, report |-> snap[s].report]]
Works(s, w) ==
    /\ w \in SnapRecords /\ SnapSet(s, w) /\ (w.at # "idle" => w.day = snap[s].day /\ w.met = snap[s].met)
    /\ Looks(s, w) \/ Deletes(s, w) \/ Deleted(s, w) \/ Inserts(s, w) \/ Ends(s, w)
EvidenceMoves ==
    \/ moment' = moment /\ \E s \in ShadowRuns : Begins(s, EvidenceDay(moment)) \/ \E w : Works(s, w)
    \/ /\ moment' \in Nat /\ moment <= moment'
       /\ rows' = rows /\ snap' = snap /\ reported' = reported

(* What a run of the evidence has in hand. *)
LEMMA SnapTyped ==
    ASSUME EvidenceTypes, NEW s \in ShadowRuns
    PROVE  /\ snap[s] \in SnapRecords /\ snap[s].day \in Nat /\ snap[s].report \in SUBSET SeenRows
           /\ snap[s].met \in BOOLEAN
BY DEF EvidenceTypes, SnapRecords

(* The record of one run is set. *)
LEMMA SnapsSet ==
    ASSUME EvidenceTypes, NEW s \in ShadowRuns, NEW w \in SnapRecords, snap' = [snap EXCEPT ![s] = w]
    PROVE  SnapSet(s, w)
BY DEF EvidenceTypes, SnapSet

(* A run that is idle. *)
LEMMA NoSnapshotTyped == NoSnapshot \in SnapRecords /\ NoSnapshot.at = "idle"
BY DEF NoSnapshot, SnapRecords

(* A run begins, and meets those under way. *)
LEMMA ReadBegins ==
    ASSUME EvidenceTypes, NEW s \in ShadowRuns, ReadTransactions(s)
    PROVE  Begins(s, EvidenceDay(moment))
<1> DEFINE others == \E r \in ShadowRuns : snap[r].at # "idle"
           w == [at |-> "look", day |-> EvidenceDay(moment), todo |-> InWindow, report |-> {}, met |-> others]
           v(r) == [snap[r] EXCEPT !.met = snap[r].at # "idle"]
<1>1. EvidenceDay(moment) \in Nat
  BY LaterDay DEF EvidenceTypes
<1>2. w \in SnapRecords /\ w.at = "look" /\ w.day = EvidenceDay(moment) /\ w.met = others
  BY <1>1, Zenon DEF SnapRecords, InWindow
<1>3. ASSUME NEW r \in ShadowRuns
      PROVE  /\ v(r) \in SnapRecords /\ v(r).at = snap[r].at
             /\ v(r).day = snap[r].day /\ v(r).todo = snap[r].todo
             /\ v(r).met = (snap[r].at # "idle")
  <2>1. snap[r] \in SnapRecords
    BY SnapTyped
  <2>2. (snap[r].at # "idle") \in BOOLEAN
    BY Zenon
  <2> QED
    BY <2>1, <2>2, Zenon DEF SnapRecords
<1>4. snap' = [r \in ShadowRuns |-> IF r = s THEN w ELSE v(r)]
  BY DEF ReadTransactions
<1> HIDE DEF w, v
<1>5. snap' \in [ShadowRuns -> SnapRecords] /\ snap'[s] = w /\ \A r \in ShadowRuns \ {s} : snap'[r] = v(r)
  BY <1>2, <1>3, <1>4
<1>6. /\ snap'[s].at = "look" /\ snap'[s].day = EvidenceDay(moment)
      /\ ~snap'[s].met => \A r \in ShadowRuns : snap[r].at = "idle"
  BY <1>2, <1>5, Zenon
<1>7. ASSUME NEW r \in ShadowRuns \ {s}
      PROVE  /\ snap'[r].at = snap[r].at /\ snap'[r].day = snap[r].day /\ snap'[r].todo = snap[r].todo
             /\ snap[r].at # "idle" => snap'[r].met
  BY <1>3, <1>5, Zenon
<1> QED
  BY <1>5, <1>6, <1>7 DEF ReadTransactions, Begins

(* It looks at each transfer of the window. *)
LEMMA LookWorks ==
    ASSUME EvidenceTypes, NEW s \in ShadowRuns,
           BeginReplace(s) \/ \E t \in Transfers : BuildObservation(s, t)
    PROVE  \E w : Works(s, w)
<1>1. ASSUME BeginReplace(s) PROVE \E w : Works(s, w)
  <2> DEFINE w == [snap[s] EXCEPT !.at = "delete", !.todo = Tables]
  <2>1. w \in SnapRecords /\ w.at = "delete" /\ w.todo = Tables /\ w.day = snap[s].day /\ w.met = snap[s].met
    BY SnapTyped DEF SnapRecords
  <2>2. snap' = [snap EXCEPT ![s] = w]
    BY <1>1 DEF BeginReplace
  <2> HIDE DEF w
  <2> QED
    BY <1>1, <2>1, <2>2, SnapsSet DEF BeginReplace, Works, Looks
<1>2. ASSUME NEW t \in Transfers, BuildObservation(s, t) PROVE \E w : Works(s, w)
  <2> DEFINE kept == found[t] > 0 \/ TableOf[t] \in Unfinished
             add == IF kept THEN {[transfer |-> t, downstream |-> found[t]]} ELSE {}
             w == [snap[s] EXCEPT !.todo = snap[s].todo \ {t}, !.report = snap[s].report \cup add]
  <2>1. add \in SUBSET SeenRows
    BY DEF SeenRows, EvidenceTypes
  <2>2. snap' = [snap EXCEPT ![s] = w] /\ snap[s].at = "look"
    BY <1>2 DEF BuildObservation
  <2> HIDE DEF add
  <2>3. w \in SnapRecords /\ w.at = snap[s].at /\ w.day = snap[s].day /\ w.met = snap[s].met
    BY <2>1, SnapTyped DEF SnapRecords
  <2> HIDE DEF w
  <2> QED
    BY <1>2, <2>2, <2>3, SnapsSet DEF BuildObservation, Works, Looks
<1> QED
  BY <1>1, <1>2

(* It deletes the day's rows, a table at a time. *)
LEMMA DeleteWorks ==
    ASSUME EvidenceTypes, NEW s \in ShadowRuns,
           UpsertFeatures(s) \/ \E table \in Tables : DeleteForDay(s, table)
    PROVE  \E w : Works(s, w)
<1>1. ASSUME UpsertFeatures(s) PROVE \E w : Works(s, w)
  <2> DEFINE w == [snap[s] EXCEPT !.at = "insert", !.todo = snap[s].report]
  <2>1. /\ w \in SnapRecords /\ w.at = "insert" /\ w.todo = w.report /\ w.day = snap[s].day
        /\ w.met = snap[s].met
    BY SnapTyped DEF SnapRecords
  <2>2. snap' = [snap EXCEPT ![s] = w]
    BY <1>1 DEF UpsertFeatures
  <2> HIDE DEF w
  <2> QED
    BY <1>1, <2>1, <2>2, SnapsSet DEF UpsertFeatures, Works, Deleted
<1>2. ASSUME NEW table \in Tables, DeleteForDay(s, table) PROVE \E w : Works(s, w)
  <2> DEFINE w == [snap[s] EXCEPT !.todo = snap[s].todo \ {table}]
  <2>1. /\ w \in SnapRecords /\ w.at = snap[s].at /\ w.todo = snap[s].todo \ {table} /\ w.day = snap[s].day
        /\ w.met = snap[s].met
    BY SnapTyped DEF SnapRecords
  <2>2. snap' = [snap EXCEPT ![s] = w]
    BY <1>2 DEF DeleteForDay
  <2> HIDE DEF w
  <2> QED
    BY <1>2, <2>1, <2>2, SnapsSet DEF DeleteForDay, Works, Deletes
<1> QED
  BY <1>1, <1>2

(* It inserts each observation that is not stored yet. *)
LEMMA InsertWorks ==
    ASSUME EvidenceTypes, NEW s \in ShadowRuns, NEW o \in Observations, Insert(s, o)
    PROVE  \E w : Works(s, w)
<1> DEFINE w == [snap[s] EXCEPT !.todo = snap[s].todo \ {o}]
<1>1. /\ w \in SnapRecords /\ w.at = snap[s].at /\ w.todo = snap[s].todo \ {o} /\ w.day = snap[s].day
      /\ w.met = snap[s].met /\ w.report = snap[s].report
  BY SnapTyped DEF SnapRecords
<1>2. snap' = [snap EXCEPT ![s] = w]
  BY DEF Insert
<1>3. o \in SeenRows
  BY DEF Observations, SeenRows
<1> HIDE DEF w
<1> QED
  BY <1>1, <1>2, <1>3, SnapsSet DEF Insert, Works, Inserts

(* It ends, whole or not. *)
LEMMA EndWorks ==
    ASSUME EvidenceTypes, NEW s \in ShadowRuns, Settle(s) \/ SnapshotFails(s)
    PROVE  \E w : Works(s, w)
<1>1. SnapSet(s, NoSnapshot)
  BY NoSnapshotTyped, SnapsSet DEF Settle, SnapshotFails
<1>2. Ends(s, NoSnapshot)
  BY NoSnapshotTyped DEF Settle, SnapshotFails, Ends
<1> QED
  BY <1>1, <1>2, NoSnapshotTyped DEF Works

(* Every step of the specification is one of these. *)
LEMMA EvidenceSteps == ASSUME EvidenceTypes, [EvidenceNext]_evidenceVars PROVE EvidenceMoves
<1>1. moment \in Nat
  BY DEF EvidenceTypes
<1>2. ASSUME NEW s \in ShadowRuns, ReadTransactions(s) PROVE EvidenceMoves
  BY <1>2, ReadBegins DEF EvidenceMoves, ReadTransactions
<1>3. ASSUME NEW s \in ShadowRuns, SnapshotStep(s) PROVE EvidenceMoves
  <2>1. \E w : Works(s, w)
    BY <1>3, LookWorks, DeleteWorks, InsertWorks, EndWorks DEF SnapshotStep
  <2>2. moment' = moment
    BY <1>3 DEF SnapshotStep, BuildObservation, BeginReplace, DeleteForDay, UpsertFeatures, Insert,
       Settle,
                SnapshotFails
  <2> QED
    BY <2>1, <2>2 DEF EvidenceMoves
<1>4. ASSUME Pass \/ (\E t \in Transfers : StoreDownstream(t)) \/ UNCHANGED evidenceVars PROVE EvidenceMoves
  BY <1>1, <1>4 DEF EvidenceMoves, Pass, StoreDownstream, evidenceVars
<1> QED
  BY <1>2, <1>3, <1>4 DEF EvidenceNext

(* Time goes on, and so do the days. *)
LEMMA MomentKept == ASSUME EvidenceTypes, EvidenceMoves
                    PROVE  /\ moment' \in Nat
                           /\ EvidenceDay(moment) \in Nat /\ EvidenceDay(moment)' \in Nat
                           /\ EvidenceDay(moment) <= EvidenceDay(moment)'
<1>1. moment \in Nat /\ moment' \in Nat /\ moment <= moment'
  BY DEF EvidenceTypes, EvidenceMoves
<1> QED
  BY <1>1, LaterDay DEF EvidenceDay

(* The report of one day is set; a day out of bounds has none. *)
LEMMA ReportSet ==
    ASSUME EvidenceTypes, NEW e \in Nat, NEW v \in [settled : BOOLEAN, report : SUBSET SeenRows],
           reported' = [reported EXCEPT ![e] = v]
    PROVE  /\ reported' \in [EvidenceDays -> [settled : BOOLEAN, report : SUBSET SeenRows]]
           /\ \A d \in EvidenceDays : reported'[d] = IF d = e THEN v ELSE reported[d]
BY DEF EvidenceTypes

(* What a step makes of the reports: all stay, or that of one day is made anew. *)
LEMMA ReportsMove ==
    ASSUME EvidenceTypes, EvidenceMoves
    PROVE  /\ reported' \in [EvidenceDays -> [settled : BOOLEAN, report : SUBSET SeenRows]]
           /\ \A s \in ShadowRuns : \A w : Works(s, w) =>
                \/ reported' = reported
                \/ /\ Ends(s, w) /\ snap[s].at = "insert" /\ snap[s].todo = {}
                   /\ \A d \in EvidenceDays : reported'[d] =
                         IF d = snap[s].day THEN [settled |-> ~snap[s].met, report |-> snap[s].report]
                         ELSE reported[d]
           /\ \A s \in ShadowRuns : \A e : Begins(s, e) =>
                \A d \in EvidenceDays : reported'[d] = IF d = e THEN Unsettled ELSE reported[d]
<1>1. Unsettled \in [settled : BOOLEAN, report : SUBSET SeenRows]
  BY DEF Unsettled
<1>2. ASSUME NEW s \in ShadowRuns, NEW w, Works(s, w)
      PROVE  /\ reported' \in [EvidenceDays -> [settled : BOOLEAN, report : SUBSET SeenRows]]
             /\ \/ reported' = reported
                \/ /\ Ends(s, w) /\ snap[s].at = "insert" /\ snap[s].todo = {}
                   /\ \A d \in EvidenceDays : reported'[d] =
                         IF d = snap[s].day THEN [settled |-> ~snap[s].met, report |-> snap[s].report]
                         ELSE reported[d]
  <2>1. CASE reported' = reported
    BY <2>1 DEF EvidenceTypes
  <2>2. CASE reported' # reported
    <3> DEFINE v == [settled |-> ~snap[s].met, report |-> snap[s].report]
    <3>1. /\ Ends(s, w) /\ snap[s].at = "insert" /\ snap[s].todo = {}
          /\ reported' = [reported EXCEPT ![snap[s].day] = v]
      BY <1>2, <2>2 DEF Works, Looks, Deletes, Deleted, Inserts, Ends
    <3>2. v \in [settled : BOOLEAN, report : SUBSET SeenRows]
      BY SnapTyped
    <3> HIDE DEF v
    <3>3. /\ reported' \in [EvidenceDays -> [settled : BOOLEAN, report : SUBSET SeenRows]]
          /\ \A d \in EvidenceDays : reported'[d] = IF d = snap[s].day THEN v ELSE reported[d]
      BY <3>1, <3>2, SnapTyped, ReportSet
    <3> QED
      BY <3>1, <3>3 DEF v
  <2> QED
    BY <2>1, <2>2
<1>3. ASSUME NEW s \in ShadowRuns, NEW e, Begins(s, e)
      PROVE  /\ reported' \in [EvidenceDays -> [settled : BOOLEAN, report : SUBSET SeenRows]]
             /\ \A d \in EvidenceDays : reported'[d] = IF d = e THEN Unsettled ELSE reported[d]
  <2>1. e \in Nat
    BY <1>3, MomentKept DEF Begins
  <2> QED
    BY <1>1, <1>3, <2>1, ReportSet DEF Begins
<1>4. reported' \in [EvidenceDays -> [settled : BOOLEAN, report : SUBSET SeenRows]]
  BY <1>2, <1>3 DEF EvidenceMoves, EvidenceTypes
<1> QED
  BY <1>2, <1>3, <1>4

(* The types are kept. *)
LEMMA EvidenceTypesKept == ASSUME EvidenceTypes, [EvidenceNext]_evidenceVars PROVE EvidenceTypes'
<1> USE EvidenceSteps
<1>1. moment' \in Nat
  BY MomentKept
<1>2. found' \in [Transfers -> Nat]
  <2>1. found \in [Transfers -> Nat]
    BY DEF EvidenceTypes
  <2>2. ASSUME NEW t \in Transfers, StoreDownstream(t) PROVE found' \in [Transfers -> Nat]
    BY <2>1, <2>2 DEF StoreDownstream
  <2>3. ASSUME NEW s \in ShadowRuns, ReadTransactions(s) \/ SnapshotStep(s) PROVE found' = found
    BY <2>3 DEF SnapshotStep, ReadTransactions, BuildObservation, BeginReplace, DeleteForDay,
                UpsertFeatures, Insert, Settle, SnapshotFails
  <2>4. Pass \/ UNCHANGED evidenceVars => found' = found
    BY DEF Pass, evidenceVars
  <2> QED
    BY <2>1, <2>2, <2>3, <2>4 DEF EvidenceNext
<1>3. reported' \in [EvidenceDays -> [settled : BOOLEAN, report : SUBSET SeenRows]]
  BY ReportsMove
<1>4. ASSUME NEW s \in ShadowRuns, NEW w, Works(s, w)
      PROVE  /\ rows' \subseteq TableRows /\ snap' \in [ShadowRuns -> SnapRecords]
             /\ \A r \in ShadowRuns : snap'[r].at = "insert" => snap'[r].todo \subseteq SeenRows
  <2>1. rows' \subseteq TableRows
    <3>1. ASSUME NEW o \in SeenRows PROVE [seen |-> o, day |-> snap[s].day] \in TableRows
      BY SnapTyped DEF TableRows
    <3> QED
      BY <1>4, <3>1 DEF EvidenceTypes, Works, Looks, Deletes, Deleted, Inserts, Ends
  <2>2. w.at = "insert" => w.todo \subseteq SeenRows
    <3>1. w.report \in SUBSET SeenRows
      BY <1>4 DEF Works, SnapRecords
    <3> QED
      BY <1>4, <3>1 DEF EvidenceTypes, Works, Looks, Deletes, Deleted, Inserts, Ends
  <2> QED
    BY <1>4, <2>1, <2>2 DEF EvidenceTypes, Works, SnapSet
<1>5. ASSUME NEW s \in ShadowRuns, Begins(s, EvidenceDay(moment))
      PROVE  /\ rows' \subseteq TableRows /\ snap' \in [ShadowRuns -> SnapRecords]
             /\ \A r \in ShadowRuns : snap'[r].at = "insert" => snap'[r].todo \subseteq SeenRows
  BY <1>5 DEF Begins, EvidenceTypes
<1>6. /\ rows' \subseteq TableRows /\ snap' \in [ShadowRuns -> SnapRecords]
      /\ \A r \in ShadowRuns : snap'[r].at = "insert" => snap'[r].todo \subseteq SeenRows
  BY <1>4, <1>5 DEF EvidenceMoves, EvidenceTypes
<1> QED
  BY <1>1, <1>2, <1>3, <1>6 DEF EvidenceTypes

(* Nothing comes to be of a day to come. *)
LEMMA DaysKept == ASSUME EvidenceTypes, DaysPast, EvidenceMoves PROVE DaysPast'
<1> PICK p, q : p = EvidenceDay(moment) /\ q = EvidenceDay(moment)'
  OBVIOUS
<1>1. p \in Nat /\ q \in Nat /\ p <= q
  BY MomentKept
<1>2. /\ \A x \in rows : x.day \in Nat /\ x.day <= p
      /\ \A s \in ShadowRuns : snap[s].day \in Nat /\ (snap[s].at # "idle" => snap[s].day <= p)
      /\ \A d \in EvidenceDays : d \in Int /\ (reported[d].settled => d <= p)
  BY SnapTyped DEF DaysPast, EvidenceTypes, TableRows, EvidenceDays
<1>3. ASSUME NEW s \in ShadowRuns, Begins(s, EvidenceDay(moment)) \/ \E w : Works(s, w)
      PROVE  /\ \A x \in rows' : x.day \in Nat /\ x.day <= p
             /\ \A r \in ShadowRuns : snap'[r].at # "idle" => snap'[r].day \in Nat /\ snap'[r].day <= p
             /\ \A d \in EvidenceDays : reported'[d].settled => d <= p
  <2>1. ASSUME Begins(s, EvidenceDay(moment))
        PROVE  /\ \A x \in rows' : x.day \in Nat /\ x.day <= p
               /\ \A r \in ShadowRuns : snap'[r].at # "idle" => snap'[r].day \in Nat /\ snap'[r].day <= p
               /\ \A d \in EvidenceDays : reported'[d].settled => d <= p
    <3>1. \A d \in EvidenceDays : reported'[d].settled => d <= p
      BY <1>2, <2>1, ReportsMove DEF Unsettled
    <3> QED
      BY <1>1, <1>2, <2>1, <3>1 DEF Begins
  <2>2. ASSUME NEW w, Works(s, w)
        PROVE  /\ \A x \in rows' : x.day \in Nat /\ x.day <= p
               /\ \A r \in ShadowRuns : snap'[r].at # "idle" => snap'[r].day \in Nat /\ snap'[r].day <= p
               /\ \A d \in EvidenceDays : reported'[d].settled => d <= p
    <3>1. snap[s].at # "idle"
      BY <2>2 DEF Works, Looks, Deletes, Deleted, Inserts, Ends
    <3>2. \A x \in rows' : x.day \in Nat /\ x.day <= p
      BY <1>2, <2>2, <3>1 DEF Works, Looks, Deletes, Deleted, Inserts, Ends
    <3>3. \A d \in EvidenceDays : reported'[d].settled => d <= p
      BY <1>2, <2>2, <3>1, ReportsMove
    <3> QED
      BY <1>2, <2>2, <3>1, <3>2, <3>3 DEF Works, SnapSet
  <2> QED
    BY <1>3, <2>1, <2>2
<1>4. /\ \A x \in rows' : x.day \in Nat /\ x.day <= p
      /\ \A r \in ShadowRuns : snap'[r].at # "idle" => snap'[r].day \in Nat /\ snap'[r].day <= p
      /\ \A d \in EvidenceDays : reported'[d].settled => d <= p
  BY <1>2, <1>3 DEF EvidenceMoves
<1> QED
  BY <1>1, <1>2, <1>4 DEF DaysPast

(* A run that meets no other has deleted what it went through and stored what it inserted. *)
LEMMA AtWorkKept ==
    ASSUME EvidenceTypes, EvidenceRest, EvidenceMoves, NEW r \in ShadowRuns
    PROVE  AloneAtWork(r)'
<1>1. CASE rows' = rows /\ snap' = snap
  BY <1>1 DEF EvidenceRest, AloneAtWork, Stored
<1>2. ASSUME NEW s \in ShadowRuns, Begins(s, EvidenceDay(moment)) PROVE AloneAtWork(r)'
  <2>1. CASE r # s
    BY <1>2, <2>1 DEF Begins, AloneAtWork
  <2>2. CASE r = s
    BY <1>2, <2>2 DEF Begins, AloneAtWork, EvidenceRest, DaysPast
  <2> QED
    BY <2>1, <2>2
<1>3. ASSUME NEW s \in ShadowRuns, NEW w, Works(s, w) PROVE AloneAtWork(r)'
  <2>1. snap[s].at # "idle"
    BY <1>3 DEF Works, Looks, Deletes, Deleted, Inserts, Ends
  <2>2. CASE r # s
    BY <1>3, <2>1, <2>2 DEF Works, SnapSet, EvidenceRest, AloneAtWork
  <2>3. CASE r = s /\ w.at # "idle" /\ ~w.met
    <3>1. /\ \A x \in ShadowRuns \ {s} : snap'[x].at = "idle"
          /\ snap'[s] = w /\ w.day = snap[s].day /\ ~snap[s].met
      BY <1>3, <2>1, <2>3 DEF Works, SnapSet, EvidenceRest, AloneAtWork
    <3>2. \A q \in rows : q.day <= w.day
      BY <2>1, <3>1 DEF EvidenceRest, AloneAtWork
    <3>3. \A q \in rows : TableOf[q.seen.transfer] \in Tables
      BY TransfersAssumption DEF EvidenceTypes, TableRows, SeenRows
    <3>4. AloneAtWork(s)
      BY DEF EvidenceRest
    <3>5. CASE Looks(s, w)
      BY <2>1, <3>1, <3>2, <3>3, <3>5, <2>3 DEF Looks, AloneAtWork
    <3>6. CASE Deletes(s, w)
      BY <2>1, <3>1, <3>2, <3>4, <3>6, <2>3 DEF Deletes, AloneAtWork, OfDay
    <3>7. CASE Deleted(s, w)
      BY <2>1, <3>1, <3>2, <3>4, <3>7, <2>3 DEF Deleted, AloneAtWork
    <3>8. CASE Inserts(s, w)
      <4>1. PICK o \in SeenRows :
               /\ o \in snap[s].todo /\ w.todo = snap[s].todo \ {o}
               /\ rows' = rows \cup IF Stored(o) THEN {} ELSE {[seen |-> o, day |-> snap[s].day]}
        BY <3>8 DEF Inserts
      <4>2. w.at = "insert" /\ snap[s].at = "insert" /\ w.report = snap[s].report
        BY <3>8 DEF Inserts
      <4>3. /\ snap[s].todo \subseteq snap[s].report
            /\ \A q \in rows : q.day = snap[s].day => q.seen \in snap[s].report
            /\ \A x \in snap[s].report \ snap[s].todo : Stored(x)
        BY <3>1, <3>4, <4>2 DEF AloneAtWork
      <4>4. \A q \in rows' : q.day <= w.day /\ (q.day = w.day => q.seen \in w.report)
        BY <3>1, <3>2, <4>1, <4>2, <4>3, SnapTyped
      <4>5. ASSUME NEW x \in w.report \ w.todo PROVE Stored(x)'
        <5>1. CASE x = o
          <6>1. \E q \in rows' : q.seen = o
            <7>1. CASE Stored(o)
              BY <4>1, <7>1 DEF Stored
            <7>2. CASE ~Stored(o)
              <8> DEFINE q == [seen |-> o, day |-> snap[s].day]
              <8>1. q.seen = o
                OBVIOUS
              <8>2. rows' = rows \cup {q}
                BY <4>1, <7>2
              <8> HIDE DEF q
              <8> QED
                BY <8>1, <8>2
            <7> QED
              BY <7>1, <7>2
          <6> QED
            BY <5>1, <6>1 DEF Stored
        <5>2. CASE x # o
          <6>1. x \in snap[s].report \ snap[s].todo
            BY <4>1, <4>2, <4>5, <5>2
          <6> QED
            BY <4>1, <4>3, <6>1 DEF Stored
        <5> QED
          BY <5>1, <5>2
      <4> QED
        BY <2>3, <3>1, <4>1, <4>2, <4>3, <4>4, <4>5 DEF AloneAtWork
    <3>9. CASE Ends(s, w)
      BY <2>3, <3>9 DEF Ends
    <3> QED
      BY <1>3, <3>5, <3>6, <3>7, <3>8, <3>9 DEF Works
  <2>4. CASE r = s /\ (w.at = "idle" \/ w.met)
    BY <1>3, <2>4 DEF Works, SnapSet, AloneAtWork
  <2> QED
    BY <2>2, <2>3, <2>4
<1> QED
  BY <1>1, <1>2, <1>3 DEF EvidenceMoves

(* Runs of later days leave a settled day's rows where they are. *)
LEMMA SettledKept ==
    ASSUME EvidenceTypes, EvidenceRest, EvidenceMoves, NEW d \in EvidenceDays
    PROVE  SettledHolds(d)'
<1>d. d \in Int /\ (\A s \in ShadowRuns : snap[s].day \in Nat) /\ (\A q \in rows : q.day \in Nat)
  BY SnapTyped DEF EvidenceDays, EvidenceTypes, TableRows
<1>h. SettledHolds(d)
  BY DEF EvidenceRest
<1>1. CASE rows' = rows /\ snap' = snap /\ reported' = reported
  BY <1>h, <1>1 DEF SettledHolds
<1>2. ASSUME NEW s \in ShadowRuns, Begins(s, EvidenceDay(moment)) PROVE SettledHolds(d)'
  <2> PICK e : e = EvidenceDay(moment)
    OBVIOUS
  <2>1. e \in Nat
    BY MomentKept
  <2>2. reported'[d] = IF d = e THEN Unsettled ELSE reported[d]
    BY <1>2, ReportsMove
  <2>3. CASE d = e
    BY <2>2, <2>3 DEF Unsettled, SettledHolds
  <2>4. CASE d # e
    <3>1. reported[d].settled => d < e
      BY <1>d, <2>1, <2>4 DEF EvidenceRest, DaysPast
    <3>2. snap'[s].day = e /\ rows' = rows
          /\ \A r \in ShadowRuns \ {s} : snap'[r].at = snap[r].at /\ snap'[r].day = snap[r].day
      BY <1>2 DEF Begins
    <3> QED
      BY <1>d, <1>h, <2>1, <2>2, <2>4, <3>1, <3>2 DEF SettledHolds
  <2> QED
    BY <2>3, <2>4
<1>3. ASSUME NEW s \in ShadowRuns, NEW w, Works(s, w) PROVE SettledHolds(d)'
  <2>1. snap[s].at # "idle"
    BY <1>3 DEF Works, Looks, Deletes, Deleted, Inserts, Ends
  <2>2. /\ snap'[s] = w /\ (w.at # "idle" => w.day = snap[s].day)
        /\ \A r \in ShadowRuns \ {s} : snap'[r] = snap[r]
    BY <1>3 DEF Works, SnapSet
  <2>3. CASE reported'[d] = reported[d]
    <3> SUFFICES ASSUME reported[d].settled
                 PROVE  /\ \A r \in ShadowRuns : snap'[r].at # "idle" => snap'[r].day > d
                        /\ \A q \in rows' : q.day = d => q.seen \in reported[d].report
                        /\ \A o \in reported[d].report : \E q \in rows' : q.seen = o /\ q.day <= d
      BY <2>3 DEF SettledHolds
    <3>1. snap[s].day > d
      BY <1>h, <2>1 DEF SettledHolds
    <3>2. \A r \in ShadowRuns : snap'[r].at # "idle" => snap'[r].day > d
      BY <1>h, <2>1, <2>2 DEF SettledHolds
    <3>3. \A q \in rows : q.day <= d => q \in rows'
      BY <1>d, <1>3, <3>1 DEF Works, Looks, Deletes, Deleted, Inserts, Ends, OfDay
    <3>4. \A q \in rows' : q.day = d => q \in rows
      BY <1>d, <1>3, <3>1 DEF Works, Looks, Deletes, Deleted, Inserts, Ends
    <3> QED
      BY <1>h, <3>2, <3>3, <3>4 DEF SettledHolds
  <2>4. CASE reported'[d] # reported[d]
    <3>1. /\ Ends(s, w) /\ snap[s].at = "insert" /\ snap[s].todo = {} /\ d = snap[s].day
          /\ reported'[d] = [settled |-> ~snap[s].met, report |-> snap[s].report]
      BY <1>3, <2>4, ReportsMove
    <3>2. w.at = "idle" /\ rows' = rows
      BY <3>1 DEF Ends
    <3>m. reported'[d].settled = ~snap[s].met
      <4> DEFINE b == ~snap[s].met
      <4>1. reported'[d] = [settled |-> b, report |-> snap[s].report]
        BY <3>1
      <4> HIDE DEF b
      <4>2. reported'[d].settled = b
        BY <4>1
      <4> QED
        BY <4>2 DEF b
    <3> SUFFICES ASSUME ~snap[s].met PROVE SettledHolds(d)'
      BY <3>m, Zenon DEF SettledHolds
    <3>3. AloneAtWork(s)
      BY DEF EvidenceRest
    <3>4. \A r \in ShadowRuns : snap'[r].at = "idle"
      BY <2>1, <2>2, <3>2, <3>3 DEF AloneAtWork
    <3>5. /\ \A q \in rows : q.day <= d /\ (q.day = d => q.seen \in snap[s].report)
          /\ \A o \in snap[s].report : Stored(o)
      BY <2>1, <3>1, <3>3 DEF AloneAtWork
    <3> QED
      BY <3>1, <3>2, <3>4, <3>5 DEF SettledHolds, Stored
  <2> QED
    BY <2>3, <2>4
<1> QED
  BY <1>1, <1>2, <1>3 DEF EvidenceMoves

(* The invariant holds at first. *)
LEMMA EvidenceStarts == EvidenceInit => EvidenceInv
<1> SUFFICES ASSUME EvidenceInit PROVE EvidenceInv
  OBVIOUS
<1> USE DEF EvidenceInit
<1>1. EvidenceTypes
  BY NoSnapshotTyped DEF EvidenceTypes, Unsettled, NoSnapshot
<1>2. EvidenceRest
  BY NoSnapshotTyped DEF EvidenceRest, DaysPast, AloneAtWork, SettledHolds, Unsettled
<1> QED
  BY <1>1, <1>2 DEF EvidenceInv

(* Every step keeps the invariant. *)
LEMMA EvidenceKept == EvidenceInv /\ [EvidenceNext]_evidenceVars => EvidenceInv'
<1> SUFFICES ASSUME EvidenceInv, [EvidenceNext]_evidenceVars PROVE EvidenceInv'
  OBVIOUS
<1>1. EvidenceTypes /\ EvidenceRest
  BY DEF EvidenceInv
<1>2. EvidenceTypes'
  BY <1>1, EvidenceTypesKept
<1>3. EvidenceMoves
  BY <1>1, EvidenceSteps
<1>4. DaysPast'
  BY <1>1, <1>3, DaysKept DEF EvidenceRest
<1>5. \A r \in ShadowRuns : AloneAtWork(r)'
  BY <1>1, <1>3, AtWorkKept
<1>6. \A d \in EvidenceDays : SettledHolds(d)'
  BY <1>1, <1>3, SettledKept
<1> QED
  BY <1>2, <1>4, <1>5, <1>6 DEF EvidenceInv, EvidenceRest

(* What the invariant says of a settled day. *)
LEMMA EvidenceInvFollows == EvidenceInv => EvidenceOfLatestRun
BY DEF EvidenceInv, EvidenceRest, SettledHolds, EvidenceOfLatestRun, Stored

(* A day's evidence is what the last run of that day saw, when none overlapped it and nothing
   stopped it, whatever runs of later days replace. *)
THEOREM EvidenceHolds == EvidenceSpec => []EvidenceOfLatestRun
<1>1. EvidenceSpec => []EvidenceInv
  BY EvidenceStarts, EvidenceKept, PTL DEF EvidenceSpec
<1> QED
  BY <1>1, EvidenceInvFollows, PTL
-----------------------------------------------------------------------------
(* Scores, from SignalScores and ClusterGraphs. *)
(* The element of a set that a sum takes first, and what the sum's recursion says. *)
Taken(s) == CHOOSE x \in s : TRUE
SumOf(f, S) == MapThenSumSet(LAMBDA x : f[x], S)
Recurs(g, f, S) ==
    g = [s \in SUBSET S |-> IF s = {} THEN 0 ELSE f[Taken(s)] + g[s \ {Taken(s)}]]

(* A sum is what its recursion says of the whole set. *)
LEMMA SumByRecursion ==
    ASSUME NEW f, NEW S
    PROVE  SumOf(f, S) = (CHOOSE g : Recurs(g, f, S))[S]
BY DEF SumOf, MapThenSumSet, MapThenFoldSet, Recurs, Taken

(* What the recursion says of sets of n elements at most. *)
RecursTo(g, f, S, n) ==
    /\ g = [s \in SUBSET S |-> g[s]]
    /\ \A s \in SUBSET S :
          Cardinality(s) <= n => g[s] = IF s = {} THEN 0 ELSE f[Taken(s)] + g[s \ {Taken(s)}]

(* The element taken first is one of the set. *)
LEMMA TakenOne ==
    ASSUME NEW s, s # {}, IsFiniteSet(s)
    PROVE  /\ Taken(s) \in s /\ IsFiniteSet(s \ {Taken(s)})
           /\ Cardinality(s) \in Nat /\ Cardinality(s \ {Taken(s)}) = Cardinality(s) - 1
<1>1. Taken(s) \in s
  BY DEF Taken
<1> QED
  BY <1>1, FS_RemoveElement, FS_CardinalityType

(* The recursion of a sum over a finite set is of a function. *)
LEMMA RecursionExists ==
    ASSUME NEW f, NEW S, IsFiniteSet(S)
    PROVE  \E g : Recurs(g, f, S)
<1> DEFINE Fails == {n \in Nat : ~\E g : RecursTo(g, f, S, n)}
<1>0. \A s \in SUBSET S : IsFiniteSet(s) /\ Cardinality(s) \in Nat /\ Cardinality(s) <= Cardinality(S)
  BY FS_Subset, FS_CardinalityType
<1>1. Fails = {}
  <2> SUFFICES ASSUME Fails # {} PROVE FALSE
    OBVIOUS
  <2>1. PICK n \in Fails : \A m \in Fails : n <= m
    <3> HIDE DEF Fails
    <3>1. Fails \in SUBSET Nat
      BY DEF Fails
    <3> QED
      BY <3>1, LeastNumber
  <2>2. CASE n = 0
    <3>1. RecursTo([s \in SUBSET S |-> 0], f, S, 0)
      <4>1. \A s \in SUBSET S : Cardinality(s) <= 0 => s = {}
        BY <1>0, FS_EmptySet
      <4> QED
        BY <4>1 DEF RecursTo
    <3> QED
      BY <2>1, <2>2, <3>1
  <2>3. CASE n > 0
    <3>1. n - 1 \in Nat /\ n - 1 \notin Fails
      BY <2>1, <2>3
    <3>2. PICK g : RecursTo(g, f, S, n - 1)
      BY <3>1
    <3> DEFINE h == [s \in SUBSET S |-> IF Cardinality(s) <= n - 1 THEN g[s]
                                        ELSE f[Taken(s)] + g[s \ {Taken(s)}]]
    <3>3. RecursTo(h, f, S, n)
      <4>1. h = [s \in SUBSET S |-> h[s]]
        OBVIOUS
      <4>2. ASSUME NEW s \in SUBSET S, Cardinality(s) <= n
            PROVE  h[s] = IF s = {} THEN 0 ELSE f[Taken(s)] + h[s \ {Taken(s)}]
        <5>1. CASE s = {}
          <6>1. Cardinality(s) = 0
            BY <5>1, FS_EmptySet
          <6>2. h[s] = g[s]
            BY <2>1, <2>3, <6>1
          <6>3. Cardinality(s) <= n - 1
            BY <2>1, <2>3, <6>1
          <6>4. g[s] = 0
            BY <3>2, <5>1, <6>3 DEF RecursTo
          <6> QED
            BY <5>1, <6>2, <6>4
        <5>2. CASE s # {}
          <6>1. /\ Cardinality(s) \in Nat /\ s \ {Taken(s)} \in SUBSET S
                /\ Cardinality(s \ {Taken(s)}) = Cardinality(s) - 1
            BY <1>0, <5>2, TakenOne
          <6>2. h[s \ {Taken(s)}] = g[s \ {Taken(s)}]
            BY <2>1, <4>2, <6>1
          <6>3. h[s] = f[Taken(s)] + g[s \ {Taken(s)}]
            <7>1. CASE Cardinality(s) <= n - 1
              BY <3>2, <5>2, <7>1 DEF RecursTo
            <7>2. CASE ~(Cardinality(s) <= n - 1)
              BY <7>2
            <7> QED
              BY <7>1, <7>2
          <6> HIDE DEF h
          <6> QED
            BY <5>2, <6>2, <6>3
        <5> QED
          BY <5>1, <5>2
      <4> HIDE DEF h
      <4> QED
        BY <4>1, <4>2 DEF RecursTo
    <3> HIDE DEF h
    <3> QED
      BY <2>1, <3>3
  <2> QED
    BY <2>1, <2>2, <2>3
<1>2. PICK g : RecursTo(g, f, S, Cardinality(S))
  BY <1>0, <1>1
<1>3. /\ g = [s \in SUBSET S |-> g[s]]
      /\ \A s \in SUBSET S : g[s] = IF s = {} THEN 0 ELSE f[Taken(s)] + g[s \ {Taken(s)}]
  BY <1>0, <1>2 DEF RecursTo
<1>4. g = [s \in SUBSET S |-> IF s = {} THEN 0 ELSE f[Taken(s)] + g[s \ {Taken(s)}]]
  BY <1>3
<1> QED
  BY <1>4 DEF Recurs

(* Two functions of the recursion agree where both are defined. *)
LEMMA RecursionIsUnique ==
    ASSUME NEW f, NEW S, NEW T, NEW g, NEW h, Recurs(g, f, S), Recurs(h, f, T),
           NEW u, u \subseteq S, u \subseteq T, IsFiniteSet(u)
    PROVE  g[u] = h[u]
<1> DEFINE Differs == {n \in Nat : \E s \in SUBSET u : Cardinality(s) = n /\ g[s] # h[s]}
<1>0. \A s \in SUBSET u : IsFiniteSet(s) /\ Cardinality(s) \in Nat
  BY FS_Subset, FS_CardinalityType
<1>1. Differs = {}
  <2> SUFFICES ASSUME Differs # {} PROVE FALSE
    OBVIOUS
  <2>1. PICK n \in Differs : \A m \in Differs : n <= m
    <3>1. Differs \in SUBSET Nat
      OBVIOUS
    <3> HIDE DEF Differs
    <3> QED
      BY <3>1, LeastNumber
  <2>2. PICK s \in SUBSET u : Cardinality(s) = n /\ g[s] # h[s]
    BY <2>1
  <2>3. s \in SUBSET S /\ s \in SUBSET T
    BY <2>2
  <2>4. /\ g[s] = IF s = {} THEN 0 ELSE f[Taken(s)] + g[s \ {Taken(s)}]
        /\ h[s] = IF s = {} THEN 0 ELSE f[Taken(s)] + h[s \ {Taken(s)}]
    BY <2>3 DEF Recurs
  <2>5. s # {}
    BY <2>2, <2>4
  <2>6. Cardinality(s \ {Taken(s)}) = n - 1 /\ n \in Nat /\ n - 1 \in Nat
    BY <1>0, <2>2, <2>5, TakenOne
  <2>7. n - 1 \notin Differs
    BY <2>1, <2>6
  <2>8. g[s \ {Taken(s)}] = h[s \ {Taken(s)}]
    BY <2>6, <2>7
  <2> QED
    BY <2>2, <2>4, <2>5, <2>8
<1> QED
  BY <1>0, <1>1

(* A sum is that of the element taken first and of the others. *)
LEMMA SumUnfolds ==
    ASSUME NEW f, NEW S, IsFiniteSet(S)
    PROVE  SumOf(f, S) = IF S = {} THEN 0 ELSE f[Taken(S)] + SumOf(f, S \ {Taken(S)})
<1> DEFINE g == CHOOSE g : Recurs(g, f, S)
<1>1. Recurs(g, f, S) /\ SumOf(f, S) = g[S]
  BY RecursionExists, SumByRecursion
<1>2. g[S] = IF S = {} THEN 0 ELSE f[Taken(S)] + g[S \ {Taken(S)}]
  <2> HIDE DEF g
  <2> QED
    BY <1>1 DEF Recurs
<1>3. ASSUME S # {} PROVE SumOf(f, S \ {Taken(S)}) = g[S \ {Taken(S)}]
  <2> DEFINE T == S \ {Taken(S)}
             h == CHOOSE h : Recurs(h, f, T)
  <2>1. IsFiniteSet(T) /\ T \subseteq S
    BY <1>3, TakenOne
  <2>2. Recurs(h, f, T) /\ SumOf(f, T) = h[T]
    BY <2>1, RecursionExists, SumByRecursion
  <2> HIDE DEF g, h, T
  <2>3. h[T] = g[T]
    BY <1>1, <2>1, <2>2, RecursionIsUnique
  <2> QED
    BY <2>2, <2>3 DEF T
<1> HIDE DEF g
<1> QED
  BY <1>1, <1>2, <1>3

(* A sum stays in a set that holds its terms, zero and the sums of any two. *)
LEMMA SumStaysIn ==
    ASSUME NEW f, NEW S, IsFiniteSet(S), NEW D, 0 \in D, \A a, b \in D : a + b \in D,
           \A x \in S : f[x] \in D
    PROVE  SumOf(f, S) \in D
<1> DEFINE Fails == {n \in Nat : \E s \in SUBSET S : Cardinality(s) = n /\ SumOf(f, s) \notin D}
<1>0. \A s \in SUBSET S : IsFiniteSet(s) /\ Cardinality(s) \in Nat
  BY FS_Subset, FS_CardinalityType
<1>1. Fails = {}
  <2> SUFFICES ASSUME Fails # {} PROVE FALSE
    OBVIOUS
  <2>1. PICK n \in Fails : \A m \in Fails : n <= m
    <3>1. Fails \in SUBSET Nat
      OBVIOUS
    <3> HIDE DEF Fails
    <3> QED
      BY <3>1, LeastNumber
  <2>2. PICK s \in SUBSET S : Cardinality(s) = n /\ SumOf(f, s) \notin D
    BY <2>1
  <2>3. IsFiniteSet(s)
    BY <1>0
  <2>4. SumOf(f, s) = IF s = {} THEN 0 ELSE f[Taken(s)] + SumOf(f, s \ {Taken(s)})
    BY <2>3, SumUnfolds
  <2>5. s # {}
    BY <2>2, <2>4
  <2>6. Taken(s) \in S /\ Cardinality(s \ {Taken(s)}) = n - 1 /\ n - 1 \in Nat
    BY <1>0, <2>2, <2>3, <2>5, TakenOne
  <2>7. n - 1 \notin Fails
    BY <2>1, <2>6
  <2>8. SumOf(f, s \ {Taken(s)}) \in D
    BY <2>6, <2>7
  <2> QED
    BY <2>2, <2>4, <2>5, <2>6, <2>8
<1> QED
  BY <1>0, <1>1

(* So sums of integers are integers and sums of numbers are numbers. *)
LEMMA SumOfNumbers ==
    ASSUME NEW f, NEW S, IsFiniteSet(S), \A x \in S : f[x] \in Int
    PROVE  SumOf(f, S) \in Int /\ ((\A x \in S : f[x] \in Nat) => SumOf(f, S) \in Nat)
<1>1. 0 \in Int /\ \A a, b \in Int : a + b \in Int
  OBVIOUS
<1>2. 0 \in Nat /\ \A a, b \in Nat : a + b \in Nat
  OBVIOUS
<1>3. SumOf(f, S) \in Int
  BY <1>1, SumStaysIn
<1>4. (\A x \in S : f[x] \in Nat) => SumOf(f, S) \in Nat
  BY <1>2, SumStaysIn
<1> QED
  BY <1>3, <1>4

(* One element more adds what it is worth, whichever is taken first. *)
LEMMA SumWithOneMore ==
    ASSUME NEW f, NEW S, IsFiniteSet(S), NEW x, x \notin S, \A y \in S \cup {x} : f[y] \in Int
    PROVE  SumOf(f, S \cup {x}) = SumOf(f, S) + f[x]
<1> DEFINE Adds(s, y) == SumOf(f, s \cup {y}) = SumOf(f, s) + f[y]
           U == S \cup {x}
           Fails == {n \in Nat : \E s \in SUBSET U : \E y \in U \ s : Cardinality(s) = n /\ ~Adds(s, y)}
<1>0. IsFiniteSet(U)
  BY FS_AddElement
<1>a. \A s \in SUBSET U : IsFiniteSet(s) /\ Cardinality(s) \in Nat /\ SumOf(f, s) \in Int
  <2> TAKE s \in SUBSET U
  <2>1. IsFiniteSet(s) /\ \A y \in s : f[y] \in Int
    BY <1>0, FS_Subset
  <2> QED
    BY <2>1, FS_CardinalityType, SumOfNumbers
<1>1. Fails = {}
  <2> SUFFICES ASSUME Fails # {} PROVE FALSE
    OBVIOUS
  <2>1. PICK n \in Fails : \A m \in Fails : n <= m
    <3>1. Fails \in SUBSET Nat
      OBVIOUS
    <3> HIDE DEF Fails
    <3> QED
      BY <3>1, LeastNumber
  <2>a. PICK s \in SUBSET U : \E y \in U \ s : Cardinality(s) = n /\ ~Adds(s, y)
    BY <2>1
  <2>2. PICK y \in U \ s : Cardinality(s) = n /\ ~Adds(s, y)
    BY <2>a
  <2> DEFINE t == s \cup {y}
             c == Taken(t)
  <2>3. t \in SUBSET U /\ t # {} /\ IsFiniteSet(t) /\ IsFiniteSet(s)
    BY <1>a, <2>2
  <2>4. c \in t /\ SumOf(f, t) = f[c] + SumOf(f, t \ {c})
    BY <2>3, SumUnfolds, TakenOne
  <2> HIDE DEF c
  <2>5. c # y
    <3> SUFFICES ASSUME c = y PROVE FALSE
      OBVIOUS
    <3>1. t \ {c} = s
      BY <2>2
    <3>2. f[y] \in Int /\ SumOf(f, s) \in Int
      BY <1>a, <2>2
    <3> QED
      BY <2>2, <2>4, <3>1, <3>2
  <2> DEFINE r == s \ {c}
  <2>6. /\ c \in s /\ r \in SUBSET U /\ c \in U \ r /\ y \in U \ r
        /\ t \ {c} = r \cup {y} /\ s = r \cup {c}
    BY <2>2, <2>4, <2>5
  <2>7. Cardinality(r) = n - 1 /\ n \in Nat /\ n - 1 \in Nat
    <3>1. Cardinality(r) = Cardinality(s) - 1 /\ Cardinality(r) \in Nat /\ Cardinality(s) \in Nat
      BY <1>a, <2>3, <2>6, FS_RemoveElement
    <3> QED
      BY <2>2, <3>1
  <2>8. n - 1 \notin Fails
    <3> HIDE DEF Fails
    <3> QED
      BY <2>1, <2>7
  <2>9. Adds(r, c) /\ Adds(r, y)
    BY <2>6, <2>7, <2>8
  <2>10. f[c] \in Int /\ f[y] \in Int /\ SumOf(f, r) \in Int
    BY <1>a, <2>6
  <2>11. /\ SumOf(f, s) = SumOf(f, r) + f[c] /\ SumOf(f, r \cup {y}) = SumOf(f, r) + f[y]
         /\ SumOf(f, t) = f[c] + SumOf(f, r \cup {y})
    BY <2>4, <2>6, <2>9
  <2> QED
    BY <2>2, <2>10, <2>11
<1> QED
  <2>1. S \in SUBSET U /\ x \in U \ S /\ Cardinality(S) \in Nat
    BY <1>a
  <2> HIDE DEF U
  <2> QED
    BY <1>1, <2>1

(* A sum moves as its terms do. *)
LEMMA SumFollows ==
    ASSUME NEW f, NEW g, NEW S, IsFiniteSet(S), \A x \in S : f[x] \in Int /\ g[x] \in Int /\ f[x] <= g[x]
    PROVE  SumOf(f, S) <= SumOf(g, S)
<1> DEFINE Fails == {n \in Nat : \E s \in SUBSET S :
                                    Cardinality(s) = n /\ ~(SumOf(f, s) <= SumOf(g, s))}
<1>0. \A s \in SUBSET S : IsFiniteSet(s) /\ Cardinality(s) \in Nat
  BY FS_Subset, FS_CardinalityType
<1>1. Fails = {}
  <2> SUFFICES ASSUME Fails # {} PROVE FALSE
    OBVIOUS
  <2>1. PICK n \in Fails : \A m \in Fails : n <= m
    <3>1. Fails \in SUBSET Nat
      OBVIOUS
    <3> HIDE DEF Fails
    <3> QED
      BY <3>1, LeastNumber
  <2>2. PICK s \in SUBSET S : Cardinality(s) = n /\ ~(SumOf(f, s) <= SumOf(g, s))
    BY <2>1
  <2>3. IsFiniteSet(s)
    BY <1>0
  <2>4. /\ SumOf(f, s) = IF s = {} THEN 0 ELSE f[Taken(s)] + SumOf(f, s \ {Taken(s)})
        /\ SumOf(g, s) = IF s = {} THEN 0 ELSE g[Taken(s)] + SumOf(g, s \ {Taken(s)})
    BY <2>3, SumUnfolds
  <2>5. s # {}
    BY <2>2, <2>4
  <2>6. Taken(s) \in S /\ Cardinality(s \ {Taken(s)}) = n - 1 /\ n - 1 \in Nat /\ n \in Nat
    BY <1>0, <2>2, <2>3, <2>5, TakenOne
  <2>7. n - 1 \notin Fails
    BY <2>1, <2>6
  <2>8. SumOf(f, s \ {Taken(s)}) <= SumOf(g, s \ {Taken(s)})
    BY <2>6, <2>7
  <2>9. SumOf(f, s \ {Taken(s)}) \in Int /\ SumOf(g, s \ {Taken(s)}) \in Int
    <3>1. IsFiniteSet(s \ {Taken(s)}) /\ s \ {Taken(s)} \subseteq S
      BY <1>0
    <3> QED
      BY <3>1, SumOfNumbers
  <2>10. f[Taken(s)] <= g[Taken(s)] /\ f[Taken(s)] \in Int /\ g[Taken(s)] \in Int
    BY <2>6
  <2> QED
    BY <2>2, <2>4, <2>5, <2>8, <2>9, <2>10
<1> QED
  BY <1>0, <1>1

(* A sum of numbers is no less than any of them. *)
LEMMA TermWithinSum ==
    ASSUME NEW f, NEW S, IsFiniteSet(S), \A y \in S : f[y] \in Nat, NEW x \in S
    PROVE  f[x] <= SumOf(f, S)
<1> DEFINE r == S \ {x}
<1>1. IsFiniteSet(r) /\ x \notin r /\ S = r \cup {x}
  BY FS_Subset
<1>2. \A y \in r : f[y] \in Int /\ f[y] \in Nat
  OBVIOUS
<1>3. \A y \in r \cup {x} : f[y] \in Int
  OBVIOUS
<1> HIDE DEF r
<1>4. SumOf(f, r) \in Nat
  BY <1>1, <1>2, SumOfNumbers
<1>5. SumOf(f, r \cup {x}) = SumOf(f, r) + f[x]
  BY <1>1, <1>3, SumWithOneMore
<1> QED
  BY <1>1, <1>4, <1>5

(* A quotient is at least k when k times the divisor fits. *)
LEMMA Quotient ==
    ASSUME NEW a \in Nat, NEW d \in Nat \ {0}
    PROVE  /\ a \div d \in Nat
           /\ d * (a \div d) <= a
           /\ \A k \in Nat : d * k <= a => k <= a \div d
<1> DEFINE q == a \div d
<1>1. q \in Int /\ d * q <= a /\ a < d * q + d
  OBVIOUS
<1>2. q \in Nat
  BY <1>1
<1>3. ASSUME NEW k \in Nat, d * k <= a PROVE k <= q
  <2> SUFFICES ASSUME k >= q + 1 PROVE FALSE
    BY <1>2
  <2>1. d * k >= d * (q + 1)
    BY <1>2
  <2> QED
    BY <1>1, <1>2, <2>1, <1>3
<1> QED
  BY <1>1, <1>2, <1>3

(* A score moves the way its points and its evidence do, provided that who has the kinds
   of evidence the first gate wants has enough for the second. *)
LEMMA CalibrationFollows ==
    ASSUME NEW r1 \in Int, NEW r2 \in Int, r1 <= r2,
           NEW c1 \in Nat, NEW c2 \in Nat, c1 <= c2,
           NEW s1 \in Nat, NEW s2 \in Nat, s1 <= s2,
           NEW required \in Nat, NEW minimum \in Nat,
           c2 >= required => s2 >= minimum
    PROVE  ApplyCalibration(clampScore(r1), Calibration(c1, required, s1, minimum))
             <= ApplyCalibration(clampScore(r2), Calibration(c2, required, s2, minimum))
BY SMTT(60) DEF ApplyCalibration, Calibration, clampScore, Lesser, RateScore

(* More claims that hold count for at least as much. *)
LEMMA CountFollows ==
    ASSUME NEW n \in Nat, NEW c, NEW d, DOMAIN c = 1..n, DOMAIN d = 1..n,
           \A k \in 1..n : c[k] => d[k]
    PROVE  BoolCount(c) \in Nat /\ BoolCount(d) \in Nat /\ BoolCount(c) <= BoolCount(d)
<1> DEFINE C == {k \in DOMAIN c : c[k]}
           D == {k \in DOMAIN d : d[k]}
<1>1. C \subseteq D /\ D \subseteq 1..n
  OBVIOUS
<1>2. IsFiniteSet(1..n)
  BY FS_Interval
<1>3. IsFiniteSet(D)
  BY <1>1, <1>2, FS_Subset
<1>4. IsFiniteSet(C) /\ Cardinality(C) <= Cardinality(D)
  BY <1>1, <1>3, FS_Subset
<1>5. Cardinality(C) \in Nat /\ Cardinality(D) \in Nat
  BY <1>3, <1>4, FS_CardinalityType
<1> QED
  BY <1>4, <1>5 DEF BoolCount

(* Claims no two of which hold count for one at most. *)
LEMMA CountOfOne ==
    ASSUME NEW c, \A j, k \in DOMAIN c : c[j] /\ c[k] => j = k
    PROVE  BoolCount(c) \in Nat /\ BoolCount(c) <= 1
<1> DEFINE C == {k \in DOMAIN c : c[k]}
<1>1. CASE C = {}
  BY <1>1, FS_EmptySet DEF BoolCount
<1>2. CASE C # {}
  <2>1. PICK k : k \in C
    BY <1>2
  <2>2. C = {k}
    BY <2>1
  <2> QED
    BY <2>2, FS_Singleton DEF BoolCount
<1> QED
  BY <1>1, <1>2

Exits == [ShadowExitFields -> Nat]
Connections == [FirstConnectionFields -> Nat]
PlusOne(s, f) == [s EXCEPT ![f] = @ + 1]

(* One more transfer sent never lowers the points for the outflow, one more received never
   raises them. *)
LEMMA OutflowFollows ==
    ASSUME NEW s \in Exits
    PROVE  /\ OutflowPoints(s) \in Nat
           /\ OutflowPoints(s) <= OutflowPoints(PlusOne(s, "outbound24h"))
           /\ OutflowPoints(PlusOne(s, "inbound24h")) <= OutflowPoints(s)
<1> DEFINE o == s["outbound24h"]
           i == s["inbound24h"]
           Share(m, n) == IF m + n = 0 THEN 0 ELSE (60 * m + (m + n)) \div (2 * (m + n))
<1>1. o \in Nat /\ i \in Nat
  BY DEF Exits, ShadowExitFields
<1>2. PlusOne(s, "outbound24h")["outbound24h"] = o + 1 /\ PlusOne(s, "outbound24h")["inbound24h"] = i
  BY DEF Exits, ShadowExitFields, PlusOne
<1>3. PlusOne(s, "inbound24h")["outbound24h"] = o /\ PlusOne(s, "inbound24h")["inbound24h"] = i + 1
  BY DEF Exits, ShadowExitFields, PlusOne
<1>4. /\ OutflowPoints(s) = Share(o, i)
      /\ OutflowPoints(PlusOne(s, "outbound24h")) = Share(o + 1, i)
      /\ OutflowPoints(PlusOne(s, "inbound24h")) = Share(o, i + 1)
  BY <1>2, <1>3 DEF OutflowPoints, Transfers24h
<1> HIDE DEF o, i
<1>5. ASSUME NEW m \in Nat, NEW n \in Nat, m + n > 0
      PROVE  /\ Share(m, n) \in Nat
             /\ 2 * (m + n) * Share(m, n) <= 61 * m + n
             /\ \A k \in Nat : 2 * (m + n) * k <= 61 * m + n => k <= Share(m, n)
  <2>1. 2 * (m + n) \in Nat \ {0} /\ 60 * m + (m + n) \in Nat /\ 60 * m + (m + n) = 61 * m + n
    BY <1>5
  <2>2. Share(m, n) = (60 * m + (m + n)) \div (2 * (m + n))
    BY <1>5
  <2> HIDE DEF Share
  <2> QED
    BY <2>1, <2>2, Quotient
<1>6. Share(o, i) <= Share(o + 1, i)
  <2>1. CASE o + i = 0
    BY <1>1, <1>5, <2>1
  <2>2. CASE o + i > 0
    <3> DEFINE q == Share(o, i)
    <3>1. q \in Nat /\ 2 * (o + i) * q <= 61 * o + i
      BY <1>1, <1>5, <2>2
    <3>2. \A k \in Nat : 2 * (o + 1 + i) * k <= 61 * (o + 1) + i => k <= Share(o + 1, i)
      BY <1>1, <1>5
    <3> HIDE DEF q, Share
    <3>3. q <= 30
      <4> SUFFICES ASSUME q >= 31 PROVE FALSE
        BY <3>1
      <4>1. (o + i) * q >= (o + i) * 31
        BY <1>1, <2>2, <3>1
      <4> QED
        BY <1>1, <2>2, <3>1, <4>1
    <3>4. 2 * (o + 1 + i) * q = 2 * (o + i) * q + 2 * q
      BY <1>1, <3>1
    <3>5. 2 * (o + 1 + i) * q <= 61 * (o + 1) + i
      BY <1>1, <3>1, <3>3, <3>4
    <3> QED
      BY <3>1, <3>2, <3>5 DEF q
  <2> QED
    BY <1>1, <2>1, <2>2
<1>7. Share(o, i + 1) <= Share(o, i)
  <2>1. CASE o + i = 0
    <3>1. o = 0 /\ i = 0
      BY <1>1, <2>1
    <3>2. Share(0, 0 + 1) = 0
      OBVIOUS
    <3> QED
      BY <3>1, <3>2
  <2>2. CASE o + i > 0
    <3> DEFINE q == Share(o, i + 1)
    <3>1. q \in Nat /\ 2 * (o + (i + 1)) * q <= 61 * o + (i + 1)
      BY <1>1, <1>5
    <3>2. \A k \in Nat : 2 * (o + i) * k <= 61 * o + i => k <= Share(o, i)
      BY <1>1, <1>5, <2>2
    <3> HIDE DEF q, Share
    <3>3. 2 * (o + (i + 1)) * q = 2 * (o + i) * q + 2 * q
      BY <1>1, <3>1
    <3>4. 2 * (o + i) * q <= 61 * o + i
      <4>1. CASE q = 0
        BY <1>1, <4>1
      <4>2. CASE q >= 1
        BY <1>1, <3>1, <3>3, <4>2
      <4> QED
        BY <3>1, <4>1, <4>2
    <3> QED
      BY <3>1, <3>2, <3>4 DEF q
  <2> QED
    BY <1>1, <2>1, <2>2
<1>8. Share(o, i) \in Nat
  BY <1>1, <1>5
<1> QED
  BY <1>4, <1>6, <1>7, <1>8

(* The parts of the shadow exit score are numbers. *)
LEMMA ExitParts ==
    ASSUME NEW s \in Exits
    PROVE  /\ ShadowExitGross(s) \in Nat /\ ShadowExitDiscounts(s) \in Nat
           /\ ShadowExitSufficiency(s) \in Nat
<1>1. \A g \in ShadowExitFields : s[g] \in Nat
  BY DEF Exits
<1>2. ShadowExitGross(s) \in Nat
  <2>1. clampScore(OutflowPoints(s)) \in Nat
    BY OutflowFollows DEF clampScore, Lesser
  <2>2. clampScore(s["fanout24h"]) \in Nat
    BY <1>1 DEF ShadowExitFields, clampScore, Lesser
  <2> QED
    BY <1>1, <2>1, <2>2 DEF ShadowExitGross, ShadowExitFields
<1>3. ShadowExitDiscounts(s) \in Nat
  <2>1. /\ Lesser(6 * s["aggregator"] + 8 * s["bridgeReturn"], 20) \in Nat
        /\ Lesser(8 * s["rebalanceRoute"], 16) \in Nat
    BY <1>1 DEF Lesser, ShadowExitFields
  <2>2. Points(18, s["treasury"] > 0) \in Nat /\ Points(14, s["internal"] > 0) \in Nat
    BY DEF Points
  <2> QED
    BY <2>1, <2>2 DEF ShadowExitDiscounts
<1>4. ShadowExitSufficiency(s) \in Nat
  BY DEF ShadowExitSufficiency, Points
<1> QED
  BY <1>2, <1>3, <1>4

(* The parts of the shadow exit score, which move with what is counted. *)
LEMMA ExitPartsFollow ==
    ASSUME NEW s \in Exits, NEW f \in ShadowExitFields
    PROVE  LET t == PlusOne(s, f)
               Raised(a, b) == IF f \in Contradicting THEN b <= a ELSE a <= b
               Lowered(a, b) == IF f \in Contradicting THEN a <= b ELSE b <= a
           IN  /\ t \in Exits
               /\ Raised(ShadowExitGross(s), ShadowExitGross(t))
               /\ Lowered(ShadowExitDiscounts(s), ShadowExitDiscounts(t))
               /\ Raised(ShadowExitSufficiency(s), ShadowExitSufficiency(t))
               /\ Raised(ShadowExitCritical(s), ShadowExitCritical(t))
<1> DEFINE t == PlusOne(s, f)
           Raised(a, b) == IF f \in Contradicting THEN b <= a ELSE a <= b
           Lowered(a, b) == IF f \in Contradicting THEN a <= b ELSE b <= a
<1>1. t \in Exits
  BY DEF Exits, PlusOne
<1>2. /\ \A g \in ShadowExitFields : s[g] \in Nat /\ t[g] \in Nat
      /\ \A g \in ShadowExitFields : t[g] = IF g = f THEN s[g] + 1 ELSE s[g]
  BY DEF Exits, PlusOne
<1>3. /\ OutflowPoints(s) \in Nat /\ OutflowPoints(t) \in Nat
      /\ f = "outbound24h" => OutflowPoints(s) <= OutflowPoints(t)
      /\ f = "inbound24h" => OutflowPoints(t) <= OutflowPoints(s)
  BY <1>1, OutflowFollows
<1>4. f \notin {"outbound24h", "inbound24h"} => OutflowPoints(s) = OutflowPoints(t)
  BY <1>2 DEF OutflowPoints, Transfers24h, ShadowExitFields
<1>5. \A n \in {5, 6} :
         /\ f = "inbound24h" => (OutflowAtLeast(t, n) => OutflowAtLeast(s, n))
         /\ f # "inbound24h" => (OutflowAtLeast(s, n) => OutflowAtLeast(t, n))
         /\ f \notin {"outbound24h", "inbound24h"} => (OutflowAtLeast(s, n) <=> OutflowAtLeast(t, n))
  <2> DEFINE Least(m, k, n) == m + k > 0 /\ 10 * m >= n * (m + k)
  <2>1. \A n : /\ OutflowAtLeast(s, n) <=> Least(s["outbound24h"], s["inbound24h"], n)
               /\ OutflowAtLeast(t, n) <=> Least(t["outbound24h"], t["inbound24h"], n)
    BY DEF OutflowAtLeast, Transfers24h
  <2>2. {"outbound24h", "inbound24h"} \subseteq ShadowExitFields
    BY DEF ShadowExitFields
  <2>3. \A m, k \in Nat : \A n \in {5, 6} : Least(m, k + 1, n) => Least(m, k, n)
    OBVIOUS
  <2>4. \A m, k \in Nat : \A n \in {5, 6} : Least(m, k, n) => Least(m + 1, k, n)
    OBVIOUS
  <2> HIDE DEF Least, t
  <2> QED
    BY <1>2, <2>1, <2>2, <2>3, <2>4
<1> HIDE DEF t
<1>6. clampScore(OutflowPoints(s)) \in Nat /\ clampScore(OutflowPoints(t)) \in Nat
  BY <1>3 DEF clampScore, Lesser
<1>7. ASSUME f \notin Contradicting
      PROVE  /\ ShadowExitGross(s) <= ShadowExitGross(t)
             /\ ShadowExitDiscounts(s) = ShadowExitDiscounts(t)
             /\ ShadowExitSufficiency(s) <= ShadowExitSufficiency(t)
  <2>1. /\ \A g \in {"bridge", "exchange", "fanout", "fanout24h", "escape", "outbound24h"} :
              s[g] \in Nat /\ t[g] \in Nat /\ s[g] <= t[g]
        /\ \A g \in {"inbound24h", "aggregator", "rebalanceRoute", "bridgeReturn", "treasury", "internal"} :
              s[g] \in Nat /\ t[g] = s[g]
    BY <1>2, <1>7 DEF ShadowExitFields, Contradicting
  <2>2. clampScore(OutflowPoints(s)) <= clampScore(OutflowPoints(t))
    <3>1. OutflowPoints(s) <= OutflowPoints(t)
      BY <1>3, <1>4, <1>7 DEF Contradicting
    <3> QED
      BY <1>3, <3>1 DEF clampScore, Lesser
  <2>3. ShadowExitGross(s) <= ShadowExitGross(t)
    <3>1. /\ s["bridge"] \in Nat /\ t["bridge"] \in Nat /\ s["bridge"] <= t["bridge"]
          /\ s["exchange"] \in Nat /\ t["exchange"] \in Nat /\ s["exchange"] <= t["exchange"]
          /\ s["fanout"] \in Nat /\ t["fanout"] \in Nat /\ s["fanout"] <= t["fanout"]
          /\ s["escape"] \in Nat /\ t["escape"] \in Nat /\ s["escape"] <= t["escape"]
      BY <2>1
    <3>2. /\ clampScore(s["fanout24h"]) \in Nat /\ clampScore(t["fanout24h"]) \in Nat
          /\ clampScore(s["fanout24h"]) <= clampScore(t["fanout24h"])
      BY <2>1 DEF clampScore, Lesser
    <3> QED
      BY <1>6, <2>2, <3>1, <3>2 DEF ShadowExitGross
  <2>4. ShadowExitDiscounts(s) = ShadowExitDiscounts(t)
    BY <2>1 DEF ShadowExitDiscounts
  <2>5. ShadowExitSufficiency(s) <= ShadowExitSufficiency(t)
    BY <1>5, <1>7, <2>1 DEF ShadowExitSufficiency, Points, Contradicting
  <2> QED
    BY <2>3, <2>4, <2>5
<1>8. ASSUME f \in Contradicting
      PROVE  /\ ShadowExitGross(t) <= ShadowExitGross(s)
             /\ ShadowExitDiscounts(s) <= ShadowExitDiscounts(t)
             /\ ShadowExitSufficiency(t) <= ShadowExitSufficiency(s)
  <2>1. /\ \A g \in {"bridge", "exchange", "fanout", "fanout24h", "escape", "outbound24h"} :
              s[g] \in Nat /\ t[g] = s[g]
        /\ \A g \in {"inbound24h", "aggregator", "rebalanceRoute", "bridgeReturn", "treasury", "internal"} :
              s[g] \in Nat /\ t[g] \in Nat /\ s[g] <= t[g]
    BY <1>2, <1>8 DEF ShadowExitFields, Contradicting
  <2>2. clampScore(OutflowPoints(t)) <= clampScore(OutflowPoints(s))
    <3>1. OutflowPoints(t) <= OutflowPoints(s)
      BY <1>3, <1>4, <1>8 DEF Contradicting
    <3> QED
      BY <1>3, <3>1 DEF clampScore, Lesser
  <2>3. ShadowExitGross(t) <= ShadowExitGross(s)
    <3>1. /\ s["bridge"] \in Nat /\ t["bridge"] = s["bridge"]
          /\ s["exchange"] \in Nat /\ t["exchange"] = s["exchange"]
          /\ s["fanout"] \in Nat /\ t["fanout"] = s["fanout"]
          /\ s["escape"] \in Nat /\ t["escape"] = s["escape"]
          /\ t["fanout24h"] = s["fanout24h"]
      BY <2>1
    <3>2. clampScore(s["fanout24h"]) \in Nat
      BY <2>1 DEF clampScore, Lesser
    <3> QED
      BY <1>6, <2>2, <3>1, <3>2 DEF ShadowExitGross
  <2>4. ShadowExitDiscounts(s) <= ShadowExitDiscounts(t)
    <3>1. Points(18, s["treasury"] > 0) <= Points(18, t["treasury"] > 0)
      BY <2>1 DEF Points
    <3>2. Points(14, s["internal"] > 0) <= Points(14, t["internal"] > 0)
      BY <2>1 DEF Points
    <3>3. Lesser(8 * s["rebalanceRoute"], 16) <= Lesser(8 * t["rebalanceRoute"], 16)
      BY <2>1 DEF Lesser
    <3>4. Lesser(6 * s["aggregator"] + 8 * s["bridgeReturn"], 20)
            <= Lesser(6 * t["aggregator"] + 8 * t["bridgeReturn"], 20)
      BY <2>1 DEF Lesser
    <3>5. /\ Lesser(6 * s["aggregator"] + 8 * s["bridgeReturn"], 20) \in Nat
          /\ Lesser(6 * t["aggregator"] + 8 * t["bridgeReturn"], 20) \in Nat
          /\ Lesser(8 * s["rebalanceRoute"], 16) \in Nat /\ Lesser(8 * t["rebalanceRoute"], 16) \in Nat
      BY <2>1 DEF Lesser
    <3>6. /\ Points(18, s["treasury"] > 0) \in Nat /\ Points(18, t["treasury"] > 0) \in Nat
          /\ Points(14, s["internal"] > 0) \in Nat /\ Points(14, t["internal"] > 0) \in Nat
      BY DEF Points
    <3> QED
      BY <3>1, <3>2, <3>3, <3>4, <3>5, <3>6 DEF ShadowExitDiscounts
  <2>5. ShadowExitSufficiency(t) <= ShadowExitSufficiency(s)
    BY <1>5, <1>8, <2>1 DEF ShadowExitSufficiency, Points, Contradicting
  <2> QED
    BY <2>3, <2>4, <2>5
<1>9. Raised(ShadowExitCritical(s), ShadowExitCritical(t))
  <2> DEFINE Claims(r) == <<r["bridge"] > 0, r["exchange"] > 0, r["fanout"] > 0, r["escape"] > 0,
                            OutflowAtLeast(r, 6)>>
  <2>1. DOMAIN Claims(s) = 1..5 /\ DOMAIN Claims(t) = 1..5
    OBVIOUS
  <2>2. f \notin Contradicting => \A k \in 1..5 : Claims(s)[k] => Claims(t)[k]
    <3>1. \A g \in {"bridge", "exchange", "fanout", "escape"} : s[g] \in Nat /\ t[g] \in Nat /\ s[g] <= t[g]
      BY <1>2 DEF ShadowExitFields
    <3>2. f \notin Contradicting => (OutflowAtLeast(s, 6) => OutflowAtLeast(t, 6))
      BY <1>5 DEF Contradicting
    <3>3. /\ s["bridge"] > 0 => t["bridge"] > 0
          /\ s["exchange"] > 0 => t["exchange"] > 0
          /\ s["fanout"] > 0 => t["fanout"] > 0
          /\ s["escape"] > 0 => t["escape"] > 0
      BY <3>1
    <3> SUFFICES ASSUME f \notin Contradicting, NEW k \in 1..5, Claims(s)[k]
                 PROVE  Claims(t)[k]
      OBVIOUS
    <3>4. k \in {1, 2, 3, 4, 5}
      OBVIOUS
    <3>5. CASE k = 5
      BY <3>2, <3>5
    <3>6. CASE k = 1
      BY <3>3, <3>6
    <3>7. CASE k = 2
      BY <3>3, <3>7
    <3>8. CASE k = 3
      BY <3>3, <3>8
    <3>9. CASE k = 4
      BY <3>3, <3>9
    <3> QED
      BY <3>4, <3>5, <3>6, <3>7, <3>8, <3>9
  <2>3. f \in Contradicting => \A k \in 1..5 : Claims(t)[k] => Claims(s)[k]
    <3>1. f \in Contradicting => \A g \in {"bridge", "exchange", "fanout", "escape"} : t[g] = s[g]
      BY <1>2 DEF ShadowExitFields, Contradicting
    <3>2. f \in Contradicting => (OutflowAtLeast(t, 6) => OutflowAtLeast(s, 6))
      BY <1>5 DEF Contradicting
    <3> QED
      BY <3>1, <3>2
  <2>4. ShadowExitCritical(s) = BoolCount(Claims(s)) /\ ShadowExitCritical(t) = BoolCount(Claims(t))
    BY DEF ShadowExitCritical
  <2> HIDE DEF Claims
  <2> QED
    BY <2>1, <2>2, <2>3, <2>4, CountFollows
<1>10. /\ ShadowExitDiscounts(s) \in Nat /\ ShadowExitDiscounts(t) \in Nat
  BY <1>1, ExitParts DEF t
<1> QED
  BY <1>1, <1>7, <1>8, <1>9, <1>10 DEF t

(* Of the four kinds of evidence for an exit and the outflow, any two are sufficient: who
   passes the gate for a high score passes that for a medium one. *)
LEMMA ExitGates ==
    ASSUME NEW s \in Exits
    PROVE  /\ ShadowExitCritical(s) \in Nat
           /\ ShadowExitCritical(s) >= 3 => ShadowExitSufficiency(s) >= 20
<1> DEFINE claims == <<s["bridge"] > 0, s["exchange"] > 0, s["fanout"] > 0, s["escape"] > 0,
                       OutflowAtLeast(s, 6)>>
<1>1. ShadowExitCritical(s) = BoolCount(claims)
  BY DEF ShadowExitCritical
<1>2. DOMAIN claims = 1..5
  OBVIOUS
<1>3. BoolCount(claims) \in Nat
  <2> HIDE DEF claims
  <2> QED
    BY <1>2, CountFollows
<1>4. ASSUME ShadowExitSufficiency(s) < 20
      PROVE  \A j, k \in DOMAIN claims : claims[j] /\ claims[k] => j = k
  <2>1. OutflowAtLeast(s, 6) => OutflowAtLeast(s, 5)
    BY DEF OutflowAtLeast, Transfers24h, Exits, ShadowExitFields
  <2> DEFINE a == s["bridge"] > 0
             b == s["exchange"] > 0
             c == s["fanout"] > 0
             d == s["escape"] > 0
             e == OutflowAtLeast(s, 6)
  <2>2. /\ ~(a /\ b) /\ ~(a /\ c) /\ ~(a /\ d) /\ ~(a /\ e) /\ ~(b /\ c) /\ ~(b /\ d)
        /\ ~(b /\ e) /\ ~(c /\ d) /\ ~(c /\ e) /\ ~(d /\ e)
    BY <1>4, <2>1 DEF ShadowExitSufficiency, Points
  <2>3. claims = <<a, b, c, d, e>>
    OBVIOUS
  <2> HIDE DEF a, b, c, d, e
  <2>4. /\ claims[1] = a /\ claims[2] = b /\ claims[3] = c /\ claims[4] = d /\ claims[5] = e
    BY <2>3
  <2>5. \A k \in DOMAIN claims : k = 1 \/ k = 2 \/ k = 3 \/ k = 4 \/ k = 5
    BY <1>2
  <2> HIDE DEF claims
  <2> QED
    BY <2>2, <2>4, <2>5, Zenon
<1>5. ShadowExitSufficiency(s) \in Nat
  BY ExitParts
<1>6. ShadowExitSufficiency(s) < 20 => BoolCount(claims) <= 1
  <2> HIDE DEF claims
  <2> QED
    BY <1>4, CountOfOne
<1> QED
  BY <1>1, <1>3, <1>5, <1>6

(* One more observation moves the shadow exit score its way. *)
LEMMA ExitScoreFollows ==
    ASSUME NEW s \in Exits, NEW f \in ShadowExitFields
    PROVE  IF f \in Contradicting
           THEN ShadowExitScore(PlusOne(s, f)) <= ShadowExitScore(s)
           ELSE ShadowExitScore(s) <= ShadowExitScore(PlusOne(s, f))
<1> DEFINE t == PlusOne(s, f)
           Net(r) == ShadowExitGross(r) - ShadowExitDiscounts(r)
<1>1. t \in Exits
  BY ExitPartsFollow
<1>2. ASSUME NEW r \in Exits
      PROVE  /\ Net(r) \in Int /\ clampScore(Net(r)) \in Int
             /\ ShadowExitCritical(r) \in Nat /\ ShadowExitSufficiency(r) \in Nat
             /\ ShadowExitCritical(r) >= 3 => ShadowExitSufficiency(r) >= 20
             /\ ShadowExitScore(r) = ApplyCalibration(clampScore(Net(r)),
                   Calibration(ShadowExitCritical(r), 3, ShadowExitSufficiency(r), 20))
  <2>1. ShadowExitGross(r) \in Nat /\ ShadowExitDiscounts(r) \in Nat /\ ShadowExitSufficiency(r) \in Nat
    BY ExitParts
  <2>2. Net(r) \in Int /\ clampScore(Net(r)) \in Int
    BY <2>1 DEF clampScore, Lesser
  <2> QED
    BY <2>1, <2>2, ExitGates DEF ShadowExitScore
<1>3. /\ f \in Contradicting => /\ Net(t) <= Net(s)
                                /\ ShadowExitCritical(t) <= ShadowExitCritical(s)
                                /\ ShadowExitSufficiency(t) <= ShadowExitSufficiency(s)
      /\ f \notin Contradicting => /\ Net(s) <= Net(t)
                                   /\ ShadowExitCritical(s) <= ShadowExitCritical(t)
                                   /\ ShadowExitSufficiency(s) <= ShadowExitSufficiency(t)
  <2>1. /\ ShadowExitGross(s) \in Nat /\ ShadowExitDiscounts(s) \in Nat
        /\ ShadowExitGross(t) \in Nat /\ ShadowExitDiscounts(t) \in Nat
    BY <1>1, ExitParts
  <2> QED
    BY <2>1, ExitPartsFollow
<1> HIDE DEF t, Net
<1>4. CASE f \in Contradicting
  <2>1. /\ Net(s) \in Int /\ Net(t) \in Int
        /\ ShadowExitCritical(s) \in Nat /\ ShadowExitSufficiency(s) \in Nat
        /\ ShadowExitCritical(t) \in Nat /\ ShadowExitSufficiency(t) \in Nat
        /\ ShadowExitCritical(s) >= 3 => ShadowExitSufficiency(s) >= 20
    BY <1>1, <1>2
  <2>2. /\ Net(t) <= Net(s)
        /\ ShadowExitCritical(t) <= ShadowExitCritical(s)
        /\ ShadowExitSufficiency(t) <= ShadowExitSufficiency(s)
    BY <1>3, <1>4
  <2>3. ApplyCalibration(clampScore(Net(t)),
            Calibration(ShadowExitCritical(t), 3, ShadowExitSufficiency(t), 20))
          <= ApplyCalibration(clampScore(Net(s)),
                Calibration(ShadowExitCritical(s), 3, ShadowExitSufficiency(s), 20))
    BY ONLY <2>1, <2>2, CalibrationFollows
  <2>4. ShadowExitScore(t) <= ShadowExitScore(s)
    BY <1>1, <1>2, <2>3
  <2> QED
    BY <1>4, <2>4 DEF t
<1>5. CASE f \notin Contradicting
  <2>1. /\ Net(s) \in Int /\ Net(t) \in Int
        /\ ShadowExitCritical(s) \in Nat /\ ShadowExitSufficiency(s) \in Nat
        /\ ShadowExitCritical(t) \in Nat /\ ShadowExitSufficiency(t) \in Nat
        /\ ShadowExitCritical(t) >= 3 => ShadowExitSufficiency(t) >= 20
    BY <1>1, <1>2
  <2>2. /\ Net(s) <= Net(t)
        /\ ShadowExitCritical(s) <= ShadowExitCritical(t)
        /\ ShadowExitSufficiency(s) <= ShadowExitSufficiency(t)
    BY <1>3, <1>5
  <2>3. ApplyCalibration(clampScore(Net(s)),
            Calibration(ShadowExitCritical(s), 3, ShadowExitSufficiency(s), 20))
          <= ApplyCalibration(clampScore(Net(t)),
                Calibration(ShadowExitCritical(t), 3, ShadowExitSufficiency(t), 20))
    BY ONLY <2>1, <2>2, CalibrationFollows
  <2>4. ShadowExitScore(s) <= ShadowExitScore(t)
    BY <1>1, <1>2, <2>3
  <2> QED
    BY <1>5, <2>4 DEF t
<1> QED
  BY <1>4, <1>5

(* The same for the parts of the first connection score, and for the score. *)
LEMMA ConnectionParts ==
    ASSUME NEW s \in Connections
    PROVE  /\ FirstConnectionPenalty(s) \in Nat /\ FirstConnectionSufficiency(s) \in Nat
           /\ FirstConnectionCritical(s) \in Nat
           /\ FirstConnectionCritical(s) >= 2 => FirstConnectionSufficiency(s) >= 25
<1>1. \A g \in FirstConnectionFields : s[g] \in Nat
  BY DEF Connections
<1>2. FirstConnectionPenalty(s) \in Nat
  BY <1>1 DEF FirstConnectionPenalty, FirstConnectionFields, Lesser
<1>3. FirstConnectionSufficiency(s) \in Nat
  BY DEF FirstConnectionSufficiency, Points
<1> DEFINE claims == <<s["newEntry"] > 0, s["firstSeen"] > 0, s["hotMention"] > 0>>
<1>4. FirstConnectionCritical(s) = BoolCount(claims)
  BY DEF FirstConnectionCritical
<1>5. DOMAIN claims = 1..3
  OBVIOUS
<1>6. BoolCount(claims) \in Nat
  <2> HIDE DEF claims
  <2> QED
    BY <1>5, CountFollows
<1>7. FirstConnectionSufficiency(s) < 25 => \A j, k \in DOMAIN claims : claims[j] /\ claims[k] => j = k
  <2>1. FirstConnectionSufficiency(s) < 25 => ~(s["newEntry"] > 0) /\ ~(s["firstSeen"] > 0)
    BY DEF FirstConnectionSufficiency, Points
  <2>2. claims[1] = (s["newEntry"] > 0) /\ claims[2] = (s["firstSeen"] > 0)
    OBVIOUS
  <2>3. \A k \in DOMAIN claims : k = 1 \/ k = 2 \/ k = 3
    BY <1>5
  <2> HIDE DEF claims
  <2> QED
    BY <2>1, <2>2, <2>3, Zenon
<1>8. FirstConnectionSufficiency(s) < 25 => BoolCount(claims) <= 1
  <2> HIDE DEF claims
  <2> QED
    BY <1>7, CountOfOne
<1> QED
  BY <1>2, <1>3, <1>4, <1>6, <1>8

(* One more observation moves the first connection score its way. *)
LEMMA ConnectionScoreFollows ==
    ASSUME NEW s \in Connections, NEW f \in FirstConnectionFields
    PROVE  IF f \in Contradicting
           THEN FirstConnectionScore(PlusOne(s, f)) <= FirstConnectionScore(s)
           ELSE FirstConnectionScore(s) <= FirstConnectionScore(PlusOne(s, f))
<1> DEFINE t == PlusOne(s, f)
           Net(r) == 18 * r["newEntry"] + 10 * r["firstSeen"] + 6 * r["hotMention"]
                       - FirstConnectionPenalty(r)
           Claims(r) == <<r["newEntry"] > 0, r["firstSeen"] > 0, r["hotMention"] > 0>>
<1>1. /\ t \in Connections
      /\ \A g \in FirstConnectionFields : s[g] \in Nat /\ t[g] \in Nat
      /\ \A g \in FirstConnectionFields : t[g] = IF g = f THEN s[g] + 1 ELSE s[g]
  BY DEF Connections, PlusOne
<1>2. ASSUME NEW r \in Connections
      PROVE  /\ Net(r) \in Int
             /\ FirstConnectionCritical(r) \in Nat /\ FirstConnectionSufficiency(r) \in Nat
             /\ FirstConnectionCritical(r) >= 2 => FirstConnectionSufficiency(r) >= 25
             /\ FirstConnectionCritical(r) = BoolCount(Claims(r)) /\ DOMAIN Claims(r) = 1..3
             /\ FirstConnectionScore(r) = ApplyCalibration(clampScore(Net(r)),
                   Calibration(FirstConnectionCritical(r), 2, FirstConnectionSufficiency(r), 25))
  <2>1. \A g \in FirstConnectionFields : r[g] \in Nat
    BY DEF Connections
  <2>2. FirstConnectionPenalty(r) \in Nat
    BY ConnectionParts
  <2>3. Net(r) \in Int
    BY <2>1, <2>2 DEF FirstConnectionFields
  <2> QED
    BY <2>3, ConnectionParts DEF FirstConnectionScore, FirstConnectionCritical
<1> HIDE DEF t
<1>3. FirstConnectionPenalty(s) \in Nat /\ FirstConnectionPenalty(t) \in Nat
  BY <1>1, ConnectionParts
<1>4. CASE f \in Contradicting
  <2>1. /\ \A g \in {"newEntry", "firstSeen", "hotMention"} : t[g] = s[g] /\ s[g] \in Nat
        /\ \A g \in {"aggregator", "deployerOrCollector"} :
              s[g] \in Nat /\ t[g] \in Nat /\ s[g] <= t[g]
    BY <1>1, <1>4 DEF FirstConnectionFields, Contradicting
  <2>2. FirstConnectionPenalty(s) <= FirstConnectionPenalty(t)
    BY <2>1 DEF FirstConnectionPenalty, Lesser
  <2>3. Net(t) <= Net(s)
    BY <1>3, <2>1, <2>2
  <2>4. FirstConnectionSufficiency(t) = FirstConnectionSufficiency(s) /\ Claims(t) = Claims(s)
    BY <2>1 DEF FirstConnectionSufficiency
  <2> HIDE DEF Net, Claims
  <2>5. /\ Net(s) \in Int /\ Net(t) \in Int
        /\ FirstConnectionCritical(s) \in Nat /\ FirstConnectionSufficiency(s) \in Nat
        /\ FirstConnectionCritical(t) = FirstConnectionCritical(s)
        /\ FirstConnectionCritical(s) >= 2 => FirstConnectionSufficiency(s) >= 25
    BY <1>1, <1>2, <2>4
  <2>6. ApplyCalibration(clampScore(Net(t)),
            Calibration(FirstConnectionCritical(t), 2, FirstConnectionSufficiency(t), 25))
          <= ApplyCalibration(clampScore(Net(s)),
                Calibration(FirstConnectionCritical(s), 2, FirstConnectionSufficiency(s), 25))
    BY ONLY <2>3, <2>4, <2>5, CalibrationFollows
  <2>7. FirstConnectionScore(t) <= FirstConnectionScore(s)
    BY <1>1, <1>2, <2>6
  <2> QED
    BY <1>4, <2>7 DEF t
<1>5. CASE f \notin Contradicting
  <2>1. /\ \A g \in {"newEntry", "firstSeen", "hotMention"} :
              s[g] \in Nat /\ t[g] \in Nat /\ s[g] <= t[g]
        /\ \A g \in {"aggregator", "deployerOrCollector"} : t[g] = s[g]
    BY <1>1, <1>5 DEF FirstConnectionFields, Contradicting
  <2>2. FirstConnectionPenalty(s) = FirstConnectionPenalty(t)
    BY <2>1 DEF FirstConnectionPenalty
  <2>3. Net(s) <= Net(t)
    BY <1>3, <2>1, <2>2
  <2>4. FirstConnectionSufficiency(s) <= FirstConnectionSufficiency(t)
    BY <2>1 DEF FirstConnectionSufficiency, Points
  <2>5. \A k \in 1..3 : Claims(s)[k] => Claims(t)[k]
    <3> SUFFICES ASSUME NEW k \in 1..3, Claims(s)[k] PROVE Claims(t)[k]
      OBVIOUS
    <3>1. /\ s["newEntry"] > 0 => t["newEntry"] > 0
          /\ s["firstSeen"] > 0 => t["firstSeen"] > 0
          /\ s["hotMention"] > 0 => t["hotMention"] > 0
      BY <2>1
    <3>2. k \in {1, 2, 3}
      OBVIOUS
    <3>3. CASE k = 1
      BY <3>1, <3>3
    <3>4. CASE k = 2
      BY <3>1, <3>4
    <3>5. CASE k = 3
      BY <3>1, <3>5
    <3> QED
      BY <3>2, <3>3, <3>4, <3>5
  <2> HIDE DEF Net, Claims
  <2>6. BoolCount(Claims(s)) <= BoolCount(Claims(t))
    BY <1>1, <1>2, <2>5, CountFollows
  <2>7. /\ Net(s) \in Int /\ Net(t) \in Int
        /\ FirstConnectionCritical(s) \in Nat /\ FirstConnectionSufficiency(s) \in Nat
        /\ FirstConnectionCritical(t) \in Nat /\ FirstConnectionSufficiency(t) \in Nat
        /\ FirstConnectionCritical(s) <= FirstConnectionCritical(t)
        /\ FirstConnectionCritical(t) >= 2 => FirstConnectionSufficiency(t) >= 25
    BY <1>1, <1>2, <2>6
  <2>8. ApplyCalibration(clampScore(Net(s)),
            Calibration(FirstConnectionCritical(s), 2, FirstConnectionSufficiency(s), 25))
          <= ApplyCalibration(clampScore(Net(t)),
                Calibration(FirstConnectionCritical(t), 2, FirstConnectionSufficiency(t), 25))
    BY ONLY <2>3, <2>4, <2>7, CalibrationFollows
  <2>9. FirstConnectionScore(s) <= FirstConnectionScore(t)
    BY <1>1, <1>2, <2>8
  <2> QED
    BY <1>5, <2>9 DEF t
<1> QED
  BY <1>4, <1>5

(* Three things are finitely many, and so are the fields of each engine. *)
LEMMA ThreeAreFinite == ASSUME NEW a, NEW b, NEW c PROVE IsFiniteSet({a, b, c})
<1>1. IsFiniteSet({a} \cup {b}) /\ IsFiniteSet({c})
  BY FS_Singleton, FS_Union
<1>2. {a, b, c} = ({a} \cup {b}) \cup {c}
  OBVIOUS
<1> QED
  BY <1>1, <1>2, FS_Union

(* An entry has finitely many fields that count. *)
LEMMA FieldsAreFinite == ASSUME NEW e PROVE IsFiniteSet(Fields(e))
<1> DEFINE a == {"bridge", "exchange", "fanout"} \cup {"fanout24h", "escape", "outbound24h"}
           b == {"inbound24h", "aggregator", "rebalanceRoute"} \cup {"bridgeReturn", "treasury", "internal"}
           c == {"newEntry", "firstSeen", "hotMention"}
           d == {"aggregator", "deployerOrCollector", "newEntry"}
<1>1. IsFiniteSet(a) /\ IsFiniteSet(b) /\ IsFiniteSet(c) /\ IsFiniteSet(d)
  BY ThreeAreFinite, FS_Union
<1>2. ShadowExitFields = a \cup b /\ FirstConnectionFields = c \cup d
  BY DEF ShadowExitFields, FirstConnectionFields
<1> HIDE DEF a, b, c, d
<1> QED
  BY <1>1, <1>2, FS_Union DEF Fields

(* What a report counts are numbers of what its engine looks at. *)
ScoreInv == engine \in Engines /\ seen \in [Fields(engine) -> Nat]

(* An observation keeps the counts numbers and moves the score the way it speaks. *)
LEMMA ScoreMoves ==
    ASSUME ScoreInv, [ScoresNext]_scoreVars
    PROVE  ScoreInv' /\ EvidenceCountsOneWay
<1>1. CASE UNCHANGED scoreVars
  <2>1. seen' = seen /\ engine' = engine
    BY <1>1 DEF scoreVars
  <2>2. \A f \in DOMAIN seen : ~(seen'[f] > seen[f])
    BY <2>1 DEF ScoreInv
  <2> QED
    BY <2>1, <2>2 DEF ScoreInv, EvidenceCountsOneWay
<1>2. CASE ScoresNext
  <2>1. PICK f \in DOMAIN seen : Observe(f)
    BY <1>2 DEF ScoresNext
  <2>2. f \in Fields(engine) /\ seen' = PlusOne(seen, f) /\ engine' = engine
    BY <2>1 DEF Observe, ScoreInv, PlusOne
  <2>3. seen' \in [Fields(engine) -> Nat]
    BY <2>2 DEF ScoreInv, PlusOne
  <2>4. \A g \in DOMAIN seen : seen'[g] > seen[g] => g = f
    BY <2>2 DEF ScoreInv, PlusOne
  <2>5. IF f \in Contradicting
        THEN ScoreOf(engine, seen') <= ScoreOf(engine, seen)
        ELSE ScoreOf(engine, seen) <= ScoreOf(engine, seen')
    <3>1. CASE engine = "shadowExit"
      <4>1. seen \in Exits /\ f \in ShadowExitFields
        BY <2>2, <3>1 DEF ScoreInv, Fields, Exits
      <4>2. ScoreOf(engine, seen) = ShadowExitScore(seen)
            /\ ScoreOf(engine, seen') = ShadowExitScore(PlusOne(seen, f))
        BY <2>2, <3>1 DEF ScoreOf
      <4> QED
        BY <4>1, <4>2, ExitScoreFollows
    <3>2. CASE engine # "shadowExit"
      <4>1. seen \in Connections /\ f \in FirstConnectionFields
        BY <2>2, <3>2 DEF ScoreInv, Fields, Connections
      <4>2. ScoreOf(engine, seen) = FirstConnectionScore(seen)
            /\ ScoreOf(engine, seen') = FirstConnectionScore(PlusOne(seen, f))
        BY <2>2, <3>2 DEF ScoreOf
      <4> QED
        BY <4>1, <4>2, ConnectionScoreFollows
    <3> QED
      BY <3>1, <3>2
  <2>6. ScoreInv'
    BY <2>2, <2>3 DEF ScoreInv
  <2>7. EvidenceCountsOneWay
    BY <2>4, <2>5 DEF EvidenceCountsOneWay
  <2> QED
    BY <2>6, <2>7
<1> QED
  BY <1>1, <1>2

(* No count passes the bound on all of them. *)
LEMMA ScoresTypesKept == ScoresTypeOK /\ [ScoresNext]_scoreVars => ScoresTypeOK'
<1> SUFFICES ASSUME ScoresTypeOK, [ScoresNext]_scoreVars PROVE ScoresTypeOK'
  OBVIOUS
<1>1. CASE UNCHANGED scoreVars
  BY <1>1 DEF scoreVars, ScoresTypeOK
<1>2. CASE ScoresNext
  <2>1. PICK f \in DOMAIN seen : Observe(f)
    BY <1>2 DEF ScoresNext
  <2>2. /\ f \in Fields(engine) /\ seen' = [seen EXCEPT ![f] = @ + 1] /\ engine' = engine
        /\ SumOf(seen, Fields(engine)) < MaxObserved
    BY <2>1 DEF Observe, ScoresTypeOK, SumOf
  <2>3. \A g \in Fields(engine) : seen[g] \in Nat
    BY DEF ScoresTypeOK
  <2>4. seen[f] <= SumOf(seen, Fields(engine)) /\ SumOf(seen, Fields(engine)) \in Int
    BY <2>2, <2>3, FieldsAreFinite, TermWithinSum, SumOfNumbers
  <2>5. seen[f] + 1 \in 0..MaxObserved
    BY <2>2, <2>3, <2>4, ObservedAssumption
  <2> QED
    BY <2>2, <2>5 DEF ScoresTypeOK
<1> QED
  BY <1>1, <1>2

(* One more observation for the claim of a score never lowers it, one against it never raises
   it, however many have been counted and in whatever order they came. *)
THEOREM EvidenceMovesScores ==
    ScoresInit /\ [][ScoresNext]_scoreVars => []ScoresTypeOK /\ [][EvidenceCountsOneWay]_scoreVars
<1>1. ScoresInit => ScoresTypeOK
  BY ObservedAssumption DEF ScoresInit, ScoresTypeOK
<1>2. ScoresTypeOK => ScoreInv
  BY ObservedAssumption DEF ScoresTypeOK, ScoreInv
<1>3. ScoreInv /\ [ScoresNext]_scoreVars => EvidenceCountsOneWay
  BY ScoreMoves
<1> QED
  BY <1>1, <1>2, <1>3, ScoresTypesKept, PTL

(* The graph of a wallet. *)
LEMMA ImageIsFinite ==
    ASSUME NEW f, NEW S, IsFiniteSet(S)
    PROVE  IsFiniteSet({f[x] : x \in S})
<1> DEFINE g == [x \in S |-> f[x]]
<1>1. g \in Surjection(S, {f[x] : x \in S})
  BY DEF Surjection
<1> QED
  BY <1>1, FS_Surjection

GraphTypes ==
    /\ Known \subseteq Peers /\ IsFiniteSet(Known)
    /\ relation \in [Known -> [inbound : Nat, outbound : Nat, first : ActiveDays, last : ActiveDays]]
    /\ labelled \in [Peers -> SUBSET Hubs] /\ inOrder \in BOOLEAN
    /\ phase \in {"growing", "sampling", "sampled"}

(* The hubs of a peer are finitely many, and each costs points. *)
LEMMA HubsAreFew ==
    ASSUME NEW hs, hs \subseteq Hubs
    PROVE  IsFiniteSet(hs) /\ \A h \in hs : HubPenalty[h] \in Nat
<1>1. IsFiniteSet({"aggregator", "exchange", "bridge", "treasury"})
  <2>1. IsFiniteSet({"aggregator"} \cup {"exchange"})
    BY FS_Singleton, FS_Union
  <2>2. IsFiniteSet({"bridge"} \cup {"treasury"})
    BY FS_Singleton, FS_Union
  <2>3. IsFiniteSet(({"aggregator"} \cup {"exchange"}) \cup ({"bridge"} \cup {"treasury"}))
    BY <2>1, <2>2, FS_Union
  <2>4. {"aggregator", "exchange", "bridge", "treasury"}
           = ({"aggregator"} \cup {"exchange"}) \cup ({"bridge"} \cup {"treasury"})
    OBVIOUS
  <2> QED
    BY <2>3, <2>4
<1>2. hs \subseteq {"aggregator", "exchange", "bridge", "treasury"}
  BY GraphAssumption
<1>3. IsFiniteSet(hs)
  BY <1>1, <1>2, FS_Subset
<1> QED
  BY <1>2, <1>3 DEF HubPenalty

(* What a peer is worth is a number, and stays what it is while the graph stands still. *)
LEMMA WorthIsNumber ==
    ASSUME GraphTypes, NEW p \in Known, NEW chosen
    PROVE  WorthOf(p, chosen) \in Int
<1>1. /\ relation[p].inbound \in Nat /\ relation[p].outbound \in Nat
      /\ relation[p].first \in Nat /\ relation[p].last \in Nat
      /\ labelled[p] \subseteq Hubs
  BY GraphAssumption DEF GraphTypes
<1>2. SumOf(HubPenalty, labelled[p]) \in Int
  BY <1>1, HubsAreFew, SumOfNumbers
<1>3. MapThenSumSet(LAMBDA h : HubPenalty[h], labelled[p]) \in Int
  BY <1>2 DEF SumOf
<1>4. CountOf(p) \in Nat /\ SpanOf(p) \in Nat
  BY <1>1 DEF CountOf, SpanOf
<1>5. /\ Lesser(CountOf(p), 20) \in Int /\ Points(20, Mixed(p)) \in Int /\ Points(12, Mixed(p)) \in Int
      /\ Lesser(2 * SpanOf(p), 18) \in Int /\ Points(8, Funds(p)) \in Int
      /\ CoverageBonus(p, chosen) \in Int
  BY <1>4 DEF Lesser, Points, CoverageBonus
<1>6. ClusterPeerBaseScore(p) \in Int
  BY <1>3, <1>5 DEF ClusterPeerBaseScore
<1> QED
  BY <1>5, <1>6 DEF WorthOf

BaseAsSum ==
    \A p : ClusterPeerBaseScore(p) =
               Lesser(CountOf(p), 20) + Points(20, Mixed(p)) + Points(12, Mixed(p))
                 + (IF relation[p].last >= relation[p].first THEN Lesser(2 * SpanOf(p), 18) ELSE 0)
                 + Points(8, Funds(p)) - SumOf(HubPenalty, labelled[p])

(* The base score with its sum named. *)
LEMMA BaseIsSum == BaseAsSum
BY DEF BaseAsSum, ClusterPeerBaseScore, SumOf

(* What a peer is worth depends on the relations and the labels alone. *)
LEMMA WorthStays ==
    ASSUME UNCHANGED <<relation, labelled>>, NEW p, NEW chosen
    PROVE  WorthOf(p, chosen)' = WorthOf(p, chosen)
<1>1. /\ CountOf(p)' = CountOf(p) /\ Mixed(p)' = Mixed(p) /\ SpanOf(p)' = SpanOf(p)
      /\ Funds(p)' = Funds(p) /\ relation'[p] = relation[p]
  BY DEF CountOf, Mixed, SpanOf, Funds
<1>2. SumOf(HubPenalty, labelled'[p]) = SumOf(HubPenalty, labelled[p])
  OBVIOUS
<1>3. BaseAsSum'
  BY BaseIsSum, PTL
<1>4. ClusterPeerBaseScore(p)' =
         Lesser(CountOf(p)', 20) + Points(20, Mixed(p)') + Points(12, Mixed(p)')
           + (IF relation'[p].last >= relation'[p].first THEN Lesser(2 * SpanOf(p)', 18) ELSE 0)
           + Points(8, Funds(p)') - SumOf(HubPenalty, labelled'[p])
  BY <1>3 DEF BaseAsSum
<1>5. Points(20, Mixed(p)') = Points(20, Mixed(p)) /\ Points(12, Mixed(p)') = Points(12, Mixed(p))
      /\ Points(8, Funds(p)') = Points(8, Funds(p))
  BY <1>1 DEF Points
<1>6. ClusterPeerBaseScore(p)' = ClusterPeerBaseScore(p)
  BY <1>1, <1>2, <1>4, <1>5, BaseIsSum DEF BaseAsSum
<1> QED
  BY <1>6 DEF WorthOf, CoverageBonus, EntitiesOf

(* p is before q in the order of the sample. *)
Beats(p, q, chosen) ==
    \/ WorthOf(p, chosen) > WorthOf(q, chosen)
    \/ WorthOf(p, chosen) = WorthOf(q, chosen) /\ p < q

PickedBefore(s, i) == {s[j] : j \in 1..(i - 1)}

BestPicked ==
    \A i \in DOMAIN picked :
        \A q \in Known \ (PickedBefore(picked, i) \cup {picked[i]}) :
            Beats(picked[i], q, PickedBefore(picked, i))

(* The best so far beats every other peer looked at in this scan. *)
Looked == Known \ (Picked \cup unscanned)
BestOfScan ==
    /\ best = 0 => Looked = {}
    /\ best # 0 => best \in Looked /\ \A q \in Looked \ {best} : Beats(best, q, Picked)

SampleInv ==
    /\ GraphTypes
    /\ picked \in Seq(Known) /\ IsFiniteSet(Picked) /\ Cardinality(Picked) <= Len(picked)
    /\ phase = "growing" => picked = <<>> /\ best = 0 /\ unscanned = {}
    /\ phase # "growing" => PeerLimit < Cardinality(Known)
    /\ phase = "sampling" => Len(picked) < PeerLimit /\ unscanned \subseteq Known \ Picked /\ BestOfScan
    /\ phase = "sampled" => best = 0 /\ unscanned = {}
    /\ BestPicked

(* So does the order of the sample. *)
LEMMA BeatsStays ==
    ASSUME UNCHANGED <<relation, labelled>>, NEW p, NEW q, NEW chosen
    PROVE  Beats(p, q, chosen)' <=> Beats(p, q, chosen)
<1>1. WorthOf(p, chosen)' = WorthOf(p, chosen) /\ WorthOf(q, chosen)' = WorthOf(q, chosen)
  BY WorthStays
<1> QED
  BY <1>1 DEF Beats

(* At first there is no graph. *)
LEMMA SampleStarts == GraphsInit => SampleInv
<1> SUFFICES ASSUME GraphsInit PROVE SampleInv
  OBVIOUS
<1>1. Known = {} /\ picked = <<>> /\ Picked = {} /\ phase = "growing"
  BY DEF GraphsInit, Known, Picked
<1>2. GraphTypes
  BY <1>1, FS_EmptySet DEF GraphTypes, GraphsInit, Known
<1>3. IsFiniteSet(Picked) /\ Cardinality(Picked) <= Len(picked) /\ picked \in Seq(Known)
  BY <1>1, FS_EmptySet
<1>4. BestPicked
  BY <1>1 DEF BestPicked
<1> QED
  BY <1>1, <1>2, <1>3, <1>4 DEF SampleInv, GraphsInit

(* A transfer reaches the graph before any sample is taken. *)
LEMMA MaterializeKeeps ==
    ASSUME SampleInv, NEW p \in Peers, NEW d \in {"inbound", "outbound"}, NEW day \in ActiveDays,
           Materialize(p, d, day)
    PROVE  SampleInv'
<1>1. phase = "growing" /\ picked = <<>> /\ best = 0 /\ unscanned = {}
  BY DEF SampleInv, Materialize
<1>2. UNCHANGED <<labelled, unscanned, best, picked, phase>>
  BY DEF Materialize
<1> DEFINE old == IF p \in Known THEN relation[p] ELSE NewRelation(day)
           Rels == [inbound : Nat, outbound : Nat, first : ActiveDays, last : ActiveDays]
<1>3. old \in Rels
  BY DEF SampleInv, GraphTypes, NewRelation
<1> HIDE DEF old
<1>4. Materialized(old, d, day) \in Rels
  BY <1>3 DEF Materialized, Points
<1>5. relation' = [q \in Known \cup {p} |-> IF q = p THEN Materialized(old, d, day) ELSE relation[q]]
      /\ inOrder' = (inOrder /\ day >= old.last)
  BY DEF Materialize, old
<1>6. Known' = Known \cup {p}
  BY <1>5 DEF Known
<1>7. GraphTypes'
  <2>1. IsFiniteSet(Known')
    BY <1>6, FS_AddElement DEF SampleInv, GraphTypes
  <2>2. relation' \in [Known' -> Rels]
    BY <1>4, <1>5, <1>6 DEF SampleInv, GraphTypes
  <2>3. Known' \subseteq Peers
    BY <1>6 DEF SampleInv, GraphTypes
  <2> QED
    BY <1>2, <1>5, <2>1, <2>2, <2>3 DEF SampleInv, GraphTypes
<1>8. Picked' = {} /\ picked' = <<>>
  BY <1>1, <1>2 DEF Picked
<1>9. IsFiniteSet(Picked)' /\ (Cardinality(Picked) <= Len(picked))' /\ (picked \in Seq(Known))'
  BY <1>8, FS_EmptySet
<1>10. BestPicked'
  BY <1>8 DEF BestPicked
<1> QED
  BY <1>1, <1>2, <1>7, <1>9, <1>10 DEF SampleInv

(* So does a label. *)
LEMMA LabelKeeps ==
    ASSUME SampleInv, NEW p \in Peers, NEW hub \in Hubs, Label(p, hub)
    PROVE  SampleInv'
<1>1. phase = "growing" /\ picked = <<>> /\ best = 0 /\ unscanned = {}
  BY DEF SampleInv, Label
<1>2. UNCHANGED <<relation, inOrder, unscanned, best, picked, phase>>
  BY DEF Label
<1>3. labelled' \in [Peers -> SUBSET Hubs]
  BY DEF Label, SampleInv, GraphTypes
<1>4. Known' = Known /\ Picked' = {} /\ picked' = <<>>
  BY <1>1, <1>2 DEF Known, Picked
<1>5. GraphTypes'
  BY <1>2, <1>3, <1>4 DEF SampleInv, GraphTypes
<1>6. IsFiniteSet(Picked)' /\ (Cardinality(Picked) <= Len(picked))' /\ (picked \in Seq(Known))'
  BY <1>4, FS_EmptySet
<1>7. BestPicked'
  BY <1>4 DEF BestPicked
<1> QED
  BY <1>1, <1>2, <1>5, <1>6, <1>7 DEF SampleInv

(* A sample begins with every peer still to be looked at. *)
LEMMA BeginSampleKeeps ==
    ASSUME SampleInv, BeginSample
    PROVE  SampleInv'
<1>1. /\ phase = "growing" /\ picked = <<>> /\ best = 0 /\ Cardinality(Known) > PeerLimit
      /\ phase' = "sampling" /\ unscanned' = Known
  BY DEF SampleInv, BeginSample
<1>2. UNCHANGED <<relation, labelled, inOrder, best, picked>>
  BY DEF BeginSample
<1>3. Known' = Known /\ Picked' = {} /\ picked' = <<>> /\ Looked' = {}
  BY <1>1, <1>2 DEF Known, Picked, Looked
<1>4. GraphTypes'
  BY <1>1, <1>2, <1>3 DEF SampleInv, GraphTypes
<1>5. IsFiniteSet(Picked)' /\ (Cardinality(Picked) <= Len(picked))' /\ (picked \in Seq(Known))'
  BY <1>3, FS_EmptySet
<1>6. BestPicked'
  BY <1>3 DEF BestPicked
<1>7. BestOfScan'
  BY <1>1, <1>2, <1>3 DEF BestOfScan
<1>8. (Len(picked) < PeerLimit)' /\ (PeerLimit < Cardinality(Known))'
  <2>1. Cardinality(Known) \in Nat
    BY FS_CardinalityType DEF SampleInv, GraphTypes
  <2> QED
    BY <1>1, <1>3, <2>1, GraphAssumption
<1>9. (unscanned \subseteq Known \ Picked)'
  BY <1>1, <1>3
<1> QED
  BY <1>1, <1>4, <1>5, <1>6, <1>7, <1>8, <1>9 DEF SampleInv

(* What stays while peers are picked: the graph, and what was picked before. *)
LEMMA ScanKeeps ==
    ASSUME SampleInv, NEW p \in Peers, Scan(p)
    PROVE  SampleInv'
<1>1. /\ phase = "sampling" /\ p \in unscanned /\ unscanned' = unscanned \ {p}
      /\ best' = IF TakesOver(p, best, Picked) THEN p ELSE best
      /\ UNCHANGED <<relation, labelled, inOrder, picked, phase>>
  BY DEF Scan
<1>2. Known' = Known /\ Picked' = Picked
  BY <1>1 DEF Known, Picked
<1>3. /\ unscanned \subseteq Known \ Picked /\ BestOfScan /\ GraphTypes
  BY <1>1 DEF SampleInv
<1>4. Looked' = Looked \cup {p} /\ p \notin Looked /\ Looked' \subseteq Known
  BY <1>1, <1>2, <1>3 DEF Looked
<1>5. \A q, r, c : Beats(q, r, c)' <=> Beats(q, r, c)
  BY <1>1, BeatsStays
<1>6. \A q \in Known : WorthOf(q, Picked) \in Int /\ q \in Nat \ {0}
  BY <1>3, WorthIsNumber, GraphAssumption DEF GraphTypes
<1>7. BestOfScan'
  <2>1. CASE best = 0
    <3>1. best' = p /\ p # 0 /\ Looked' = {p}
      BY <1>1, <1>3, <1>4, <1>6, <2>1 DEF TakesOver, BestOfScan
    <3> QED
      BY <3>1 DEF BestOfScan
  <2>2. CASE best # 0
    <3>1. best \in Looked /\ (\A q \in Looked \ {best} : Beats(best, q, Picked)) /\ best # p
      BY <1>3, <1>4, <2>2 DEF BestOfScan
    <3>2. best \in Known /\ p \in Known /\ Looked \subseteq Known
      BY <1>3, <3>1, <1>1 DEF Looked
    <3>3. CASE TakesOver(p, best, Picked)
      <4>1. best' = p /\ Beats(p, best, Picked)
        BY <1>1, <2>2, <3>3 DEF TakesOver, Beats
      <4>2. \A q \in Looked : Beats(p, q, Picked)
        BY <1>6, <3>1, <3>2, <4>1 DEF Beats
      <4>3. \A q \in Looked' \ {best'} : Beats(best', q, Picked')
        BY <1>2, <1>4, <4>1, <4>2
      <4>4. \A q \in Looked' \ {best'} : Beats(best, q, Picked)'
        BY <1>5, <4>3
      <4>5. best' \in Looked' /\ best' # 0
        BY <1>4, <1>6, <3>2, <4>1
      <4> QED
        BY <4>4, <4>5 DEF BestOfScan
    <3>4. CASE ~TakesOver(p, best, Picked)
      <4>1. best' = best /\ Beats(best, p, Picked)
        BY <1>1, <1>6, <2>2, <3>1, <3>2, <3>4 DEF TakesOver, Beats
      <4> QED
        BY <1>2, <1>4, <1>5, <2>2, <3>1, <4>1 DEF BestOfScan
    <3> QED
      BY <3>3, <3>4
  <2> QED
    BY <2>1, <2>2
<1>8. BestPicked'
  BY <1>1, <1>2, <1>5 DEF BestPicked, SampleInv
<1>9. GraphTypes'
  BY <1>1, <1>2, <1>3 DEF GraphTypes
<1> QED
  BY <1>1, <1>2, <1>3, <1>7, <1>8, <1>9 DEF SampleInv

(* Picking the best of a scan: it beats whoever is not picked, since all were looked at. *)
LEMMA PickKeeps ==
    ASSUME SampleInv, Pick
    PROVE  SampleInv'
<1>1. /\ phase = "sampling" /\ unscanned = {} /\ picked' = Append(picked, best) /\ best' = 0
      /\ IF Len(picked) + 1 = PeerLimit
         THEN phase' = "sampled" /\ unscanned' = {}
         ELSE phase' = phase /\ unscanned' = Known \ (Picked \cup {best})
      /\ UNCHANGED <<relation, labelled, inOrder>>
  BY DEF Pick
<1>2. /\ GraphTypes /\ BestOfScan /\ picked \in Seq(Known) /\ BestPicked
      /\ IsFiniteSet(Picked) /\ Cardinality(Picked) <= Len(picked)
      /\ Len(picked) < PeerLimit /\ PeerLimit < Cardinality(Known)
  BY <1>1 DEF SampleInv
<1>3. Known' = Known
  BY <1>1 DEF Known
<1>4. best \in Known \ Picked /\ \A q \in Known \ (Picked \cup {best}) : Beats(best, q, Picked)
  <2>1. Looked = Known \ Picked
    BY <1>1 DEF Looked
  <2>2. Looked # {}
    <3> SUFFICES ASSUME Known \subseteq Picked PROVE FALSE
      BY <2>1
    <3>1. Cardinality(Known) <= Cardinality(Picked)
      BY <1>2, FS_Subset
    <3>2. Cardinality(Known) \in Nat /\ Cardinality(Picked) \in Nat /\ Len(picked) \in Nat /\ PeerLimit \in Nat
      BY <1>2, FS_CardinalityType, GraphAssumption DEF GraphTypes
    <3> QED
      BY <1>2, <3>1, <3>2
  <2> QED
    BY <1>2, <2>1, <2>2 DEF BestOfScan
<1>5. /\ Len(picked') = Len(picked) + 1 /\ picked' \in Seq(Known)
      /\ \A i \in 1..Len(picked) : picked'[i] = picked[i]
      /\ picked'[Len(picked) + 1] = best
  BY <1>1, <1>2, <1>4
<1>6. Picked' = Picked \cup {best}
  <2>1. DOMAIN picked = 1..Len(picked) /\ DOMAIN picked' = 1..(Len(picked) + 1) /\ Len(picked) \in Nat
    BY <1>2, <1>5
  <2> QED
    BY <1>5, <2>1 DEF Picked
<1>7. IsFiniteSet(Picked') /\ Cardinality(Picked') <= Len(picked')
  <2>1. Cardinality(Picked) \in Nat /\ Len(picked) \in Nat
    BY <1>2, FS_CardinalityType
  <2>2. /\ IsFiniteSet(Picked')
        /\ Cardinality(Picked') = IF best \in Picked THEN Cardinality(Picked) ELSE Cardinality(Picked) + 1
    BY <1>2, <1>6, FS_AddElement
  <2> QED
    BY <1>2, <1>5, <2>1, <2>2
<1>8. BestPicked'
  <2>1. \A q, r, c : Beats(q, r, c)' <=> Beats(q, r, c)
    BY <1>1, BeatsStays
  <2>2. ASSUME NEW i \in DOMAIN picked',
               NEW q \in Known \ (PickedBefore(picked', i) \cup {picked'[i]})
        PROVE  Beats(picked'[i], q, PickedBefore(picked', i))
    <3>1. i \in 1..(Len(picked) + 1) /\ Len(picked) \in Nat
      BY <1>2, <1>5
    <3>2. PickedBefore(picked', i) = PickedBefore(picked, i)
      <4>1. \A j \in 1..(i - 1) : picked'[j] = picked[j]
        BY <1>5, <3>1
      <4> QED
        BY <4>1 DEF PickedBefore
    <3>3. CASE i = Len(picked) + 1
      <4>1. PickedBefore(picked, i) = Picked
        BY <1>2, <3>1, <3>3 DEF PickedBefore, Picked
      <4> QED
        BY <1>4, <1>5, <2>2, <3>2, <3>3, <4>1
    <3>4. CASE i # Len(picked) + 1
      <4>1. i \in DOMAIN picked /\ picked'[i] = picked[i]
        BY <1>2, <1>5, <3>1, <3>4
      <4> QED
        BY <1>2, <2>2, <3>2, <4>1 DEF BestPicked
    <3> QED
      BY <3>3, <3>4
  <2> QED
    BY <1>3, <2>1, <2>2 DEF BestPicked
<1>9. (phase = "sampling")' => /\ (Len(picked) < PeerLimit)' /\ (unscanned \subseteq Known \ Picked)'
                               /\ BestOfScan'
  <2> SUFFICES ASSUME (phase = "sampling")'
               PROVE  (Len(picked) < PeerLimit)' /\ (unscanned \subseteq Known \ Picked)' /\ BestOfScan'
    OBVIOUS
  <2>1. Len(picked) + 1 # PeerLimit /\ unscanned' = Known \ (Picked \cup {best})
    BY <1>1
  <2>2. Looked' = {}
    BY <1>3, <1>6, <2>1 DEF Looked
  <2>3. (Len(picked) < PeerLimit)'
    BY <1>2, <1>5, <2>1, GraphAssumption
  <2> QED
    BY <1>1, <1>3, <1>6, <2>1, <2>2, <2>3 DEF BestOfScan
<1>10. GraphTypes'
  BY <1>1, <1>2, <1>3 DEF GraphTypes
<1>11. phase' # "growing" /\ ((phase = "sampled")' => (best = 0 /\ unscanned = {})')
  BY <1>1
<1> QED
  BY <1>2, <1>3, <1>5, <1>7, <1>8, <1>9, <1>10, <1>11 DEF SampleInv

(* Each step keeps the sample as it should be. *)
LEMMA SampleKept == SampleInv /\ [GraphsNext]_graphVars => SampleInv'
<1> SUFFICES ASSUME SampleInv, [GraphsNext]_graphVars PROVE SampleInv'
  OBVIOUS
<1>1. CASE UNCHANGED graphVars
  <2>1. UNCHANGED <<relation, labelled, inOrder, unscanned, best, picked, phase>>
    BY <1>1 DEF graphVars
  <2>2. Known' = Known /\ Picked' = Picked /\ Looked' = Looked
    BY <2>1 DEF Known, Picked, Looked
  <2>3. \A q, r, c : Beats(q, r, c)' <=> Beats(q, r, c)
    BY <2>1, BeatsStays
  <2>4. BestPicked' <=> BestPicked
    BY <2>1, <2>2, <2>3 DEF BestPicked
  <2>5. BestOfScan' <=> BestOfScan
    BY <2>1, <2>2, <2>3 DEF BestOfScan
  <2>6. GraphTypes'
    BY <2>1, <2>2 DEF SampleInv, GraphTypes
  <2> QED
    BY <2>1, <2>2, <2>4, <2>5, <2>6 DEF SampleInv
<1>2. CASE GraphsNext
  BY <1>2, MaterializeKeeps, LabelKeeps, BeginSampleKeeps, ScanKeeps, PickKeeps DEF GraphsNext
<1> QED
  BY <1>1, <1>2

(* What the invariant says of the sample. *)
LEMMA SampleInvFollows == SampleInv => GraphsTypeOK /\ SampleIsDeterministic
<1> SUFFICES ASSUME SampleInv PROVE GraphsTypeOK /\ SampleIsDeterministic
  OBVIOUS
<1>1. best \in Known \cup {0} /\ unscanned \subseteq Known
  BY DEF SampleInv, GraphTypes, BestOfScan, Looked
<1>2. GraphsTypeOK
  BY <1>1 DEF SampleInv, GraphTypes, GraphsTypeOK
<1>3. SampleIsDeterministic
  BY DEF SampleInv, BestPicked, Beats, PickedBefore, SampleIsDeterministic
<1> QED
  BY <1>2, <1>3

(* The sample of a graph is the best peers in order, whatever the order of the scan. *)
THEOREM SampleHolds ==
    GraphsInit /\ [][GraphsNext]_graphVars => [](GraphsTypeOK /\ SampleIsDeterministic)
BY SampleStarts, SampleKept, SampleInvFollows, PTL

(* The parts of the cluster score of the whole graph. *)
Linked == EntitiesOf(Known) \cup ({WalletEntity} \ {NoEntity})
Mutual == {p \in Known : Mixed(p)}
Shares == [p \in Known |-> Lesser(2 * CountOf(p), 50)]
Persists == [p \in Known |-> Lesser(8 * (SpanOf(p) + 1), 50) + Lesser(CountOf(p), 20) \div 2]
Strength == clampScore(SumOf(Shares, Known))
Endurance == clampScore(SumOf(Persists, Known))
Against == ClusterContradiction(Known) + ClusterSuppression(Known)

ClusterClaims(ms, ls, us, strength, persistence) ==
    <<ms # {}, Cardinality(ls) > 0, Cardinality(us) > 0, strength >= 20, persistence >= 20>>
ClusterEnough(ms, ls, us, strength, persistence) ==
    Points(20, ms # {}) + Points(20, Cardinality(ls) > 0) + Points(20, Cardinality(us) > 0)
      + Points(20, strength > 0) + Points(20, persistence > 0)
ClusterRaw(ms, ls, us, strength, persistence) ==
    8 * Cardinality(ms) + 4 * Cardinality(ls) + 6 * Cardinality(us)
      + strength \div 3 + persistence \div 4
PartsScore(ms, ls, us, strength, persistence, against) ==
    ApplyCalibration(clampScore(ClusterRaw(ms, ls, us, strength, persistence) - against),
        Calibration(BoolCount(ClusterClaims(ms, ls, us, strength, persistence)), 3,
                    ClusterEnough(ms, ls, us, strength, persistence), 25))

(* The score moves with its parts. *)
LEMMA ClusterScoreFollows ==
    ASSUME NEW ms1, NEW ls1, NEW us1, NEW ms2, NEW ls2, NEW us2,
           IsFiniteSet(ms2), IsFiniteSet(ls2), IsFiniteSet(us2),
           ms1 \subseteq ms2, ls1 \subseteq ls2, us1 \subseteq us2,
           NEW s1 \in Nat, NEW s2 \in Nat, s1 <= s2, NEW p1 \in Nat, NEW p2 \in Nat, p1 <= p2,
           NEW a1 \in Nat, NEW a2 \in Nat, a2 <= a1
    PROVE  PartsScore(ms1, ls1, us1, s1, p1, a1) <= PartsScore(ms2, ls2, us2, s2, p2, a2)
<1>1. /\ Cardinality(ms1) <= Cardinality(ms2) /\ Cardinality(ms1) \in Nat /\ Cardinality(ms2) \in Nat
      /\ Cardinality(ls1) <= Cardinality(ls2) /\ Cardinality(ls1) \in Nat /\ Cardinality(ls2) \in Nat
      /\ Cardinality(us1) <= Cardinality(us2) /\ Cardinality(us1) \in Nat /\ Cardinality(us2) \in Nat
  BY FS_Subset, FS_CardinalityType
<1> DEFINE c1 == ClusterClaims(ms1, ls1, us1, s1, p1)
           c2 == ClusterClaims(ms2, ls2, us2, s2, p2)
           e1 == ClusterEnough(ms1, ls1, us1, s1, p1)
           e2 == ClusterEnough(ms2, ls2, us2, s2, p2)
           r1 == ClusterRaw(ms1, ls1, us1, s1, p1) - a1
           r2 == ClusterRaw(ms2, ls2, us2, s2, p2) - a2
<1>2. r1 \in Int /\ r2 \in Int /\ r1 <= r2
  <2>1. /\ s1 \div 3 \in Nat /\ s2 \div 3 \in Nat /\ s1 \div 3 <= s2 \div 3
        /\ p1 \div 4 \in Nat /\ p2 \div 4 \in Nat /\ p1 \div 4 <= p2 \div 4
    OBVIOUS
  <2> QED
    BY <1>1, <2>1 DEF ClusterRaw
<1>3. e1 \in Nat /\ e2 \in Nat /\ e1 <= e2
  BY <1>1 DEF ClusterEnough, Points
<1>4. DOMAIN c1 = 1..5 /\ DOMAIN c2 = 1..5
  BY DEF ClusterClaims
<1>5. \A k \in 1..5 : c1[k] => c2[k]
  <2> SUFFICES ASSUME NEW k \in 1..5, c1[k] PROVE c2[k]
    OBVIOUS
  <2>1. k \in {1, 2, 3, 4, 5}
    OBVIOUS
  <2>a. /\ ms1 # {} => ms2 # {}
        /\ Cardinality(ls1) > 0 => Cardinality(ls2) > 0
        /\ Cardinality(us1) > 0 => Cardinality(us2) > 0
        /\ s1 >= 20 => s2 >= 20
        /\ p1 >= 20 => p2 >= 20
    BY <1>1
  <2>2. CASE k = 1
    BY <2>a, <2>2 DEF ClusterClaims
  <2>3. CASE k = 2
    BY <2>a, <2>3 DEF ClusterClaims
  <2>4. CASE k = 3
    BY <2>a, <2>4 DEF ClusterClaims
  <2>5. CASE k = 4
    BY <2>a, <2>5 DEF ClusterClaims
  <2>6. CASE k = 5
    BY <2>a, <2>6 DEF ClusterClaims
  <2> QED
    BY <2>1, <2>2, <2>3, <2>4, <2>5, <2>6
<1>6. e2 < 25 => \A j, k \in DOMAIN c2 : c2[j] /\ c2[k] => j = k
  <2> DEFINE a == ms2 # {}
             b == Cardinality(ls2) > 0
             c == Cardinality(us2) > 0
             d == s2 >= 20
             e == p2 >= 20
  <2>1. e2 < 25 =>
          /\ ~(a /\ b) /\ ~(a /\ c) /\ ~(a /\ d) /\ ~(a /\ e) /\ ~(b /\ c) /\ ~(b /\ d)
          /\ ~(b /\ e) /\ ~(c /\ d) /\ ~(c /\ e) /\ ~(d /\ e)
    BY <1>1 DEF ClusterEnough, Points
  <2>2. c2 = <<a, b, c, d, e>>
    BY DEF ClusterClaims
  <2> HIDE DEF a, b, c, d, e
  <2>3. c2[1] = a /\ c2[2] = b /\ c2[3] = c /\ c2[4] = d /\ c2[5] = e
    BY <2>2
  <2>4. \A k \in DOMAIN c2 : k = 1 \/ k = 2 \/ k = 3 \/ k = 4 \/ k = 5
    BY <1>4
  <2> HIDE DEF c2, e2
  <2> QED
    BY <2>1, <2>3, <2>4, Zenon
<1> HIDE DEF c1, c2, e1, e2, r1, r2
<1>7. BoolCount(c1) \in Nat /\ BoolCount(c2) \in Nat /\ BoolCount(c1) <= BoolCount(c2)
  BY <1>4, <1>5, CountFollows
<1>8. BoolCount(c2) >= 3 => e2 >= 25
  <2>1. e2 < 25 => BoolCount(c2) <= 1
    BY <1>6, CountOfOne
  <2> QED
    BY <1>3, <1>7, <2>1
<1>9. ApplyCalibration(clampScore(r1), Calibration(BoolCount(c1), 3, e1, 25))
        <= ApplyCalibration(clampScore(r2), Calibration(BoolCount(c2), 3, e2, 25))
  BY ONLY <1>2, <1>3, <1>7, <1>8, CalibrationFollows
<1> QED
  BY <1>9 DEF PartsScore, c1, c2, e1, e2, r1, r2

(* A sum grows with its terms and with another one that is not negative. *)
LEMMA SumGrows ==
    ASSUME NEW f, NEW g, NEW S, IsFiniteSet(S), NEW x,
           \A y \in S : f[y] \in Int /\ f[y] <= g[y], \A y \in S \cup {x} : g[y] \in Nat
    PROVE  SumOf(f, S) <= SumOf(g, S \cup {x})
<1>1. SumOf(f, S) <= SumOf(g, S)
  BY SumFollows
<1>2. SumOf(f, S) \in Int /\ SumOf(g, S) \in Int
  BY SumOfNumbers
<1>3. CASE x \in S
  <2>1. S \cup {x} = S
    BY <1>3
  <2> QED
    BY <1>1, <2>1
<1>4. CASE x \notin S
  <2>1. \A y \in S \cup {x} : g[y] \in Int
    OBVIOUS
  <2>2. SumOf(g, S \cup {x}) = SumOf(g, S) + g[x]
    BY <1>4, <2>1, SumWithOneMore
  <2>3. g[x] \in Nat
    OBVIOUS
  <2> QED
    BY <1>1, <1>2, <2>2, <2>3
<1> QED
  BY <1>3, <1>4

(* The two sums of the score, which are written with the state's operators. *)
LEMMA StrengthIsSum == SharedStrength(Known) = Strength \/ ~IsFiniteSet(Known)
<1> SUFFICES ASSUME IsFiniteSet(Known) PROVE SharedStrength(Known) = Strength
  OBVIOUS
<1> DEFINE Body(g) == [s \in SUBSET Known |->
                          IF s = {} THEN 0 ELSE Lesser(2 * CountOf(Taken(s)), 50) + g[s \ {Taken(s)}]]
           k == CHOOSE g : g = Body(g)
<1>1. SharedStrength(Known) = clampScore(k[Known])
  BY DEF SharedStrength, MapThenSumSet, MapThenFoldSet, Taken
<1>2. ASSUME NEW g PROVE g = Body(g) <=> Recurs(g, Shares, Known)
  <2>1. \A s \in SUBSET Known : s # {} => Shares[Taken(s)] = Lesser(2 * CountOf(Taken(s)), 50)
    BY DEF Shares, Taken
  <2>2. Body(g) = [s \in SUBSET Known |-> IF s = {} THEN 0 ELSE Shares[Taken(s)] + g[s \ {Taken(s)}]]
    BY <2>1
  <2> QED
    BY <2>2 DEF Recurs
<1>3. Recurs(k, Shares, Known)
  <2>1. \E g : g = Body(g)
    BY <1>2, RecursionExists
  <2>2. k = Body(k)
    BY <2>1
  <2> QED
    BY <1>2, <2>2
<1> DEFINE h == CHOOSE g : Recurs(g, Shares, Known)
<1>4. Recurs(h, Shares, Known) /\ SumOf(Shares, Known) = h[Known]
  BY RecursionExists, SumByRecursion
<1> HIDE DEF k, h
<1>5. k[Known] = h[Known]
  BY <1>3, <1>4, RecursionIsUnique
<1> QED
  BY <1>1, <1>4, <1>5 DEF Strength

(* The same of the persistence. *)
LEMMA PersistenceIsSum == PersistenceStrength(Known) = Endurance \/ ~IsFiniteSet(Known)
<1> SUFFICES ASSUME IsFiniteSet(Known) PROVE PersistenceStrength(Known) = Endurance
  OBVIOUS
<1> DEFINE Body(g) == [s \in SUBSET Known |->
                          IF s = {} THEN 0
                          ELSE Lesser(8 * (SpanOf(Taken(s)) + 1), 50) + Lesser(CountOf(Taken(s)), 20) \div 2
                                 + g[s \ {Taken(s)}]]
           k == CHOOSE g : g = Body(g)
<1>1. PersistenceStrength(Known) = clampScore(k[Known])
  BY DEF PersistenceStrength, MapThenSumSet, MapThenFoldSet, Taken
<1>2. ASSUME NEW g PROVE g = Body(g) <=> Recurs(g, Persists, Known)
  <2>1. \A s \in SUBSET Known : s # {} =>
           Persists[Taken(s)] = Lesser(8 * (SpanOf(Taken(s)) + 1), 50) + Lesser(CountOf(Taken(s)), 20) \div 2
    BY DEF Persists, Taken
  <2>2. Body(g) = [s \in SUBSET Known |-> IF s = {} THEN 0 ELSE Persists[Taken(s)] + g[s \ {Taken(s)}]]
    BY <2>1
  <2> QED
    BY <2>2 DEF Recurs
<1>3. Recurs(k, Persists, Known)
  <2>1. \E g : g = Body(g)
    BY <1>2, RecursionExists
  <2>2. k = Body(k)
    BY <2>1
  <2> QED
    BY <1>2, <2>2
<1> DEFINE h == CHOOSE g : Recurs(g, Persists, Known)
<1>4. Recurs(h, Persists, Known) /\ SumOf(Persists, Known) = h[Known]
  BY RecursionExists, SumByRecursion
<1> HIDE DEF k, h
<1>5. k[Known] = h[Known]
  BY <1>3, <1>4, RecursionIsUnique
<1> QED
  BY <1>1, <1>4, <1>5 DEF Endurance

(* The score of a graph analysed whole is made of these parts. *)
WholeIsParts ==
    /\ WholeScore = PartsScore(Known, Linked, Mutual, Strength, Endurance, Against)
    /\ IsFiniteSet(Known) /\ IsFiniteSet(Linked) /\ IsFiniteSet(Mutual)
    /\ Strength \in Nat /\ Endurance \in Nat /\ Against \in Nat
    /\ \A q \in Known : Shares[q] \in Nat /\ Persists[q] \in Nat
    /\ \A h : HubsAmong(Known, h) \in Nat

(* A graph of the right types has the score of its parts. *)
LEMMA WholeScoreIsParts == GraphTypes => WholeIsParts
<1> SUFFICES ASSUME GraphTypes PROVE WholeIsParts
  OBVIOUS
<1>1. IsFiniteSet(Known) /\ IsFiniteSet(Mutual)
  <2>1. Mutual \subseteq Known
    BY DEF Mutual
  <2> QED
    BY <2>1, FS_Subset DEF GraphTypes
<1>2. IsFiniteSet(Linked)
  <2>1. IsFiniteSet({EntityOf[p] : p \in Known})
    BY <1>1, ImageIsFinite
  <2>2. IsFiniteSet(EntitiesOf(Known))
    BY <2>1, FS_Subset DEF EntitiesOf
  <2>3. IsFiniteSet({WalletEntity} \ {NoEntity})
    BY FS_Singleton, FS_Subset
  <2> QED
    BY <2>2, <2>3, FS_Union DEF Linked
<1>3. \A q \in Known : CountOf(q) \in Nat /\ SpanOf(q) \in Nat
  <2> TAKE q \in Known
  <2>1. /\ relation[q].inbound \in Nat /\ relation[q].outbound \in Nat
        /\ relation[q].first \in Nat /\ relation[q].last \in Nat
    BY GraphAssumption DEF GraphTypes
  <2> QED
    BY <2>1 DEF CountOf, SpanOf
<1>4. \A q \in Known : Shares[q] \in Nat /\ Persists[q] \in Nat
  <2> TAKE q \in Known
  <2>1. Lesser(2 * CountOf(q), 50) \in Nat /\ Lesser(8 * (SpanOf(q) + 1), 50) \in Nat
        /\ Lesser(CountOf(q), 20) \in Nat
    BY <1>3 DEF Lesser
  <2>2. Lesser(CountOf(q), 20) \div 2 \in Nat
    BY <2>1
  <2> QED
    BY <2>1, <2>2 DEF Shares, Persists
<1>5. Strength \in Nat /\ Endurance \in Nat
  <2>1. SumOf(Shares, Known) \in Int /\ SumOf(Persists, Known) \in Int
    BY <1>1, <1>4, SumOfNumbers
  <2> QED
    BY <2>1 DEF Strength, Endurance, clampScore, Lesser
<1>6. \A h : HubsAmong(Known, h) \in Nat
  BY <1>1, FS_Subset, FS_CardinalityType DEF HubsAmong
<1>7. ClusterContradiction(Known) \in Nat /\ ClusterSuppression(Known) \in Nat
  BY <1>6 DEF ClusterContradiction, ClusterSuppression, Lesser
<1>8. WholeScore = PartsScore(Known, Linked, Mutual, Strength, Endurance, Against)
  <2> DEFINE raw == 8 * Cardinality(Known) + 4 * Cardinality(Linked) + 6 * Cardinality(Mutual)
                      + Strength \div 3 + Endurance \div 4
             c == ClusterContradiction(Known)
             s == ClusterSuppression(Known)
  <2>1. SharedStrength(Known) = Strength /\ PersistenceStrength(Known) = Endurance
    BY <1>1, StrengthIsSum, PersistenceIsSum
  <2>2. Cardinality(Known) \in Nat /\ Cardinality(Linked) \in Nat /\ Cardinality(Mutual) \in Nat
    BY <1>1, <1>2, FS_CardinalityType
  <2>3. raw \in Int
    BY <1>5, <2>2
  <2> HIDE DEF raw, c, s
  <2>4. raw - c - s = raw - (c + s)
    BY <1>7, <2>3 DEF c, s
  <2>5. WholeScore = ApplyCalibration(clampScore(raw - c - s),
           Calibration(BoolCount(ClusterClaims(Known, Linked, Mutual, Strength, Endurance)), 3,
                       ClusterEnough(Known, Linked, Mutual, Strength, Endurance), 25))
    BY <2>1 DEF WholeScore, ClusterScore, ClusterClaims, ClusterEnough, raw, c, s, Linked, Mutual
  <2> QED
    BY <2>4, <2>5 DEF PartsScore, ClusterRaw, Against, raw, c, s
<1> QED
  BY <1>1, <1>2, <1>4, <1>5, <1>6, <1>7, <1>8 DEF WholeIsParts, Against

(* What the claims of the graph are after a transfer that came in its order. *)
InTime == inOrder => \A q \in Known : relation[q].first <= relation[q].last

(* Clamping keeps the order. *)
LEMMA ClampFollows ==
    ASSUME NEW a \in Int, NEW b \in Int, a <= b
    PROVE  clampScore(a) \in Nat /\ clampScore(b) \in Nat /\ clampScore(a) <= clampScore(b)
BY DEF clampScore, Lesser

(* A transfer in order never takes a count, a span or a mutual peer away. *)
LEMMA TransferCounts ==
    ASSUME GraphTypes, GraphTypes', InTime, NEW p \in Peers, NEW d \in {"inbound", "outbound"},
           NEW day \in ActiveDays, Materialize(p, d, day), inOrder'
    PROVE  /\ Known' = Known \cup {p} /\ UNCHANGED labelled
           /\ \A q \in Known : (Mixed(q) => Mixed(q)') /\ Shares[q] <= Shares'[q]
                                 /\ Persists[q] <= Persists'[q]
           /\ InTime'
<1> DEFINE old == IF p \in Known THEN relation[p] ELSE NewRelation(day)
<1>1. /\ relation' = [q \in Known \cup {p} |-> IF q = p THEN Materialized(old, d, day) ELSE relation[q]]
      /\ inOrder /\ day >= old.last /\ UNCHANGED labelled
  BY DEF Materialize
<1>2. Known' = Known \cup {p}
  BY <1>1 DEF Known
<1>3. \A q \in Known : /\ relation[q].inbound \in Nat /\ relation[q].outbound \in Nat
                       /\ relation[q].first \in Nat /\ relation[q].last \in Nat
                       /\ relation[q].first <= relation[q].last
  BY <1>1, GraphAssumption DEF GraphTypes, InTime
<1>4. day \in Nat
  BY GraphAssumption
<1>5. /\ \A q \in Known' \ {p} : relation'[q] = relation[q]
      /\ relation'[p] = Materialized(old, d, day)
  BY <1>1, <1>2
<1>6. /\ relation'[p].first <= relation'[p].last
      /\ p \in Known => /\ relation[p].inbound <= relation'[p].inbound
                        /\ relation[p].outbound <= relation'[p].outbound
                        /\ relation[p].first = relation'[p].first /\ relation[p].last <= relation'[p].last
                        /\ relation'[p].inbound \in Nat /\ relation'[p].outbound \in Nat
                        /\ relation'[p].first \in Nat /\ relation'[p].last \in Nat
  <2>1. relation'[p] = [inbound |-> old.inbound + Points(1, d = "inbound"),
                        outbound |-> old.outbound + Points(1, d = "outbound"),
                        first |-> old.first, last |-> day]
    BY <1>5 DEF Materialized
  <2>2. Points(1, d = "inbound") \in Nat /\ Points(1, d = "outbound") \in Nat
    BY DEF Points
  <2>3. CASE p \in Known
    <3>1. old = relation[p]
      BY <2>3
    <3> HIDE DEF old
    <3> QED
      BY <1>1, <1>3, <1>4, <2>1, <2>2, <2>3, <3>1
  <2>4. CASE p \notin Known
    <3>1. old.first = day
      BY <2>4 DEF NewRelation
    <3> HIDE DEF old
    <3> QED
      BY <1>4, <2>1, <2>4, <3>1
  <2> QED
    BY <2>3, <2>4
<1>7. InTime'
  BY <1>1, <1>2, <1>3, <1>5, <1>6 DEF InTime
<1>8. ASSUME NEW q \in Known
      PROVE  (Mixed(q) => Mixed(q)') /\ Shares[q] <= Shares'[q] /\ Persists[q] <= Persists'[q]
  <2> DEFINE c1 == relation[q].inbound + relation[q].outbound
             c2 == relation'[q].inbound + relation'[q].outbound
             s1 == relation[q].last - relation[q].first
             s2 == relation'[q].last - relation'[q].first
  <2>1. /\ relation[q].inbound \in Nat /\ relation[q].outbound \in Nat
        /\ relation[q].first \in Nat /\ relation[q].last \in Nat
        /\ relation'[q].inbound \in Nat /\ relation'[q].outbound \in Nat
        /\ relation'[q].first \in Nat /\ relation'[q].last \in Nat
        /\ relation[q].inbound <= relation'[q].inbound /\ relation[q].outbound <= relation'[q].outbound
        /\ relation[q].first = relation'[q].first /\ relation[q].last <= relation'[q].last
        /\ relation[q].first <= relation[q].last
    BY <1>2, <1>3, <1>5, <1>6
  <2>2. c1 \in Nat /\ c2 \in Nat /\ s1 \in Nat /\ s2 \in Nat /\ c1 <= c2 /\ s1 <= s2
    BY <2>1
  <2>3. CountOf(q) = c1 /\ CountOf(q)' = c2 /\ SpanOf(q) = s1 /\ SpanOf(q)' = s2
    BY <2>1 DEF CountOf, SpanOf
  <2>4. Mixed(q) => Mixed(q)'
    BY <2>1 DEF Mixed
  <2> HIDE DEF c1, c2, s1, s2
  <2>5. /\ Lesser(2 * c1, 50) <= Lesser(2 * c2, 50)
        /\ Lesser(8 * (s1 + 1), 50) \in Nat /\ Lesser(8 * (s2 + 1), 50) \in Nat
        /\ Lesser(8 * (s1 + 1), 50) <= Lesser(8 * (s2 + 1), 50)
        /\ Lesser(c1, 20) \in Nat /\ Lesser(c2, 20) \in Nat /\ Lesser(c1, 20) <= Lesser(c2, 20)
    BY <2>2 DEF Lesser
  <2>6. /\ Lesser(c1, 20) \div 2 \in Nat /\ Lesser(c2, 20) \div 2 \in Nat
        /\ Lesser(c1, 20) \div 2 <= Lesser(c2, 20) \div 2
    BY <2>5
  <2>7. Shares[q] = Lesser(2 * c1, 50) /\ Shares'[q] = Lesser(2 * c2, 50)
    BY <1>2, <2>3 DEF Shares
  <2>8. /\ Persists[q] = Lesser(8 * (s1 + 1), 50) + Lesser(c1, 20) \div 2
        /\ Persists'[q] = Lesser(8 * (s2 + 1), 50) + Lesser(c2, 20) \div 2
    BY <1>2, <2>3 DEF Persists
  <2> QED
    BY <2>4, <2>5, <2>6, <2>7, <2>8
<1> QED
  BY <1>1, <1>2, <1>7, <1>8

(* So it never lowers the score of a graph without hubs. *)
LEMMA TransferRaises ==
    ASSUME WholeIsParts, WholeIsParts', GraphTypes, GraphTypes', InTime,
           NEW p \in Peers, NEW d \in {"inbound", "outbound"}, NEW day \in ActiveDays,
           Materialize(p, d, day), inOrder', \A q \in Peers : labelled[q] = {}
    PROVE  WholeScore' >= WholeScore
<1>1. /\ Known' = Known \cup {p} /\ UNCHANGED labelled
      /\ \A q \in Known : (Mixed(q) => Mixed(q)') /\ Shares[q] <= Shares'[q]
                            /\ Persists[q] <= Persists'[q]
  BY TransferCounts
<1>2. Known \subseteq Known' /\ Linked \subseteq Linked' /\ Mutual \subseteq Mutual'
  BY <1>1 DEF Linked, EntitiesOf, Mutual
<1>3. Strength <= Strength' /\ Endurance <= Endurance'
  <2>1. /\ \A q \in Known : /\ Shares[q] \in Nat /\ Persists[q] \in Nat
        /\ \A q \in Known \cup {p} : Shares'[q] \in Nat /\ Persists'[q] \in Nat
        /\ IsFiniteSet(Known)
    BY <1>1 DEF WholeIsParts
  <2>2. SumOf(Shares, Known) <= SumOf(Shares', Known \cup {p})
    <3>1. \A y \in Known : Shares[y] \in Int /\ Shares[y] <= Shares'[y]
      BY <1>1, <2>1
    <3> QED
      BY <2>1, <3>1, SumGrows
  <2>3. SumOf(Persists, Known) <= SumOf(Persists', Known \cup {p})
    <3>1. \A y \in Known : Persists[y] \in Int /\ Persists[y] <= Persists'[y]
      BY <1>1, <2>1
    <3> QED
      BY <2>1, <3>1, SumGrows
  <2>4. /\ SumOf(Shares, Known) \in Int /\ SumOf(Persists, Known) \in Int
        /\ SumOf(Shares', Known \cup {p}) \in Int /\ SumOf(Persists', Known \cup {p}) \in Int
    <3>1. IsFiniteSet(Known \cup {p})
      BY <2>1, FS_AddElement
    <3> QED
      BY <2>1, <3>1, SumOfNumbers
  <2>5. /\ clampScore(SumOf(Shares, Known)) <= clampScore(SumOf(Shares', Known \cup {p}))
        /\ clampScore(SumOf(Persists, Known)) <= clampScore(SumOf(Persists', Known \cup {p}))
    BY ONLY <2>2, <2>3, <2>4, ClampFollows
  <2> QED
    BY <1>1, <2>5 DEF Strength, Endurance
<1>4. Against' = 0
  <2>1. \A h : {q \in Known' : h \in labelled'[q]} = {}
    BY <1>1 DEF GraphTypes
  <2>2. \A h : HubsAmong(Known, h)' = 0
    BY <2>1, FS_EmptySet DEF HubsAmong
  <2> QED
    BY <2>2 DEF Against, ClusterContradiction, ClusterSuppression, Lesser
<1>5. Against \in Nat /\ Against' <= Against /\ Against' \in Nat
  BY <1>4 DEF WholeIsParts
<1>6. /\ WholeScore = PartsScore(Known, Linked, Mutual, Strength, Endurance, Against)
      /\ WholeScore' = PartsScore(Known', Linked', Mutual', Strength', Endurance', Against')
      /\ IsFiniteSet(Known') /\ IsFiniteSet(Linked') /\ IsFiniteSet(Mutual')
      /\ Strength \in Nat /\ Endurance \in Nat /\ Strength' \in Nat /\ Endurance' \in Nat
  BY DEF WholeIsParts
<1>7. PartsScore(Known, Linked, Mutual, Strength, Endurance, Against)
        <= PartsScore(Known', Linked', Mutual', Strength', Endurance', Against')
  BY ONLY <1>2, <1>3, <1>5, <1>6, ClusterScoreFollows
<1> QED
  BY <1>6, <1>7

(* A label changes nothing but what speaks against, and never less of that. *)
LEMMA LabelLowers ==
    ASSUME WholeIsParts, WholeIsParts', GraphTypes, GraphTypes',
           NEW p \in Peers, NEW hub \in Hubs, Label(p, hub)
    PROVE  WholeScore' <= WholeScore
<1>1. UNCHANGED relation /\ labelled' = [labelled EXCEPT ![p] = @ \cup {hub}]
  BY DEF Label
<1>2. Known' = Known /\ Mutual' = Mutual /\ Linked' = Linked /\ Shares' = Shares /\ Persists' = Persists
  <2>1. Known' = Known /\ \A q : Mixed(q)' = Mixed(q) /\ CountOf(q)' = CountOf(q) /\ SpanOf(q)' = SpanOf(q)
    BY <1>1 DEF Known, Mixed, CountOf, SpanOf
  <2> QED
    BY <2>1 DEF Mutual, Linked, EntitiesOf, Shares, Persists
<1>3. Strength' = Strength /\ Endurance' = Endurance
  BY <1>2 DEF Strength, Endurance
<1>4. ASSUME NEW h PROVE HubsAmong(Known, h) <= HubsAmong(Known, h)'
  <2>1. {q \in Known : h \in labelled[q]} \subseteq {q \in Known' : h \in labelled'[q]}
    BY <1>1, <1>2 DEF GraphTypes
  <2>2. IsFiniteSet({q \in Known' : h \in labelled'[q]})
    BY FS_Subset DEF GraphTypes
  <2> QED
    BY <2>1, <2>2, FS_Subset DEF HubsAmong
<1>5. \A h : HubsAmong(Known, h) \in Nat /\ HubsAmong(Known, h)' \in Nat
  BY DEF WholeIsParts
<1>6. Against <= Against'
  BY <1>4, <1>5 DEF Against, ClusterContradiction, ClusterSuppression, Lesser
<1>7. /\ WholeScore = PartsScore(Known, Linked, Mutual, Strength, Endurance, Against)
      /\ WholeScore' = PartsScore(Known, Linked, Mutual, Strength, Endurance, Against')
      /\ IsFiniteSet(Known) /\ IsFiniteSet(Linked) /\ IsFiniteSet(Mutual)
      /\ Strength \in Nat /\ Endurance \in Nat /\ Against \in Nat /\ Against' \in Nat
  BY <1>2, <1>3 DEF WholeIsParts
<1>8. Strength <= Strength /\ Endurance <= Endurance
      /\ Known \subseteq Known /\ Linked \subseteq Linked /\ Mutual \subseteq Mutual
  BY <1>7
<1>9. PartsScore(Known, Linked, Mutual, Strength, Endurance, Against')
        <= PartsScore(Known, Linked, Mutual, Strength, Endurance, Against)
  BY ONLY <1>6, <1>7, <1>8, ClusterScoreFollows
<1> QED
  BY <1>7, <1>9

GrowInv == GraphTypes /\ WholeIsParts /\ InTime

(* Each step moves the score as it should. *)
LEMMA GraphMoves ==
    GrowInv /\ GrowInv' /\ [GraphsNext]_graphVars => ActivityRaisesScore
<1> SUFFICES ASSUME GrowInv, GrowInv', [GraphsNext]_graphVars, phase = "growing", phase' = "growing"
             PROVE  /\ (relation' # relation /\ inOrder' /\ \A p \in Peers : labelled[p] = {})
                           => WholeScore' >= WholeScore
                    /\ labelled' # labelled => WholeScore' <= WholeScore
  BY DEF ActivityRaisesScore
<1>1. CASE relation' = relation /\ labelled' = labelled
  BY <1>1
<1>2. ASSUME NEW p \in Peers, NEW d \in {"inbound", "outbound"}, NEW day \in ActiveDays,
             Materialize(p, d, day)
      PROVE  /\ (relation' # relation /\ inOrder' /\ \A q \in Peers : labelled[q] = {})
                    => WholeScore' >= WholeScore
             /\ labelled' = labelled
  BY <1>2, TransferRaises DEF GrowInv, Materialize
<1>3. ASSUME NEW p \in Peers, NEW hub \in Hubs, Label(p, hub)
      PROVE  WholeScore' <= WholeScore /\ relation' = relation
  BY <1>3, LabelLowers DEF GrowInv, Label
<1>4. CASE UNCHANGED graphVars
  BY <1>1, <1>4 DEF graphVars
<1>5. CASE BeginSample \/ (\E p \in Peers : Scan(p)) \/ Pick
  BY <1>1, <1>5 DEF BeginSample, Scan, Pick
<1> QED
  BY <1>2, <1>3, <1>4, <1>5 DEF GraphsNext

(* Each step keeps the spans of a graph fed in order forwards. *)
LEMMA InTimeKept == GraphTypes /\ GraphTypes' /\ InTime /\ [GraphsNext]_graphVars => InTime'
<1> SUFFICES ASSUME GraphTypes, GraphTypes', InTime, [GraphsNext]_graphVars, inOrder' PROVE InTime'
  BY DEF InTime
<1>1. CASE relation' = relation /\ inOrder' = inOrder
  BY <1>1 DEF InTime, Known
<1>2. ASSUME NEW p \in Peers, NEW d \in {"inbound", "outbound"}, NEW day \in ActiveDays,
             Materialize(p, d, day)
      PROVE  InTime'
  BY <1>2, TransferCounts
<1>3. CASE UNCHANGED graphVars
  BY <1>1, <1>3 DEF graphVars
<1>4. CASE \E p \in Peers, hub \in Hubs : Label(p, hub)
  BY <1>1, <1>4 DEF Label
<1>5. CASE BeginSample \/ (\E p \in Peers : Scan(p)) \/ Pick
  BY <1>1, <1>5 DEF BeginSample, Scan, Pick
<1> QED
  BY <1>2, <1>3, <1>4, <1>5 DEF GraphsNext

(* A transfer fed in order never lowers the score and a label never raises it. *)
THEOREM ActivityMovesScore ==
    GraphsInit /\ [][GraphsNext]_graphVars => [][ActivityRaisesScore]_graphVars
<1>1. GraphsInit => InTime
  BY DEF GraphsInit, InTime, Known
<1>2. SampleInv => GraphTypes
  BY DEF SampleInv
<1>3. GraphTypes /\ InTime => GrowInv
  BY WholeScoreIsParts DEF GrowInv
<1> QED
  BY <1>1, <1>2, <1>3, SampleStarts, SampleKept, InTimeKept, GraphMoves, PTL
-----------------------------------------------------------------------------
(* Curated lists.  What their folds make of lists: entities with types, and assignments. *)
EntityTypes == {i.type : i \in AnyItem}
Defs == UNION {[K -> EntityTypes] : K \in SUBSET EntityKeys}
Row == [wallet : Wallets, key : EntityKeys]

(* Definitions are functions from some keys to types. *)
LEMMA DefsAre ==
    \A d : d \in Defs <=> /\ DOMAIN d \subseteq EntityKeys /\ d = [k \in DOMAIN d |-> d[k]]
                          /\ \A k \in DOMAIN d : d[k] \in EntityTypes
<1> SUFFICES ASSUME NEW d
             PROVE d \in Defs <=> /\ DOMAIN d \subseteq EntityKeys /\ d = [k \in DOMAIN d |-> d[k]]
                                  /\ \A k \in DOMAIN d : d[k] \in EntityTypes
  OBVIOUS
<1>1. ASSUME DOMAIN d \subseteq EntityKeys, d = [k \in DOMAIN d |-> d[k]],
             \A k \in DOMAIN d : d[k] \in EntityTypes
      PROVE  d \in Defs
  <2>1. d \in [DOMAIN d -> EntityTypes]
    BY <1>1
  <2> QED
    BY <1>1, <2>1 DEF Defs
<1>2. ASSUME d \in Defs
      PROVE  /\ DOMAIN d \subseteq EntityKeys /\ d = [k \in DOMAIN d |-> d[k]]
             /\ \A k \in DOMAIN d : d[k] \in EntityTypes
  <2>1. PICK K \in SUBSET EntityKeys : d \in [K -> EntityTypes]
    BY <1>2 DEF Defs
  <2> QED
    BY <2>1
<1> QED
  BY <1>1, <1>2

(* No entities are definitions too. *)
LEMMA NoEntitiesTyped == NoEntities \in Defs
<1>1. DOMAIN NoEntities = {} /\ NoEntities = [k \in DOMAIN NoEntities |-> NoEntities[k]]
  BY DEF NoEntities
<1> QED
  BY <1>1, DefsAre

(* The items of a list, and the entity of a list that has one. *)
LEMMA ItemsAre ==
    ASSUME NEW i \in AnyItem
    PROVE  /\ i.item = "entity" => i = EntityItem(i.key, i.type) /\ i.key \in EntityKeys
                                     /\ i.type \in EntityTypes
           /\ i.item = "wallet" <=> i = WalletItem(i.wallet) /\ i.wallet \in Wallets
           /\ i.item \in {"entity", "wallet"}
<1>1. EntityItem(i.key, i.type).item = "entity" /\ WalletItem(i.wallet).item = "wallet"
  BY DEF EntityItem, WalletItem
<1>2. \/ i = EntityItem(i.key, i.type) /\ i.key \in EntityKeys
      \/ i = WalletItem(i.wallet) /\ i.wallet \in Wallets
  BY ItemsAssumption
<1>3. i.type \in EntityTypes
  BY DEF EntityTypes
<1> QED
  BY <1>1, <1>2, <1>3

(* The entity a list is taken to name is the oldest of its entities. *)
LEMMA NamedEntityIs ==
    ASSUME NEW list \in AnyList, EntityRows(list) # {}
    PROVE  \E n \in EntityRows(list) :
              /\ NamedEntity(list) = list.items[n] /\ \A m \in EntityRows(list) : n <= m
              /\ list.items[n] \in AnyItem /\ list.items[n].item = "entity"
              /\ list.items[n].key \in EntityKeys /\ list.items[n].type \in EntityTypes
<1>1. list.items \in Seq(AnyItem)
  BY DEF AnyList
<1>2. EntityRows(list) \in SUBSET Nat
  BY <1>1 DEF EntityRows
<1>3. \E n \in EntityRows(list) : \A m \in EntityRows(list) : n <= m
  BY <1>2, LeastNumber
<1> DEFINE n == CHOOSE n \in EntityRows(list) : \A m \in EntityRows(list) : n <= m
<1>4. n \in EntityRows(list) /\ \A m \in EntityRows(list) : n <= m
  BY <1>3
<1>5. NamedEntity(list) = list.items[n]
  BY DEF NamedEntity
<1> HIDE DEF n
<1>6. n \in DOMAIN list.items /\ list.items[n].item = "entity"
  BY <1>4 DEF EntityRows
<1>7. list.items[n] \in AnyItem
  BY <1>1, <1>6
<1>8. list.items[n].key \in EntityKeys /\ list.items[n].type \in EntityTypes
  BY <1>6, <1>7, ItemsAre
<1> QED
  BY <1>4, <1>5, <1>6, <1>7, <1>8

(* A list defines an entity by a key and a type there may be. *)
LEMMA DefineTyped ==
    ASSUME NEW d \in Defs, NEW list \in AnyList PROVE Define(d, list) \in Defs
<1>1. CASE Whole(list)
  <2> DEFINE e == NamedEntity(list)
             K == DOMAIN d \cup {e.key}
             f == [k \in K |-> IF k = e.key THEN e.type ELSE d[k]]
  <2>1. e.key \in EntityKeys /\ e.type \in EntityTypes
    BY <1>1, NamedEntityIs DEF Whole
  <2>2. Define(d, list) = f
    BY <1>1 DEF Define
  <2>3. DOMAIN d \subseteq EntityKeys /\ \A k \in DOMAIN d : d[k] \in EntityTypes
    BY DefsAre
  <2> HIDE DEF e
  <2>4. DOMAIN f = K /\ K \subseteq EntityKeys
    BY <2>1, <2>3
  <2>5. \A k \in K : f[k] \in EntityTypes
    BY <2>1, <2>3
  <2>6. f = [k \in DOMAIN f |-> f[k]]
    OBVIOUS
  <2> HIDE DEF K, f
  <2>7. f \in Defs
    BY <2>4, <2>5, <2>6, DefsAre
  <2> QED
    BY <2>2, <2>7
<1>2. CASE ~Whole(list)
  BY <1>2 DEF Define
<1> QED
  BY <1>1, <1>2

(* The recursion of the fold that makes the definitions. *)
Defines(g, ls) ==
    g = [t \in SUBSET DOMAIN ls |->
            IF t = {} THEN NoEntities ELSE Define(g[t \ {Max(t)}], ls[Max(t)])]

(* Definitions by the recursion of FoldLeft. *)
LEMMA DefinitionsByRecursion ==
    ASSUME NEW ls PROVE Definitions(ls) = (CHOOSE g : Defines(g, ls))[DOMAIN ls]
BY DEF Definitions, FoldLeft, MapThenFoldSet, Defines

(* The definitions of lists are made of one list after another. *)
LEMMA DefinitionsGo ==
    ASSUME NEW ls \in Seq(AnyList)
    PROVE  \E h \in [0..Len(ls) -> Defs] :
              /\ h[0] = NoEntities /\ h[Len(ls)] = Definitions(ls)
              /\ \A k \in 1..Len(ls) : h[k] = Define(h[k - 1], ls[k])
<1> DEFINE n == Len(ls)
           step == [p \in Defs \X AnyList |-> Define(p[1], p[2])]
           c == CHOOSE g : Defines(g, ls)
<1>1. n \in Nat /\ DOMAIN ls = 1..n /\ \A k \in 1..n : ls[k] \in AnyList
  OBVIOUS
<1>2. \A d \in Defs, list \in AnyList : step[<<d, list>>] = Define(d, list)
  OBVIOUS
<1>3. step \in [Defs \X AnyList -> Defs]
  BY DefineTyped
<1> HIDE DEF n, step
<1>4. Defines(c, ls)
  <2>1. PICK g \in [SUBSET (1..n) -> Defs] : Folds(g, step, NoEntities, ls, n)
    <3>1. n \in Nat /\ ls \in [1..n -> AnyList]
      BY <1>1
    <3>2. \E g \in [SUBSET (1..n) -> Defs] : Folds(g, step, NoEntities, ls, n)
      BY ONLY <1>3, <3>1, NoEntitiesTyped, FoldExists
    <3> QED
      BY ONLY <3>2
  <2>2. ASSUME NEW t \in SUBSET (1..n), t # {}
        PROVE  g[t] = Define(g[t \ {Max(t)}], ls[Max(t)])
    <3>1. g[t] = step[<<g[t \ {Max(t)}], ls[Max(t)]>>]
      BY <2>1, <2>2 DEF Folds
    <3>2. Max(t) \in 1..n /\ t \ {Max(t)} \in SUBSET (1..n)
      BY <1>1, <2>2, LargestPosition
    <3>3. g[t \ {Max(t)}] \in Defs /\ ls[Max(t)] \in AnyList
      BY <1>1, <2>1, <3>2
    <3> QED
      BY <1>2, <3>1, <3>3
  <2>3. g[{}] = NoEntities
    BY <2>1 DEF Folds
  <2>4. g = [t \in SUBSET (1..n) |-> g[t]]
    BY <2>1
  <2>5. Defines(g, ls)
    BY <1>1, <2>2, <2>3, <2>4 DEF Defines
  <2> QED
    BY <2>5
<1>5. c[{}] = NoEntities /\ \A t \in SUBSET (1..n) : t # {} => c[t] = Define(c[t \ {Max(t)}], ls[Max(t)])
  <2> HIDE DEF c
  <2> QED
    BY <1>1, <1>4 DEF Defines
<1>6. Definitions(ls) = c[1..n]
  BY <1>1, DefinitionsByRecursion
<1> HIDE DEF c
<1>7. ASSUME NEW t \in SUBSET (1..n), t # {}, c[t \ {Max(t)}] \in Defs
      PROVE  c[t] = step[<<c[t \ {Max(t)}], ls[Max(t)]>>]
  <2>1. ls[Max(t)] \in AnyList
    BY <1>1, <1>7, LargestPosition
  <2> QED
    BY <1>2, <1>5, <1>7, <2>1
<1>8. PICK h \in [0..n -> Defs] : FoldSteps(h, c, step, NoEntities, ls, n)
  <2>1. n \in Nat /\ ls \in [1..n -> AnyList]
    BY <1>1
  <2>2. FoldsWithin(c, Defs, step, NoEntities, ls, n)
    BY <1>5, <1>7 DEF FoldsWithin
  <2> QED
    BY ONLY <1>3, <2>1, <2>2, NoEntitiesTyped, FoldGoes
<1>9. ASSUME NEW k \in 1..n PROVE h[k] = Define(h[k - 1], ls[k])
  <2>1. k - 1 \in 0..n
    BY <1>1
  <2>2. h[k - 1] \in Defs /\ ls[k] \in AnyList
    BY <1>1, <1>8, <2>1
  <2> QED
    BY <1>2, <1>8, <2>2 DEF FoldSteps
<1> QED
  BY <1>6, <1>8, <1>9 DEF n, FoldSteps

(* Assignments are rows of which no two are of one wallet; the key they give a wallet. *)
UniqueRows ==
    {rs \in Seq(Row) :
        \A m, n \in DOMAIN rs : rs[m].wallet = rs[n].wallet => m = n}
KeyIn(rs, w) ==
    LET of == {n \in DOMAIN rs : rs[n].wallet = w}
    IN  IF of = {} THEN NoKey ELSE rs[CHOOSE n \in of : TRUE].key

(* What rows give a wallet, for rows of which no two are of one wallet. *)
LEMMA KeyInIs ==
    ASSUME NEW rs \in UniqueRows, NEW w
    PROVE  /\ \A n \in DOMAIN rs : rs[n].wallet = w => KeyIn(rs, w) = rs[n].key
           /\ (\A n \in DOMAIN rs : rs[n].wallet # w) => KeyIn(rs, w) = NoKey
           /\ KeyIn(rs, w) \in EntityKeys \cup {NoKey}
           /\ KeyIn(rs, w) = NoKey <=> \A n \in DOMAIN rs : rs[n].wallet # w
<1> DEFINE of == {n \in DOMAIN rs : rs[n].wallet = w}
<1>1. \A n \in DOMAIN rs : rs[n] \in Row /\ rs[n].key \in EntityKeys /\ rs[n].key # NoKey
  <2>1. rs \in Seq(Row)
    BY DEF UniqueRows
  <2>2. \A n \in DOMAIN rs : rs[n] \in Row
    BY <2>1
  <2> QED
    BY <2>2, KeysAssumption DEF Row, NoKey
<1>2. ASSUME of # {} PROVE (CHOOSE n \in of : TRUE) \in of
  BY <1>2
<1>3. \A m, n \in of : m = n
  BY DEF UniqueRows
<1>4. ASSUME NEW n \in DOMAIN rs, rs[n].wallet = w PROVE KeyIn(rs, w) = rs[n].key
  <2>1. n \in of
    BY <1>4
  <2>2. (CHOOSE m \in of : TRUE) = n
    BY <1>2, <1>3, <2>1
  <2> QED
    BY <2>1, <2>2 DEF KeyIn
<1>5. ASSUME \A n \in DOMAIN rs : rs[n].wallet # w PROVE KeyIn(rs, w) = NoKey
  <2>1. of = {}
    BY <1>5
  <2> QED
    BY <2>1 DEF KeyIn
<1> HIDE DEF of
<1> QED
  BY <1>1, <1>4, <1>5

(* No rows give nothing. *)
LEMMA NoRows == <<>> \in UniqueRows /\ \A w : KeyIn(<<>>, w) = NoKey
<1>1. <<>> \in Seq(Row) /\ DOMAIN <<>> = {}
  OBVIOUS
<1>2. <<>> \in UniqueRows
  BY <1>1 DEF UniqueRows
<1> QED
  BY <1>1, <1>2, KeyInIs

(* An item assigns its wallet, if it has one and the wallet has no row. *)
LEMMA AssignItemAdds ==
    ASSUME NEW got \in UniqueRows, NEW item \in AnyItem, NEW key \in EntityKeys
    PROVE  /\ AssignItem(got, item, key) \in UniqueRows
           /\ \A w \in Wallets :
                 KeyIn(AssignItem(got, item, key), w) =
                     IF KeyIn(got, w) = NoKey /\ item = WalletItem(w) THEN key ELSE KeyIn(got, w)
<1>0. \A w : WalletItem(w).wallet = w /\ WalletItem(w).item = "wallet"
  BY DEF WalletItem
<1>1. CASE item.item # "wallet" \/ \E n \in DOMAIN got : got[n].wallet = item.wallet
  <2>1. AssignItem(got, item, key) = got
    BY <1>1 DEF AssignItem
  <2>2. \A w : item = WalletItem(w) => KeyIn(got, w) # NoKey
    BY <1>0, <1>1, KeyInIs
  <2> QED
    BY <2>1, <2>2
<1>2. CASE item.item = "wallet" /\ \A n \in DOMAIN got : got[n].wallet # item.wallet
  <2> DEFINE r == [wallet |-> item.wallet, key |-> key]
             more == Append(got, r)
  <2>1. AssignItem(got, item, key) = more
    BY <1>2 DEF AssignItem
  <2>2. item = WalletItem(item.wallet) /\ item.wallet \in Wallets /\ r \in Row
    BY <1>2, ItemsAre DEF Row
  <2>3. r.wallet = item.wallet /\ r.key = key
    OBVIOUS
  <2>4. got \in Seq(Row)
    BY DEF UniqueRows
  <2> HIDE DEF r
  <2>5. /\ more \in Seq(Row) /\ Len(more) = Len(got) + 1 /\ more[Len(got) + 1] = r
        /\ \A n \in DOMAIN got : more[n] = got[n] /\ n \in DOMAIN more
        /\ \A n \in DOMAIN more : n \in DOMAIN got \/ n = Len(got) + 1
        /\ Len(got) + 1 \in DOMAIN more
    BY <2>2, <2>4
  <2> HIDE DEF more
  <2>6. more \in UniqueRows
    <3>1. ASSUME NEW m \in DOMAIN more, NEW n \in DOMAIN more, more[m].wallet = more[n].wallet
          PROVE  m = n
      <4>1. CASE m \in DOMAIN got /\ n \in DOMAIN got
        BY <2>5, <3>1, <4>1 DEF UniqueRows
      <4>2. CASE m \notin DOMAIN got \/ n \notin DOMAIN got
        BY <1>2, <2>3, <2>5, <3>1, <4>2
      <4> QED
        BY <4>1, <4>2
    <3> QED
      BY <2>5, <3>1 DEF UniqueRows
  <2>7. KeyIn(more, item.wallet) = key /\ KeyIn(got, item.wallet) = NoKey
    BY <1>2, <2>3, <2>5, <2>6, KeyInIs
  <2>8. ASSUME NEW w \in Wallets, w # item.wallet PROVE KeyIn(more, w) = KeyIn(got, w)
    <3>1. CASE \E n \in DOMAIN got : got[n].wallet = w
      <4>1. PICK n \in DOMAIN got : got[n].wallet = w
        BY <3>1
      <4>2. more[n] = got[n] /\ n \in DOMAIN more
        BY <2>5
      <4>3. KeyIn(more, w) = more[n].key /\ KeyIn(got, w) = got[n].key
        BY <2>6, <4>1, <4>2, KeyInIs
      <4> QED
        BY <4>2, <4>3
    <3>2. CASE \A n \in DOMAIN got : got[n].wallet # w
      <4>1. \A n \in DOMAIN more : more[n].wallet # w
        BY <2>3, <2>5, <2>8, <3>2
      <4> QED
        BY <2>6, <3>2, <4>1, KeyInIs
    <3> QED
      BY <3>1, <3>2
  <2>9. \A w : item = WalletItem(w) <=> w = item.wallet
    BY <1>0, <2>2
  <2> QED
    BY <2>1, <2>6, <2>7, <2>8, <2>9
<1> QED
  BY <1>1, <1>2

(* The items of a list are assigned one after another. *)
AssignItems(got, items, key) ==
    FoldLeft(LAMBDA as, item : AssignItem(as, item, key), got, items)
AssignsItems(g, got, items, key) ==
    g = [t \in SUBSET DOMAIN items |->
            IF t = {} THEN got ELSE AssignItem(g[t \ {Max(t)}], items[Max(t)], key)]

(* The loop over a list's items by the recursion of FoldLeft. *)
LEMMA AssignItemsByRecursion ==
    ASSUME NEW got, NEW items, NEW key
    PROVE  AssignItems(got, items, key) =
               (CHOOSE g : AssignsItems(g, got, items, key))[DOMAIN items]
BY DEF AssignItems, FoldLeft, MapThenFoldSet, AssignsItems

(* The loop over a list's items adds the rows of one after the other. *)
LEMMA AssignItemsGo ==
    ASSUME NEW got \in UniqueRows, NEW ls \in Seq(AnyItem), NEW key \in EntityKeys
    PROVE  \E h \in [0..Len(ls) -> UniqueRows] :
              /\ h[0] = got /\ h[Len(ls)] = AssignItems(got, ls, key)
              /\ \A k \in 1..Len(ls) : h[k] = AssignItem(h[k - 1], ls[k], key)
<1> DEFINE n == Len(ls)
           step == [p \in UniqueRows \X AnyItem |-> AssignItem(p[1], p[2], key)]
           c == CHOOSE g : AssignsItems(g, got, ls, key)
<1>1. n \in Nat /\ DOMAIN ls = 1..n /\ \A k \in 1..n : ls[k] \in AnyItem
  OBVIOUS
<1>2. \A d \in UniqueRows, list \in AnyItem : step[<<d, list>>] = AssignItem(d, list, key)
  OBVIOUS
<1>3. step \in [UniqueRows \X AnyItem -> UniqueRows]
  BY AssignItemAdds
<1> HIDE DEF n, step
<1>4. AssignsItems(c, got, ls, key)
  <2>1. PICK g \in [SUBSET (1..n) -> UniqueRows] : Folds(g, step, got, ls, n)
    <3>1. n \in Nat /\ ls \in [1..n -> AnyItem]
      BY <1>1
    <3>2. \E g \in [SUBSET (1..n) -> UniqueRows] : Folds(g, step, got, ls, n)
      BY ONLY <1>3, <3>1, got \in UniqueRows, FoldExists
    <3> QED
      BY ONLY <3>2
  <2>2. ASSUME NEW t \in SUBSET (1..n), t # {}
        PROVE  g[t] = AssignItem(g[t \ {Max(t)}], ls[Max(t)], key)
    <3>1. g[t] = step[<<g[t \ {Max(t)}], ls[Max(t)]>>]
      BY <2>1, <2>2 DEF Folds
    <3>2. Max(t) \in 1..n /\ t \ {Max(t)} \in SUBSET (1..n)
      BY <1>1, <2>2, LargestPosition
    <3>3. g[t \ {Max(t)}] \in UniqueRows /\ ls[Max(t)] \in AnyItem
      BY <1>1, <2>1, <3>2
    <3> QED
      BY <1>2, <3>1, <3>3
  <2>3. g[{}] = got
    BY <2>1 DEF Folds
  <2>4. g = [t \in SUBSET (1..n) |-> g[t]]
    BY <2>1
  <2>5. AssignsItems(g, got, ls, key)
    BY <1>1, <2>2, <2>3, <2>4 DEF AssignsItems
  <2> QED
    BY <2>5
<1>5. /\ c[{}] = got
      /\ \A t \in SUBSET (1..n) : t # {} => c[t] = AssignItem(c[t \ {Max(t)}], ls[Max(t)], key)
  <2> HIDE DEF c
  <2> QED
    BY <1>1, <1>4 DEF AssignsItems
<1>6. AssignItems(got, ls, key) = c[1..n]
  BY <1>1, AssignItemsByRecursion
<1> HIDE DEF c
<1>7. ASSUME NEW t \in SUBSET (1..n), t # {}, c[t \ {Max(t)}] \in UniqueRows
      PROVE  c[t] = step[<<c[t \ {Max(t)}], ls[Max(t)]>>]
  <2>1. ls[Max(t)] \in AnyItem
    BY <1>1, <1>7, LargestPosition
  <2> QED
    BY <1>2, <1>5, <1>7, <2>1
<1>8. PICK h \in [0..n -> UniqueRows] : FoldSteps(h, c, step, got, ls, n)
  <2>1. n \in Nat /\ ls \in [1..n -> AnyItem]
    BY <1>1
  <2>2. FoldsWithin(c, UniqueRows, step, got, ls, n)
    BY <1>5, <1>7 DEF FoldsWithin
  <2> QED
    BY ONLY <1>3, <2>1, <2>2, got \in UniqueRows, FoldGoes
<1>9. ASSUME NEW k \in 1..n PROVE h[k] = AssignItem(h[k - 1], ls[k], key)
  <2>1. k - 1 \in 0..n
    BY <1>1
  <2>2. h[k - 1] \in UniqueRows /\ ls[k] \in AnyItem
    BY <1>1, <1>8, <2>1
  <2> QED
    BY <1>2, <1>8, <2>2 DEF FoldSteps
<1> QED
  BY <1>6, <1>8, <1>9 DEF n, FoldSteps

(* The items of a list assign their key to the wallets among them that have none. *)
Lists(items, w) == \E n \in DOMAIN items : items[n] = WalletItem(w)

(* After the loop over a list's items, the wallets it lists are assigned: to what they were
   before, or to the list's entity. *)
LEMMA AssignItemsAdd ==
    ASSUME NEW got \in UniqueRows, NEW ls \in Seq(AnyItem), NEW key \in EntityKeys
    PROVE  /\ AssignItems(got, ls, key) \in UniqueRows
           /\ \A w \in Wallets :
                 KeyIn(AssignItems(got, ls, key), w) =
                     IF KeyIn(got, w) = NoKey /\ Lists(ls, w) THEN key ELSE KeyIn(got, w)
<1>1. PICK h \in [0..Len(ls) -> UniqueRows] :
              /\ h[0] = got /\ h[Len(ls)] = AssignItems(got, ls, key)
              /\ \A k \in 1..Len(ls) : h[k] = AssignItem(h[k - 1], ls[k], key)
  BY AssignItemsGo
<1>2. Len(ls) \in Nat /\ Len(ls) \in 0..Len(ls) /\ 0 \in 0..Len(ls)
  OBVIOUS
<1>3. AssignItems(got, ls, key) \in UniqueRows
  BY <1>1, <1>2
<1>4. ASSUME NEW w \in Wallets
      PROVE  KeyIn(AssignItems(got, ls, key), w) =
                 IF KeyIn(got, w) = NoKey /\ Lists(ls, w) THEN key ELSE KeyIn(got, w)
  <2> DEFINE Lists1(k) == \E n \in 1..k : ls[n] = WalletItem(w)
             S == {k \in 0..Len(ls) :
                      KeyIn(h[k], w) = IF KeyIn(got, w) = NoKey /\ Lists1(k) THEN key ELSE KeyIn(got, w)}
  <2>1. 0 \in S
    <3>1. ~Lists1(0)
      OBVIOUS
    <3> HIDE DEF Lists1
    <3> QED
      BY <1>1, <1>2, <3>1
  <2>2. ASSUME NEW k \in 1..Len(ls), k - 1 \in S PROVE k \in S
    <3>1. k \in 0..Len(ls) /\ k - 1 \in 0..Len(ls) /\ ls[k] \in AnyItem /\ k \in Nat
      OBVIOUS
    <3>2. Lists1(k) <=> Lists1(k - 1) \/ ls[k] = WalletItem(w)
      <4>1. \A n : n \in 1..k <=> n \in 1..(k - 1) \/ n = k
        BY <3>1
      <4> QED
        BY <4>1
    <3>3. KeyIn(h[k - 1], w) = IF KeyIn(got, w) = NoKey /\ Lists1(k - 1) THEN key ELSE KeyIn(got, w)
      BY <2>2
    <3>4. h[k] = AssignItem(h[k - 1], ls[k], key) /\ h[k - 1] \in UniqueRows
      BY <1>1, <3>1
    <3>5. KeyIn(h[k], w) =
              IF KeyIn(h[k - 1], w) = NoKey /\ ls[k] = WalletItem(w) THEN key ELSE KeyIn(h[k - 1], w)
      BY <3>1, <3>4, AssignItemAdds
    <3> HIDE DEF Lists1
    <3>6. KeyIn(h[k], w) = IF KeyIn(got, w) = NoKey /\ Lists1(k) THEN key ELSE KeyIn(got, w)
      BY <3>2, <3>3, <3>5
    <3> QED
      BY <3>1, <3>6
  <2> HIDE DEF S
  <2>3. Len(ls) \in S
    BY <1>2, <2>1, <2>2, StepByStep
  <2> USE DEF S
  <2>4. Lists1(Len(ls)) <=> Lists(ls, w)
    BY DEF Lists
  <2> HIDE DEF Lists1
  <2> QED
    BY <1>1, <2>3, <2>4
<1> QED
  BY <1>3, <1>4

(* A list that is whole assigns its entity to the wallets in it that have none yet. *)
Gives(list, w) == Whole(list) /\ Lists(list.items, w)

(* A list assigns the wallets it gives an entity unless they are assigned already. *)
LEMMA AssignAdds ==
    ASSUME NEW got \in UniqueRows, NEW list \in AnyList
    PROVE  /\ Assign(got, list) \in UniqueRows
           /\ \A w \in Wallets :
                 KeyIn(Assign(got, list), w) =
                     IF KeyIn(got, w) = NoKey /\ Gives(list, w) THEN NamedEntity(list).key
                     ELSE KeyIn(got, w)
<1>1. CASE Whole(list)
  <2>1. NamedEntity(list).key \in EntityKeys
    BY <1>1, NamedEntityIs DEF Whole
  <2>2. list.items \in Seq(AnyItem)
    BY DEF AnyList
  <2>3. Assign(got, list) = AssignItems(got, list.items, NamedEntity(list).key)
    BY <1>1 DEF Assign, AssignItems
  <2>4. \A w : Gives(list, w) <=> Lists(list.items, w)
    BY <1>1 DEF Gives
  <2> QED
    BY <2>1, <2>2, <2>3, <2>4, AssignItemsAdd
<1>2. CASE ~Whole(list)
  BY <1>2 DEF Assign, Gives
<1> QED
  BY <1>1, <1>2

(* A list adds to unique rows such that they stay unique. *)
LEMMA AssignTyped == \A got \in UniqueRows, list \in AnyList : Assign(got, list) \in UniqueRows
BY AssignAdds

(* The recursion of the fold that makes the assignments of lists. *)
Assigns(g, ls) ==
    g = [t \in SUBSET DOMAIN ls |->
            IF t = {} THEN <<>> ELSE Assign(g[t \ {Max(t)}], ls[Max(t)])]

(* Assignments by the recursion of FoldLeft. *)
LEMMA AssignmentsByRecursion ==
    ASSUME NEW ls PROVE Assignments(ls) = (CHOOSE g : Assigns(g, ls))[DOMAIN ls]
BY DEF Assignments, FoldLeft, MapThenFoldSet, Assigns

(* The assignments of lists are made of one list after another. *)
LEMMA AssignmentsGo ==
    ASSUME NEW ls \in Seq(AnyList)
    PROVE  \E h \in [0..Len(ls) -> UniqueRows] :
              /\ h[0] = <<>> /\ h[Len(ls)] = Assignments(ls)
              /\ \A k \in 1..Len(ls) : h[k] = Assign(h[k - 1], ls[k])
<1> DEFINE n == Len(ls)
           step == [p \in UniqueRows \X AnyList |-> Assign(p[1], p[2])]
           c == CHOOSE g : Assigns(g, ls)
<1>1. n \in Nat /\ DOMAIN ls = 1..n /\ \A k \in 1..n : ls[k] \in AnyList
  OBVIOUS
<1>2. \A d \in UniqueRows, list \in AnyList : step[<<d, list>>] = Assign(d, list)
  OBVIOUS
<1>3. step \in [UniqueRows \X AnyList -> UniqueRows]
  BY AssignTyped
<1> HIDE DEF n, step
<1>4. Assigns(c, ls)
  <2>1. PICK g \in [SUBSET (1..n) -> UniqueRows] : Folds(g, step, <<>>, ls, n)
    <3>1. n \in Nat /\ ls \in [1..n -> AnyList]
      BY <1>1
    <3>2. \E g \in [SUBSET (1..n) -> UniqueRows] : Folds(g, step, <<>>, ls, n)
      BY ONLY <1>3, <3>1, NoRows, FoldExists
    <3> QED
      BY ONLY <3>2
  <2>2. ASSUME NEW t \in SUBSET (1..n), t # {}
        PROVE  g[t] = Assign(g[t \ {Max(t)}], ls[Max(t)])
    <3>1. g[t] = step[<<g[t \ {Max(t)}], ls[Max(t)]>>]
      BY <2>1, <2>2 DEF Folds
    <3>2. Max(t) \in 1..n /\ t \ {Max(t)} \in SUBSET (1..n)
      BY <1>1, <2>2, LargestPosition
    <3>3. g[t \ {Max(t)}] \in UniqueRows /\ ls[Max(t)] \in AnyList
      BY <1>1, <2>1, <3>2
    <3> QED
      BY <1>2, <3>1, <3>3
  <2>3. g[{}] = <<>>
    BY <2>1 DEF Folds
  <2>4. g = [t \in SUBSET (1..n) |-> g[t]]
    BY <2>1
  <2>5. Assigns(g, ls)
    BY <1>1, <2>2, <2>3, <2>4 DEF Assigns
  <2> QED
    BY <2>5
<1>5. /\ c[{}] = <<>>
      /\ \A t \in SUBSET (1..n) : t # {} => c[t] = Assign(c[t \ {Max(t)}], ls[Max(t)])
  <2> HIDE DEF c
  <2> QED
    BY <1>1, <1>4 DEF Assigns
<1>6. Assignments(ls) = c[1..n]
  BY <1>1, AssignmentsByRecursion
<1> HIDE DEF c
<1>7. ASSUME NEW t \in SUBSET (1..n), t # {}, c[t \ {Max(t)}] \in UniqueRows
      PROVE  c[t] = step[<<c[t \ {Max(t)}], ls[Max(t)]>>]
  <2>1. ls[Max(t)] \in AnyList
    BY <1>1, <1>7, LargestPosition
  <2> QED
    BY <1>2, <1>5, <1>7, <2>1
<1>8. PICK h \in [0..n -> UniqueRows] : FoldSteps(h, c, step, <<>>, ls, n)
  <2>1. n \in Nat /\ ls \in [1..n -> AnyList]
    BY <1>1
  <2>2. FoldsWithin(c, UniqueRows, step, <<>>, ls, n)
    BY <1>5, <1>7 DEF FoldsWithin
  <2> QED
    BY ONLY <1>3, <2>1, <2>2, NoRows, FoldGoes
<1>9. ASSUME NEW k \in 1..n PROVE h[k] = Assign(h[k - 1], ls[k])
  <2>1. k - 1 \in 0..n
    BY <1>1
  <2>2. h[k - 1] \in UniqueRows /\ ls[k] \in AnyList
    BY <1>1, <1>8, <2>1
  <2> QED
    BY <1>2, <1>8, <2>2 DEF FoldSteps
<1> QED
  BY <1>6, <1>8, <1>9 DEF n, FoldSteps

(* So a wallet is assigned to the entity of the first list that gives it one. *)
KeyOf1(ls, w) ==
    LET of == {n \in DOMAIN ls : Gives(ls[n], w)}
    IN  IF of = {} THEN NoKey ELSE NamedEntity(ls[CHOOSE n \in of : \A m \in of : n <= m]).key

(* By induction on the lists read, a wallet is assigned by the first list that gives it an
   entity. *)
LEMMA AssignmentsAre ==
    ASSUME NEW ls \in Seq(AnyList)
    PROVE  Assignments(ls) \in UniqueRows /\ \A w \in Wallets : KeyIn(Assignments(ls), w) = KeyOf1(ls, w)
<1>1. PICK h \in [0..Len(ls) -> UniqueRows] :
              /\ h[0] = <<>> /\ h[Len(ls)] = Assignments(ls)
              /\ \A k \in 1..Len(ls) : h[k] = Assign(h[k - 1], ls[k])
  BY AssignmentsGo
<1>2. Len(ls) \in Nat /\ Len(ls) \in 0..Len(ls) /\ 0 \in 0..Len(ls) /\ DOMAIN ls = 1..Len(ls)
  OBVIOUS
<1>3. Assignments(ls) \in UniqueRows
  BY <1>1, <1>2
<1>4. ASSUME NEW w \in Wallets PROVE KeyIn(Assignments(ls), w) = KeyOf1(ls, w)
  <2> DEFINE Of(k) == {n \in 1..k : Gives(ls[n], w)}
             Says(k) == /\ Of(k) = {} => KeyIn(h[k], w) = NoKey
                        /\ \A n \in Of(k) : (\A m \in Of(k) : n <= m) =>
                              KeyIn(h[k], w) = NamedEntity(ls[n]).key
             S == {k \in 0..Len(ls) : Says(k)}
  <2>0. ASSUME NEW n \in DOMAIN ls, Gives(ls[n], w)
        PROVE  NamedEntity(ls[n]).key # NoKey
    <3>1. ls[n] \in AnyList /\ EntityRows(ls[n]) # {}
      BY <2>0 DEF Gives, Whole
    <3>2. NamedEntity(ls[n]).key \in EntityKeys
      BY <3>1, NamedEntityIs
    <3> QED
      BY <3>2, KeysAssumption DEF NoKey
  <2>1. 0 \in S
    <3>1. Of(0) = {}
      OBVIOUS
    <3> HIDE DEF Of
    <3> QED
      BY <1>1, <1>2, <3>1, NoRows
  <2>2. ASSUME NEW k \in 1..Len(ls), k - 1 \in S PROVE k \in S
    <3>1. k \in 0..Len(ls) /\ k - 1 \in 0..Len(ls) /\ ls[k] \in AnyList /\ k \in Nat
      OBVIOUS
    <3>2. Says(k - 1)
      BY <2>2
    <3>3. \A n : n \in Of(k) <=> n \in Of(k - 1) \/ (n = k /\ Gives(ls[k], w))
      <4>1. \A n : n \in 1..k <=> n \in 1..(k - 1) \/ n = k
        BY <3>1
      <4> QED
        BY <4>1
    <3>4. Of(k - 1) \in SUBSET Nat /\ \A n \in Of(k - 1) : n < k /\ n <= k /\ ~(k <= n)
      BY <3>1
    <3>5. KeyIn(h[k], w) =
              IF KeyIn(h[k - 1], w) = NoKey /\ Gives(ls[k], w) THEN NamedEntity(ls[k]).key
              ELSE KeyIn(h[k - 1], w)
      <4>1. h[k] = Assign(h[k - 1], ls[k]) /\ h[k - 1] \in UniqueRows
        BY <1>1, <3>1
      <4> QED
        BY <3>1, <4>1, AssignAdds
    <3>6. CASE Of(k - 1) = {}
      <4>1. KeyIn(h[k - 1], w) = NoKey
        BY <3>2, <3>6
      <4>2. \A n : n \in Of(k) <=> n = k /\ Gives(ls[k], w)
        BY <3>3, <3>6
      <4> HIDE DEF Of
      <4> QED
        BY <3>1, <3>5, <4>1, <4>2
    <3>7. CASE Of(k - 1) # {}
      <4>1. PICK n \in Of(k - 1) : \A m \in Of(k - 1) : n <= m
        <5> HIDE DEF Of
        <5> QED
          BY <3>4, <3>7, LeastNumber
      <4>2. KeyIn(h[k - 1], w) = NamedEntity(ls[n]).key
        BY <3>2, <4>1
      <4>3. n \in 1..(k - 1) /\ Gives(ls[n], w) /\ n \in Nat
        BY <4>1
      <4>4. n \in DOMAIN ls
        BY <1>2, <3>1, <4>3
      <4>5. KeyIn(h[k], w) = NamedEntity(ls[n]).key
        BY <2>0, <3>5, <4>2, <4>3, <4>4
      <4>6. n \in Of(k) /\ \A m \in Of(k) : n <= m
        BY <3>3, <3>4, <4>1
      <4>7. ASSUME NEW o \in Of(k), \A m \in Of(k) : o <= m PROVE o = n
        <5>1. o <= n /\ n <= o
          BY <4>6, <4>7
        <5>2. o \in Nat
          BY <3>1, <3>3, <3>4
        <5> HIDE DEF Of
        <5> QED
          BY <4>3, <5>1, <5>2
      <4> HIDE DEF Of
      <4>8. Says(k)
        BY <4>5, <4>6, <4>7
      <4> QED
        BY <3>1, <4>8
    <3> QED
      BY <3>6, <3>7
  <2> HIDE DEF S
  <2>3. Len(ls) \in S
    BY <1>2, <2>1, <2>2, StepByStep
  <2>4. Says(Len(ls))
    BY <2>3 DEF S
  <2> DEFINE of == {n \in DOMAIN ls : Gives(ls[n], w)}
  <2>5. of = Of(Len(ls)) /\ of \in SUBSET Nat
    BY <1>2
  <2>6. CASE of = {}
    <3>1. KeyOf1(ls, w) = NoKey
      BY <2>6 DEF KeyOf1
    <3> HIDE DEF Of, of
    <3> QED
      BY <1>1, <2>4, <2>5, <2>6, <3>1
  <2>7. CASE of # {}
    <3> DEFINE n == CHOOSE n \in of : \A m \in of : n <= m
    <3>1. KeyOf1(ls, w) = NamedEntity(ls[n]).key
      BY <2>7 DEF KeyOf1
    <3>2. n \in of /\ \A m \in of : n <= m
      <4> HIDE DEF of
      <4>1. \E j \in of : \A m \in of : j <= m
        BY <2>5, <2>7, LeastNumber
      <4> QED
        BY <4>1
    <3> HIDE DEF Of, of, n
    <3> QED
      BY <1>1, <2>4, <2>5, <3>1, <3>2
  <2> QED
    BY <2>6, <2>7
<1> QED
  BY <1>3, <1>4

(* An entity is defined by the last list that is whole and names it. *)
NamesEntity(list, e) == Whole(list) /\ NamedEntity(list).key = e

(* By induction on the lists read, an entity is defined by the last list that names it. *)
LEMMA DefinitionsAre ==
    ASSUME NEW ls \in Seq(AnyList), NEW e \in EntityKeys
    PROVE  /\ Definitions(ls) \in Defs
           /\ e \in DOMAIN Definitions(ls) <=> \E n \in DOMAIN ls : NamesEntity(ls[n], e)
           /\ \A n \in DOMAIN ls :
                 NamesEntity(ls[n], e) /\ (\A m \in DOMAIN ls : NamesEntity(ls[m], e) => m <= n)
                    => Definitions(ls)[e] = NamedEntity(ls[n]).type
<1>1. PICK h \in [0..Len(ls) -> Defs] :
              /\ h[0] = NoEntities /\ h[Len(ls)] = Definitions(ls)
              /\ \A k \in 1..Len(ls) : h[k] = Define(h[k - 1], ls[k])
  BY DefinitionsGo
<1>2. Len(ls) \in Nat /\ Len(ls) \in 0..Len(ls) /\ 0 \in 0..Len(ls) /\ DOMAIN ls = 1..Len(ls)
  OBVIOUS
<1> DEFINE Of(k) == {n \in 1..k : NamesEntity(ls[n], e)}
           Says(k) == /\ e \in DOMAIN h[k] <=> Of(k) # {}
                      /\ \A n \in Of(k) : (\A m \in Of(k) : m <= n) =>
                            h[k][e] = NamedEntity(ls[n]).type
           S == {k \in 0..Len(ls) : Says(k)}
<1>3. 0 \in S
  <2>1. Of(0) = {} /\ DOMAIN NoEntities = {}
    BY DEF NoEntities
  <2> HIDE DEF Of
  <2> QED
    BY <1>1, <1>2, <2>1
<1>4. ASSUME NEW k \in 1..Len(ls), k - 1 \in S PROVE k \in S
  <2>1. k \in 0..Len(ls) /\ k - 1 \in 0..Len(ls) /\ ls[k] \in AnyList /\ k \in Nat
    OBVIOUS
  <2>2. Says(k - 1)
    BY <1>4
  <2>3. \A n : n \in Of(k) <=> n \in Of(k - 1) \/ (n = k /\ NamesEntity(ls[k], e))
    <3>1. \A n : n \in 1..k <=> n \in 1..(k - 1) \/ n = k
      BY <2>1
    <3> QED
      BY <3>1
  <2>4. \A n \in Of(k - 1) : n \in Nat /\ n <= k /\ ~(k <= n)
    BY <2>1
  <2>5. h[k] = Define(h[k - 1], ls[k])
    BY <1>1
  <2> HIDE DEF Of
  <2>6. CASE NamesEntity(ls[k], e)
    <3>1. h[k][e] = NamedEntity(ls[k]).type /\ e \in DOMAIN h[k]
      BY <2>5, <2>6 DEF NamesEntity, Define
    <3>2. ASSUME NEW n \in Of(k), \A m \in Of(k) : m <= n PROVE n = k
      <4>1. k <= n
        BY <2>3, <2>6, <3>2
      <4> QED
        BY <2>3, <2>4, <4>1
    <3>3. k \in Of(k)
      BY <2>3, <2>6
    <3> QED
      BY <2>1, <3>1, <3>2, <3>3
  <2>7. CASE ~NamesEntity(ls[k], e)
    <3>1. Of(k) = Of(k - 1)
      BY <2>3, <2>7
    <3>2. (e \in DOMAIN h[k] <=> e \in DOMAIN h[k - 1]) /\ (e \in DOMAIN h[k - 1] => h[k][e] = h[k - 1][e])
      BY <2>5, <2>7 DEF NamesEntity, Define
    <3> QED
      BY <2>1, <2>2, <3>1, <3>2
  <2> QED
    BY <2>6, <2>7
<1> HIDE DEF S
<1>5. Len(ls) \in S
  BY <1>2, <1>3, <1>4, StepByStep
<1>6. Says(Len(ls))
  BY <1>5 DEF S
<1>7. Of(Len(ls)) = {n \in DOMAIN ls : NamesEntity(ls[n], e)}
  BY <1>2
<1> HIDE DEF Of
<1> QED
  BY <1>1, <1>2, <1>6, <1>7

(* What the property says of lists by their items is what the index makes of them. *)
LEMMA ListsRead ==
    ASSUME NEW list \in AnyList
    PROVE  /\ \A w : Has(list, {WalletItem(w)}) <=> Lists(list.items, w)
           /\ EntityRows(list) # {} <=> \E i \in ToSet(list.items) : i.item = "entity"
           /\ Whole(list) <=> Has(list, AnyWallet) /\ EntityRows(list) # {}
           /\ EntityRows(list) # {} => First(list) = NamedEntity(list)
<1>0. list.items \in Seq(AnyItem) /\ \A n \in DOMAIN list.items : list.items[n] \in AnyItem
  BY DEF AnyList
<1>1. \A w : Has(list, {WalletItem(w)}) <=> Lists(list.items, w)
  BY DEF Has, Lists
<1>2. EntityRows(list) # {} <=> \E i \in ToSet(list.items) : i.item = "entity"
  BY DEF EntityRows, ToSet
<1>3. Whole(list) <=> Has(list, AnyWallet) /\ EntityRows(list) # {}
  <2>1. \A n \in DOMAIN list.items : list.items[n].item = "wallet" <=> list.items[n] \in AnyWallet
    <3> TAKE n \in DOMAIN list.items
    <3>1. list.items[n] \in AnyItem
      BY <1>0
    <3> DEFINE i == list.items[n]
    <3>2. i.item = "wallet" <=> i = WalletItem(i.wallet) /\ i.wallet \in Wallets
      BY <3>1, ItemsAre
    <3>3. \A w : WalletItem(w).item = "wallet"
      BY DEF WalletItem
    <3>4. i \in AnyWallet <=> \E w \in Wallets : i = WalletItem(w)
      BY DEF AnyWallet
    <3> HIDE DEF i
    <3>5. i.item = "wallet" <=> i \in AnyWallet
      BY <3>2, <3>3, <3>4
    <3> QED
      BY <3>5 DEF i
  <2> QED
    BY <2>1 DEF Whole, Has
<1>4. ASSUME EntityRows(list) # {} PROVE First(list) = NamedEntity(list)
  <2>1. PICK n \in EntityRows(list) :
               NamedEntity(list) = list.items[n] /\ \A m \in EntityRows(list) : n <= m
    BY <1>4, NamedEntityIs
  <2> DEFINE F(i) == /\ list.items[i].item = "entity"
                     /\ \A j \in 1..(i - 1) : list.items[j].item # "entity"
  <2>2. n \in DOMAIN list.items /\ n \in Nat /\ \A i \in DOMAIN list.items : i \in Nat
    BY <1>0, <2>1 DEF EntityRows
  <2>3. DOMAIN list.items = 1..Len(list.items) /\ Len(list.items) \in Nat
    BY <1>0
  <2>4. F(n)
    <3>1. ASSUME NEW j \in 1..(n - 1) PROVE list.items[j].item # "entity"
      <4>1. j \in DOMAIN list.items /\ ~(n <= j)
        BY <2>2, <2>3
      <4> QED
        BY <2>1, <4>1 DEF EntityRows
    <3> QED
      BY <2>1, <3>1 DEF EntityRows
  <2>5. ASSUME NEW i \in DOMAIN list.items, F(i) PROVE i = n
    <3>1. i \in EntityRows(list) /\ i \in Nat
      BY <2>2, <2>5 DEF EntityRows
    <3>2. n <= i
      BY <2>1, <3>1
    <3>3. n \notin 1..(i - 1)
      BY <2>1, <2>5 DEF EntityRows
    <3>4. n # 0
      BY <2>2, <2>3
    <3> QED
      BY <2>2, <3>1, <3>2, <3>3, <3>4
  <2>6. First(list) = list.items[CHOOSE i \in DOMAIN list.items : F(i)]
    BY DEF First
  <2> HIDE DEF F
  <2>7. (CHOOSE i \in DOMAIN list.items : F(i)) = n
    BY <2>2, <2>4, <2>5
  <2> QED
    BY <2>1, <2>6, <2>7
<1> QED
  BY <1>1, <1>2, <1>3, <1>4

(* The key that the property reads off the lists is the one the index assigns. *)
LEMMA KeysFollow ==
    ASSUME catalog \in Seq(AnyList), NEW w \in Wallets
    PROVE  KeyInLists(w) = KeyOf1(catalog, w)
<1> DEFINE of == {n \in DOMAIN catalog : Gives(catalog[n], w)}
           n == CHOOSE n \in of : \A m \in of : n <= m
<1>0. \A k \in DOMAIN catalog : catalog[k] \in AnyList
  OBVIOUS
<1>1. Naming({WalletItem(w)}) = of
  <2>1. ASSUME NEW k \in DOMAIN catalog
        PROVE  (/\ Has(catalog[k], {WalletItem(w)})
                /\ \E i \in ToSet(catalog[k].items) : i.item = "entity") <=> Gives(catalog[k], w)
    <3>1. WalletItem(w) \in AnyWallet
      BY DEF AnyWallet
    <3>2. Has(catalog[k], {WalletItem(w)}) => Has(catalog[k], AnyWallet)
      BY <3>1 DEF Has
    <3> QED
      BY <1>0, <3>2, ListsRead DEF Gives
  <2> QED
    BY <2>1 DEF Naming
<1>2. CASE of = {}
  BY <1>1, <1>2 DEF KeyInLists, KeyOf1
<1>3. CASE of # {}
  <2>1. KeyInLists(w) = First(catalog[n]).key /\ KeyOf1(catalog, w) = NamedEntity(catalog[n]).key
    BY <1>1, <1>3 DEF KeyInLists, KeyOf1
  <2>2. n \in of
    <3>1. of \in SUBSET Nat
      OBVIOUS
    <3> HIDE DEF of
    <3>2. \E k \in of : \A m \in of : k <= m
      BY <1>3, <3>1, LeastNumber
    <3> QED
      BY <3>2 DEF n
  <2> HIDE DEF n
  <2>3. catalog[n] \in AnyList /\ EntityRows(catalog[n]) # {}
    BY <1>0, <2>2 DEF Gives, Whole
  <2> QED
    BY <2>1, <2>3, ListsRead
<1> QED
  BY <1>2, <1>3

(* The types that the property reads off the lists are those the index defines. *)
LEMMA TypesFollow ==
    ASSUME catalog \in Seq(AnyList)
    PROVE  TypesInLists = Definitions(catalog)
<1> DEFINE d == Definitions(catalog)
           of(e) == {n \in Naming(AnyWallet) : First(catalog[n]).key = e}
<1>0. DOMAIN catalog = 1..Len(catalog) /\ Len(catalog) \in Nat /\ \A k \in DOMAIN catalog : catalog[k] \in AnyList
  OBVIOUS
<1>1. d \in Defs
  <2>1. PICK h \in [0..Len(catalog) -> Defs] : h[Len(catalog)] = d
    BY DefinitionsGo
  <2>2. Len(catalog) \in 0..Len(catalog)
    BY <1>0
  <2> QED
    BY <2>1, <2>2
<1>2. DOMAIN d \subseteq EntityKeys /\ d = [e \in DOMAIN d |-> d[e]]
  BY <1>1, DefsAre
<1>3. ASSUME NEW e \in EntityKeys PROVE of(e) = {n \in DOMAIN catalog : NamesEntity(catalog[n], e)}
  <2>1. ASSUME NEW n \in DOMAIN catalog
        PROVE  n \in of(e) <=> NamesEntity(catalog[n], e)
    <3>1. catalog[n] \in AnyList
      BY <1>0
    <3>2. n \in of(e) <=> /\ Has(catalog[n], AnyWallet) /\ EntityRows(catalog[n]) # {}
                          /\ First(catalog[n]).key = e
      BY <3>1, ListsRead DEF Naming
    <3> QED
      BY <3>1, <3>2, ListsRead DEF NamesEntity
  <2>2. of(e) \subseteq DOMAIN catalog
    BY DEF Naming
  <2> HIDE DEF of
  <2> QED
    BY <2>1, <2>2
<1>4. ASSUME NEW e \in EntityKeys, of(e) # {}
      PROVE  d[e] = First(catalog[CHOOSE n \in of(e) : \A m \in of(e) : m <= n]).type
  <2> DEFINE n == CHOOSE n \in of(e) : \A m \in of(e) : m <= n
  <2>1. n \in of(e) /\ \A m \in of(e) : m <= n
    <3>1. of(e) \in SUBSET Nat /\ \A m \in of(e) : m <= Len(catalog)
      BY <1>0, <1>3
    <3> HIDE DEF of
    <3>2. Max(of(e)) \in of(e) /\ \A m \in of(e) : m <= Max(of(e))
      BY <1>0, <1>4, <3>1, LargestNumber
    <3> QED
      BY <3>2
  <2> HIDE DEF n, of
  <2>2. n \in DOMAIN catalog /\ NamesEntity(catalog[n], e)
    BY <1>3, <2>1
  <2>3. \A m \in DOMAIN catalog : NamesEntity(catalog[m], e) => m <= n
    BY <1>3, <2>1
  <2>4. d[e] = NamedEntity(catalog[n]).type
    BY <2>2, <2>3, DefinitionsAre
  <2>5. First(catalog[n]) = NamedEntity(catalog[n])
    BY <1>0, <2>2, ListsRead DEF NamesEntity, Whole
  <2> QED
    BY <2>4, <2>5 DEF n
<1>5. DOMAIN d = {e \in EntityKeys : of(e) # {}}
  <2>1. ASSUME NEW e \in EntityKeys PROVE e \in DOMAIN d <=> of(e) # {}
    <3>1. e \in DOMAIN d <=> \E n \in DOMAIN catalog : NamesEntity(catalog[n], e)
      BY DefinitionsAre
    <3> HIDE DEF d, of
    <3> QED
      BY <1>3, <3>1
  <2> HIDE DEF d, of
  <2> QED
    BY <1>2, <2>1
<1>6. TypesInLists = [e \in {e \in EntityKeys : of(e) # {}} |->
                        First(catalog[CHOOSE n \in of(e) : \A m \in of(e) : m <= n]).type]
  BY DEF TypesInLists
<1> HIDE DEF d, of
<1> QED
  BY <1>2, <1>4, <1>5, <1>6 DEF d

-----------------------------------------------------------------------------
(* The requests, and what a rebuild that is alone has come to. *)
RebuildSteps == {"items", "previous", "clear", "delete", "entities", "assignments", "graphs"}
Rebuilds ==
    [step : RebuildSteps, alone : BOOLEAN, defs : Defs, todo : UniqueRows, refs : SUBSET Wallets]
SeedRuns == [step : {"seeds"}, at : Nat \ {0}, changed : BOOLEAN, saw : Seq(AnyList)]
HasWork(r) ==
    /\ r.step = "entities" => r.defs # NoEntities
    /\ r.step = "assignments" => r.todo # <<>>
CuratedRequests == {Idle} \cup SeedRuns \cup {r \in Rebuilds : HasWork(r)}

(* Graphs are kept by wallet; what a reader has in hand is of one. *)
IsRead(r) ==
    r = [wallet |-> r.wallet, hops |-> r.hops, graph |-> r.graph, loaded |-> r.loaded, late |-> r.late]
CachedTypes ==
    /\ cached = [e \in Wallets \X Hops |-> cached[e]] /\ snapped = [w \in Wallets |-> snapped[w]]
    /\ reader = [g \in Readers |-> reader[g]]
    /\ \A g \in Readers : /\ IsRead(reader[g])
                          /\ reader[g] # NoRead => reader[g].wallet \in Wallets /\ reader[g].hops \in Hops
    /\ overtaken \subseteq Wallets

CuratedTypes ==
    /\ catalog \in Seq(AnyList) /\ born \in Nat
    /\ \A n \in DOMAIN catalog : catalog[n].id <= born
    /\ assigned \in [Wallets -> EntityKeys \cup {NoKey, Heuristic}]
    /\ entities \in Defs
    /\ CachedTypes
    /\ request \in [Writers -> CuratedRequests]
    /\ changes \in Nat /\ auditLog \in Nat /\ failed \in Nat
    /\ hinting \subseteq Wallets /\ trusted \in BOOLEAN /\ everMet \in BOOLEAN

(* A rebuild is alone until another change or rebuild; the tables are trusted only then. *)
AloneIsSo == \A a \in Writers :
    Rebuilding(a) /\ request[a].alone => \A b \in Writers \ {a} : ~Rebuilding(b)
MetIsSo == ~everMet => \A a \in Writers : Rebuilding(a) => request[a].alone

(* What entities hold once the definitions left are written, and what the wallets with a
   curated entity are once the rows left are. *)
Joined(stored, defs) ==
    [k \in DOMAIN stored \cup DOMAIN defs |-> IF k \in DOMAIN defs THEN defs[k] ELSE stored[k]]
RowsLeft(todo) ==
    \A w \in Wallets :
        /\ KeyIn(todo, w) \in {NoKey, KeyOf1(catalog, w)}
        /\ (IF Curated(w) THEN assigned[w] ELSE KeyIn(todo, w)) = KeyOf1(catalog, w)

AloneCame(a) ==
    /\ request[a].step \in {"previous", "clear", "delete"}
          => request[a].defs = Definitions(catalog) /\ request[a].todo = Assignments(catalog)
    /\ request[a].step \notin {"items", "previous"}
          => \A w \in Wallets : Curated(w) => w \in request[a].refs
    /\ request[a].step = "delete" => \A w \in Wallets : ~Curated(w)
    /\ request[a].step = "entities" => Joined(entities, request[a].defs) = Definitions(catalog)
    /\ request[a].step \in {"assignments", "graphs"} => entities = Definitions(catalog)
    /\ request[a].step \in {"entities", "assignments"} => RowsLeft(request[a].todo)
    /\ request[a].step = "graphs" => RowsLeft(<<>>)
RebuildsCome == \A a \in Writers : Rebuilding(a) /\ request[a].alone => AloneCame(a)

TrustIsSo ==
    trusted => /\ \A a \in Writers : ~Rebuilding(a)
               /\ entities = Definitions(catalog) /\ RowsLeft(<<>>)

(* A graph is as the tables are, and so is what the readers have in hand that no drop has
   overtaken; or it will be dropped, without failures and meetings. *)
ShownRight(w) ==
    /\ cached[<<w, 1>>] \in {NoGraph, Shows(w)} /\ snapped[w] \in {NoGraph, Shows(w)}
    /\ \A g \in Readers : reader[g] # NoRead /\ reader[g].wallet = w /\ ~reader[g].late
          => reader[g].graph \in {NoGraph, Shows(w)}
ShownOrDropped(w) ==
    \/ ShownRight(w)
    \/ \E b \in Writers : /\ Rebuilding(b) /\ request[b].step \notin {"items", "previous"}
                           /\ w \in request[b].refs
GraphsFollow ==
    failed = 0 /\ ~everMet => \A w \in Wallets \ (hinting \cup overtaken) : ShownOrDropped(w)

RebuildingAdmins == Admins \cap {a \in Writers : Rebuilding(a)}
ChangesCount == changes <= auditLog + failed + Cardinality(RebuildingAdmins)

CuratedInv ==
    CuratedTypes /\ AloneIsSo /\ MetIsSo /\ RebuildsCome /\ TrustIsSo /\ GraphsFollow /\ ChangesCount

(* Who rebuilds has a rebuild's request. *)
LEMMA RequestIs ==
    ASSUME NEW r \in CuratedRequests
    PROVE  /\ r.step \notin {"idle", "seeds"} <=> r \in Rebuilds
           /\ r \in Rebuilds => HasWork(r)
           /\ r.step = "idle" <=> r = Idle
           /\ r.step = "seeds" <=> r \in SeedRuns
<1>1. Idle.step = "idle"
  BY DEF Idle
<1>2. \A s \in SeedRuns : s.step = "seeds"
  BY DEF SeedRuns
<1>3. \A s \in Rebuilds : s.step \in RebuildSteps
  BY DEF Rebuilds
<1>4. \A s \in RebuildSteps : s # "idle" /\ s # "seeds"
  BY DEF RebuildSteps
<1> QED
  BY <1>1, <1>2, <1>3, <1>4 DEF CuratedRequests

(* The steps of a rebuild set fields of its request. *)
LEMMA RebuildSet ==
    ASSUME NEW r \in Rebuilds, NEW s \in RebuildSteps, NEW d \in Defs, NEW t \in UniqueRows,
           NEW f \in SUBSET Wallets
    PROVE  /\ [r EXCEPT !.alone = FALSE] \in Rebuilds
           /\ [r EXCEPT !.alone = FALSE] =
                  [step |-> r.step, alone |-> FALSE, defs |-> r.defs, todo |-> r.todo, refs |-> r.refs]
           /\ [r EXCEPT !.step = s] =
                  [step |-> s, alone |-> r.alone, defs |-> r.defs, todo |-> r.todo, refs |-> r.refs]
           /\ [r EXCEPT !.step = s, !.defs = d, !.todo = t] =
                  [step |-> s, alone |-> r.alone, defs |-> d, todo |-> t, refs |-> r.refs]
           /\ [r EXCEPT !.step = s, !.refs = f] =
                  [step |-> s, alone |-> r.alone, defs |-> r.defs, todo |-> r.todo, refs |-> f]
           /\ [r EXCEPT !.defs = d] =
                  [step |-> r.step, alone |-> r.alone, defs |-> d, todo |-> r.todo, refs |-> r.refs]
           /\ [r EXCEPT !.todo = t, !.refs = f] =
                  [step |-> r.step, alone |-> r.alone, defs |-> r.defs, todo |-> t, refs |-> f]
           /\ [step |-> s, alone |-> r.alone, defs |-> d, todo |-> t, refs |-> f] \in Rebuilds
<1>1. r = [step |-> r.step, alone |-> r.alone, defs |-> r.defs, todo |-> r.todo, refs |-> r.refs]
  BY DEF Rebuilds
<1>2. /\ r.step \in RebuildSteps /\ r.alone \in BOOLEAN /\ r.defs \in Defs /\ r.todo \in UniqueRows
      /\ r.refs \in SUBSET Wallets
  BY DEF Rebuilds
<1>3. [r EXCEPT !.alone = FALSE] =
          [step |-> r.step, alone |-> FALSE, defs |-> r.defs, todo |-> r.todo, refs |-> r.refs]
  <2>1. \A b : [r EXCEPT !.alone = b] =
          [step |-> r.step, alone |-> b, defs |-> r.defs, todo |-> r.todo, refs |-> r.refs]
    BY <1>1
  <2> QED
    BY <2>1, Zenon
<1>4. [r EXCEPT !.step = s] =
                  [step |-> s, alone |-> r.alone, defs |-> r.defs, todo |-> r.todo, refs |-> r.refs]
  BY <1>1
<1>5. [r EXCEPT !.step = s, !.defs = d, !.todo = t] =
                  [step |-> s, alone |-> r.alone, defs |-> d, todo |-> t, refs |-> r.refs]
  <2> DEFINE r1 == [r EXCEPT !.step = s]
             r2 == [r1 EXCEPT !.defs = d]
  <2>1. [r EXCEPT !.step = s, !.defs = d, !.todo = t] = [r2 EXCEPT !.todo = t]
    OBVIOUS
  <2>2. r1 = [step |-> s, alone |-> r.alone, defs |-> r.defs, todo |-> r.todo, refs |-> r.refs]
    BY <1>1
  <2> HIDE DEF r1
  <2>3. r2 = [step |-> s, alone |-> r.alone, defs |-> d, todo |-> r.todo, refs |-> r.refs]
    BY <2>2
  <2> HIDE DEF r2
  <2>4. [r2 EXCEPT !.todo = t] = [step |-> s, alone |-> r.alone, defs |-> d, todo |-> t, refs |-> r.refs]
    BY <2>3
  <2> QED
    BY <2>1, <2>4
<1>6. [r EXCEPT !.step = s, !.refs = f] =
                  [step |-> s, alone |-> r.alone, defs |-> r.defs, todo |-> r.todo, refs |-> f]
  <2> DEFINE r1 == [r EXCEPT !.step = s]
  <2>1. [r EXCEPT !.step = s, !.refs = f] = [r1 EXCEPT !.refs = f]
    OBVIOUS
  <2> HIDE DEF r1
  <2>2. r1 = [step |-> s, alone |-> r.alone, defs |-> r.defs, todo |-> r.todo, refs |-> r.refs]
    BY <1>4 DEF r1
  <2>3. [r1 EXCEPT !.refs = f] = [step |-> s, alone |-> r.alone, defs |-> r.defs, todo |-> r.todo, refs |-> f]
    BY <2>2
  <2> QED
    BY <2>1, <2>3
<1>7. [r EXCEPT !.defs = d] =
                  [step |-> r.step, alone |-> r.alone, defs |-> d, todo |-> r.todo, refs |-> r.refs]
  BY <1>1
<1>8. [r EXCEPT !.todo = t, !.refs = f] =
                  [step |-> r.step, alone |-> r.alone, defs |-> r.defs, todo |-> t, refs |-> f]
  <2> DEFINE r1 == [r EXCEPT !.todo = t]
  <2>1. [r EXCEPT !.todo = t, !.refs = f] = [r1 EXCEPT !.refs = f]
    OBVIOUS
  <2>2. r1 = [step |-> r.step, alone |-> r.alone, defs |-> r.defs, todo |-> t, refs |-> r.refs]
    BY <1>1
  <2> HIDE DEF r1
  <2>3. [r1 EXCEPT !.refs = f] = [step |-> r.step, alone |-> r.alone, defs |-> r.defs, todo |-> t, refs |-> f]
    BY <2>2
  <2> QED
    BY <2>1, <2>3
<1>9. /\ [step |-> s, alone |-> r.alone, defs |-> d, todo |-> t, refs |-> f] \in Rebuilds
      /\ [step |-> r.step, alone |-> FALSE, defs |-> r.defs, todo |-> r.todo, refs |-> r.refs] \in Rebuilds
  BY <1>2 DEF Rebuilds
<1> QED
  BY <1>3, <1>4, <1>5, <1>6, <1>7, <1>8, <1>9

(* Where a rebuild goes next, its loops being left when nothing is left. *)
LEMMA ThenGoes ==
    ASSUME NEW r \in Rebuilds
    PROVE  /\ Then(r) \in CuratedRequests /\ Then(r) \in Rebuilds
           /\ Then(r).alone = r.alone /\ Then(r).defs = r.defs
           /\ Then(r).todo = r.todo /\ Then(r).refs = r.refs
           /\ r.step = "entities" /\ r.defs # NoEntities => Then(r).step = "entities"
           /\ r.step = "entities" /\ r.defs = NoEntities /\ r.todo # <<>> => Then(r).step = "assignments"
           /\ r.step = "entities" /\ r.defs = NoEntities /\ r.todo = <<>> => Then(r).step = "graphs"
           /\ r.step = "assignments" /\ r.todo # <<>> => Then(r).step = "assignments"
           /\ r.step = "assignments" /\ r.todo = <<>> => Then(r).step = "graphs"
<1> DEFINE With(s) == [step |-> s, alone |-> r.alone, defs |-> r.defs, todo |-> r.todo, refs |-> r.refs]
<1>1. /\ r.step \in RebuildSteps /\ r.defs \in Defs /\ r.todo \in UniqueRows /\ r.refs \in SUBSET Wallets
      /\ "graphs" \in RebuildSteps /\ "assignments" \in RebuildSteps
  BY DEF Rebuilds, RebuildSteps
<1>2. r = With(r.step)
  BY DEF Rebuilds
<1>3. \A s \in RebuildSteps :
         /\ [r EXCEPT !.step = s] = With(s) /\ With(s) \in Rebuilds
         /\ With(s).step = s /\ With(s).alone = r.alone /\ With(s).defs = r.defs
         /\ With(s).todo = r.todo /\ With(s).refs = r.refs
  BY <1>1, RebuildSet
<1> HIDE DEF With
<1>4. Then(r) = With(IF r.step = "entities" /\ r.defs = NoEntities
                     THEN IF r.todo = <<>> THEN "graphs" ELSE "assignments"
                     ELSE IF r.step = "assignments" /\ r.todo = <<>> THEN "graphs" ELSE r.step)
  BY <1>1, <1>2, <1>3 DEF Then
<1>5. HasWork(Then(r)) /\ Then(r) \in Rebuilds
  BY <1>1, <1>3, <1>4 DEF HasWork
<1> QED
  BY <1>1, <1>3, <1>4, <1>5 DEF CuratedRequests

-----------------------------------------------------------------------------
(* What the steps do, summed up.  A request that changes the lists or begins a rebuild
   disturbs the others; one that reads, passes on or ends without a rebuild does not. *)
OthersUntouched(a) == \A b \in Writers \ {a} : request'[b] = request[b]

Disturbed(a) ==
    /\ ~Rebuilding(a) /\ request' \in [Writers -> CuratedRequests]
    /\ request'[a].step = "seeds" \/ request'[a] = Rebuild(a)
    /\ \A b \in Writers \ {a} :
          request'[b] = IF Rebuilding(b) THEN [request[b] EXCEPT !.alone = FALSE] ELSE request[b]
    /\ trusted' = FALSE /\ everMet' = (everMet \/ \E b \in Writers \ {a} : Rebuilding(b))
    /\ catalog' \in Seq(AnyList) /\ born' \in Nat /\ \A n \in DOMAIN catalog' : catalog'[n].id <= born'
    /\ \/ changes' = changes
       \/ changes' = changes + 1 /\ a \in Admins /\ request'[a] = Rebuild(a)
    /\ UNCHANGED <<index, auditLog, failed, hinting>>

Waited(a) ==
    /\ ~Rebuilding(a) /\ request' \in [Writers -> CuratedRequests]
    /\ request'[a].step \in {"idle", "seeds"} /\ OthersUntouched(a)
    /\ UNCHANGED <<catalog, born, index, changes, auditLog, failed, hinting, ghosts>>

(* A statement of a rebuild, before the last. *)
KeepsReading(a) ==
    \/ /\ request[a].step = "items" /\ request'[a].step = "previous"
       /\ request'[a].defs = Definitions(catalog) /\ request'[a].todo = Assignments(catalog)
    \/ /\ request[a].step = "previous" /\ request'[a].step = "clear"
       /\ request'[a].defs = request[a].defs /\ request'[a].todo = request[a].todo
       /\ request'[a].refs = {w \in Wallets : Curated(w)}
Clears(a) ==
    /\ request[a].step = "clear" /\ request'[a].step = "delete"
    /\ request'[a].defs = request[a].defs /\ request'[a].todo = request[a].todo
    /\ request'[a].refs = request[a].refs
    /\ \A w \in Wallets : assigned'[w] = IF Curated(w) THEN NoKey ELSE assigned[w]
GoesOn(a) ==
    /\ request'[a].step \in {"entities", "assignments", "graphs"}
    /\ request'[a].step # "entities" => request'[a].defs = NoEntities
    /\ request'[a].step = "graphs" => request'[a].todo = <<>>
DeletesAll(a) ==
    /\ request[a].step = "delete" /\ entities' = NoEntities
    /\ request'[a].defs = request[a].defs /\ request'[a].todo = request[a].todo
    /\ request'[a].refs = request[a].refs /\ GoesOn(a)
WritesEntity(a) ==
    \E k \in DOMAIN request[a].defs :
        /\ request[a].step = "entities"
        /\ entities' = [j \in DOMAIN entities \cup {k} |->
                            IF j = k THEN request[a].defs[k] ELSE entities[j]]
        /\ request'[a].defs = Restrict(request[a].defs, DOMAIN request[a].defs \ {k})
        /\ request'[a].todo = request[a].todo /\ request'[a].refs = request[a].refs /\ GoesOn(a)
WritesAssignment(a) ==
    /\ request[a].step = "assignments" /\ request[a].todo # <<>>
    /\ LET it == Head(request[a].todo) IN
          /\ assigned' = [assigned EXCEPT ![it.wallet] = it.key]
          /\ request'[a].refs = request[a].refs \cup {it.wallet}
    /\ request'[a].defs = request[a].defs /\ request'[a].todo = Tail(request[a].todo)
    /\ request'[a].step \in {"assignments", "graphs"}
    /\ request'[a].step = "graphs" => request'[a].todo = <<>>

Worked(a) ==
    /\ Rebuilding(a) /\ request' \in [Writers -> CuratedRequests] /\ OthersUntouched(a)
    /\ request'[a] \in Rebuilds /\ request'[a].alone = request[a].alone
    /\ \/ KeepsReading(a) /\ UNCHANGED <<assigned, entities>>
       \/ Clears(a) /\ UNCHANGED entities
       \/ (DeletesAll(a) \/ WritesEntity(a)) /\ UNCHANGED assigned
       \/ WritesAssignment(a) /\ UNCHANGED entities
    /\ assigned' \in [Wallets -> EntityKeys \cup {NoKey, Heuristic}] /\ entities' \in Defs
    /\ UNCHANGED <<catalog, born, graphs, counts, hinting, ghosts>>

RebuildEnded(a) ==
    /\ Rebuilding(a) /\ request'[a] = Idle /\ OthersUntouched(a) /\ request' \in [Writers -> CuratedRequests]
    /\ request[a].step = "graphs"
    /\ Drop(request[a].refs)
    /\ trusted' = request[a].alone /\ UNCHANGED everMet
    /\ auditLog' = (IF a \in Admins THEN auditLog + 1 ELSE auditLog)
    /\ UNCHANGED <<catalog, born, assigned, entities, changes, failed, hinting>>

Stopped(a) ==
    /\ request'[a] = Idle /\ OthersUntouched(a) /\ request' \in [Writers -> CuratedRequests]
    /\ failed' = failed + 1
    /\ UNCHANGED <<catalog, born, index, changes, auditLog, hinting, ghosts>>

(* The heuristics, and the steps that change nothing but graphs. *)
GraphStep ==
    \/ \E w \in Wallets : HintInvalidates(w)
    \/ \E g \in Readers : StoreGraph(g) \/ \E w \in Wallets, h \in Hops : ReadGraph(g, w, h)
Besides == (\E w \in Wallets : Hint(w)) \/ GraphStep

CuratedMoves ==
    \/ \E a \in Writers : Disturbed(a) \/ Waited(a) \/ Worked(a) \/ RebuildEnded(a) \/ Stopped(a)
    \/ Besides
    \/ UNCHANGED curatedVars

(* The requests there may be at first, and a request among the others. *)
LEMMA IdleTyped == Idle \in CuratedRequests /\ Idle.step = "idle"
BY DEF Idle, CuratedRequests

(* A rebuild begins with a request that is one, and alone if nobody else rebuilds. *)
LEMMA RebuildTyped ==
    ASSUME NEW a \in Writers
    PROVE  Rebuild(a) \in Rebuilds /\ Rebuild(a) \in CuratedRequests /\ Rebuild(a).step = "items"
           /\ Rebuild(a).alone = (\A b \in Writers \ {a} : ~Rebuilding(b))
<1> DEFINE p == \A b \in Writers \ {a} : ~Rebuilding(b)
<1>1. Rebuild(a) = [step |-> "items", alone |-> p, defs |-> NoEntities, todo |-> <<>>, refs |-> {}]
  BY DEF Rebuild
<1>2. p \in BOOLEAN
  OBVIOUS
<1> HIDE DEF p
<1>3. "items" \in RebuildSteps /\ {} \in SUBSET Wallets
  BY DEF RebuildSteps
<1>4. Rebuild(a) \in Rebuilds
  BY <1>1, <1>2, <1>3, NoEntitiesTyped, NoRows DEF Rebuilds
<1>5. Rebuild(a).step = "items" /\ Rebuild(a).alone = p
  BY <1>1
<1>6. Rebuild(a) \in CuratedRequests
  BY <1>4, <1>5 DEF CuratedRequests, HasWork
<1> QED
  BY <1>4, <1>5, <1>6 DEF p

(* A request that goes on leaves the others. *)
LEMMA TurnsSets ==
    ASSUME CuratedTypes, NEW a \in Writers, NEW r \in CuratedRequests, Turns(a, r)
    PROVE  request' \in [Writers -> CuratedRequests] /\ request'[a] = r /\ OthersUntouched(a)
BY DEF CuratedTypes, Turns, OthersUntouched

(* A request that disturbs takes from the rebuilds under way that they are alone. *)
LEMMA DisturbingSets ==
    ASSUME CuratedTypes, NEW a \in Writers, NEW r \in CuratedRequests, Disturbing(a, r)
    PROVE  /\ request' \in [Writers -> CuratedRequests] /\ request'[a] = r
           /\ \A b \in Writers \ {a} :
                request'[b] = IF Rebuilding(b) THEN [request[b] EXCEPT !.alone = FALSE] ELSE request[b]
           /\ trusted' = FALSE /\ everMet' = (everMet \/ \E b \in Writers \ {a} : Rebuilding(b))
<1>1. request' = [b \in Writers |-> IF b = a THEN r
                                    ELSE IF Rebuilding(b) THEN [request[b] EXCEPT !.alone = FALSE]
                                    ELSE request[b]]
  BY DEF Disturbing
<1>2. ASSUME NEW b \in Writers, Rebuilding(b)
      PROVE  [request[b] EXCEPT !.alone = FALSE] \in CuratedRequests
  <2>1. request[b] \in Rebuilds /\ HasWork(request[b])
    BY <1>2, RequestIs DEF CuratedTypes, Rebuilding
  <2> DEFINE r1 == request[b]
             q == [step |-> r1.step, alone |-> FALSE, defs |-> r1.defs, todo |-> r1.todo, refs |-> r1.refs]
  <2>2. r1.step \in RebuildSteps /\ r1.defs \in Defs /\ r1.todo \in UniqueRows /\ r1.refs \in SUBSET Wallets
    BY <2>1 DEF Rebuilds
  <2>3. [r1 EXCEPT !.alone = FALSE] = q /\ [r1 EXCEPT !.alone = FALSE] \in Rebuilds
    BY <2>1, <2>2, RebuildSet
  <2>4. q.step = r1.step /\ q.defs = r1.defs /\ q.todo = r1.todo
    OBVIOUS
  <2> HIDE DEF q
  <2>5. HasWork(q)
    BY <2>1, <2>4 DEF HasWork
  <2> QED
    BY <2>3, <2>5 DEF CuratedRequests
<1>3. \A b \in Writers : request[b] \in CuratedRequests
  BY DEF CuratedTypes
<1>4. request' \in [Writers -> CuratedRequests]
  BY <1>1, <1>2, <1>3
<1> QED
  BY <1>1, <1>4 DEF Disturbing

(* The lists stay lists. *)
Numbered(ls, b) == ls \in Seq(AnyList) /\ b \in Nat /\ \A n \in DOMAIN ls : ls[n].id <= b

(* A sequence with an element in front. *)
LEMMA OneInFront ==
    ASSUME NEW X, NEW x \in X, NEW s \in Seq(X)
    PROVE  /\ <<x>> \o s \in Seq(X) /\ Len(<<x>> \o s) = 1 + Len(s) /\ (<<x>> \o s)[1] = x
           /\ \A k \in 2..(1 + Len(s)) : (<<x>> \o s)[k] = s[k - 1]
OBVIOUS

(* A list created has a number of its own. *)
LEMMA CreateListTyped ==
    ASSUME born \in Nat, NEW ls \in Seq(AnyList), NEW c \in Categories
    PROVE  /\ CreateList(ls, c) \in Seq(AnyList)
           /\ Numbered(ls, born) => Numbered(CreateList(ls, c), born + 1)
<1> DEFINE l == [id |-> born + 1, category |-> c, items |-> <<>>]
           more == <<l>> \o ls
<1>1. <<>> \in Seq(AnyItem) /\ born + 1 \in Nat \ {0} /\ born + 1 \in Nat
  OBVIOUS
<1>2. l \in AnyList
  BY <1>1 DEF AnyList
<1>3. CreateList(ls, c) = more
  BY DEF CreateList
<1>4. l.id = born + 1
  OBVIOUS
<1> HIDE DEF l
<1>5. /\ more \in Seq(AnyList) /\ Len(more) = 1 + Len(ls) /\ more[1] = l
      /\ \A k \in 2..(1 + Len(ls)) : more[k] = ls[k - 1]
  BY <1>2, OneInFront
<1> HIDE DEF more
<1>6. ASSUME NEW n \in DOMAIN more, Numbered(ls, born) PROVE more[n].id <= born + 1
  <2>1. n \in 1..(1 + Len(ls)) /\ Len(ls) \in Nat /\ DOMAIN ls = 1..Len(ls)
    BY <1>5
  <2>2. CASE n = 1
    BY <1>1, <1>4, <1>5, <2>2
  <2>3. CASE n # 1
    <3>1. n - 1 \in DOMAIN ls /\ n \in 2..(1 + Len(ls))
      BY <2>1, <2>3
    <3>2. more[n] = ls[n - 1]
      BY <1>5, <3>1
    <3>3. ls[n - 1].id <= born /\ ls[n - 1] \in AnyList
      BY <1>6, <3>1 DEF Numbered
    <3>4. ls[n - 1].id \in Nat
      BY <3>3 DEF AnyList
    <3> QED
      BY <3>2, <3>3, <3>4
  <2> QED
    BY <2>2, <2>3
<1> QED
  BY <1>1, <1>3, <1>5, <1>6 DEF Numbered

(* A list with its items set anew is a list of the same number. *)
LEMMA ItemsSet ==
    ASSUME NEW ls \in Seq(AnyList), NEW n \in DOMAIN ls, NEW s \in Seq(AnyItem)
    PROVE  /\ [ls EXCEPT ![n].items = s] \in Seq(AnyList)
           /\ \A b : Numbered(ls, b) => Numbered([ls EXCEPT ![n].items = s], b)
<1> DEFINE l == [ls[n] EXCEPT !.items = s]
           m == [ls EXCEPT ![n] = l]
<1>1. ls[n] \in AnyList
  OBVIOUS
<1>2. l \in AnyList /\ l.id = ls[n].id
  BY <1>1 DEF AnyList
<1>3. [ls EXCEPT ![n].items = s] = m
  OBVIOUS
<1> HIDE DEF l
<1>4. m \in Seq(AnyList) /\ DOMAIN m = DOMAIN ls /\ \A k \in DOMAIN m : m[k] = IF k = n THEN l ELSE ls[k]
  BY <1>2
<1> HIDE DEF m
<1> QED
  BY <1>2, <1>3, <1>4 DEF Numbered

(* An element less of a sequence. *)
LEMMA RemovedTyped ==
    ASSUME NEW S, NEW s \in Seq(S), NEW n \in DOMAIN s
    PROVE  /\ RemoveAt(s, n) \in Seq(S)
           /\ \A k \in DOMAIN RemoveAt(s, n) : \E j \in DOMAIN s : RemoveAt(s, n)[k] = s[j]
<1> DEFINE p == SubSeq(s, 1, n - 1)
           q == SubSeq(s, n + 1, Len(s))
<1>1. n \in 1..Len(s) /\ Len(s) \in Nat
  OBVIOUS
<1>2. /\ p \in Seq(S) /\ Len(p) = n - 1 /\ \A k \in 1..(n - 1) : p[k] = s[k]
  BY <1>1
<1>3. /\ q \in Seq(S) /\ Len(q) = Len(s) - n /\ \A k \in 1..(Len(s) - n) : q[k] = s[n + k]
  BY <1>1
<1>4. RemoveAt(s, n) = p \o q
  BY DEF RemoveAt
<1> HIDE DEF p, q
<1>5. p \o q \in Seq(S) /\ Len(p \o q) = Len(s) - 1
  BY <1>1, <1>2, <1>3
<1>6. ASSUME NEW k \in DOMAIN (p \o q) PROVE \E j \in DOMAIN s : (p \o q)[k] = s[j]
  <2>1. k \in 1..(Len(s) - 1)
    BY <1>5
  <2>2. CASE k <= n - 1
    <3>1. (p \o q)[k] = p[k] /\ k \in 1..(n - 1)
      BY <1>1, <1>2, <1>3, <2>1, <2>2
    <3>2. k \in DOMAIN s
      BY <1>1, <2>1
    <3> QED
      BY <1>2, <3>1, <3>2
  <2>3. CASE k > n - 1
    <3>1. (p \o q)[k] = q[k - (n - 1)] /\ k - (n - 1) \in 1..(Len(s) - n)
      BY <1>1, <1>2, <1>3, <2>1, <2>3
    <3>2. n + (k - (n - 1)) \in DOMAIN s
      BY <1>1, <3>1
    <3> QED
      BY <1>3, <3>1, <3>2
  <2> QED
    BY <1>1, <2>1, <2>2, <2>3
<1> QED
  BY <1>4, <1>5, <1>6

(* Items and lists that a request may add. *)
LEMMA SeedRunSet ==
    ASSUME NEW r \in SeedRuns, NEW s \in Seq(AnyList)
    PROVE  /\ [r EXCEPT !.changed = TRUE, !.saw = s] \in SeedRuns
           /\ [r EXCEPT !.at = @ + 1] \in SeedRuns
           /\ [r EXCEPT !.at = @ + 1, !.changed = TRUE, !.saw = s] \in SeedRuns
<1>1. /\ r.at + 1 \in Nat \ {0}
  BY DEF SeedRuns
<1>2. \A b \in BOOLEAN : /\ [r EXCEPT !.changed = b, !.saw = s] \in SeedRuns
                         /\ [r EXCEPT !.at = r.at + 1, !.changed = b, !.saw = s] \in SeedRuns
  BY <1>1 DEF SeedRuns
<1>3. [r EXCEPT !.at = @ + 1] \in SeedRuns
  BY <1>1 DEF SeedRuns
<1>4. TRUE \in BOOLEAN
  OBVIOUS
<1> QED
  BY <1>2, <1>3, <1>4, Zenon

(* A seed is a category and a wallet. *)
LEMMA SeedTyped ==
    ASSUME NEW n \in DOMAIN Seeds
    PROVE  Seeds[n].category \in Categories /\ WalletItem(Seeds[n].wallet) \in AnyItem
<1>1. Seeds[n].category \in Categories
  BY DEF Categories
<1>2. WalletItem(Seeds[n].wallet) \in AnyItem
  BY DEF AnyItem
<1> QED
  BY <1>1, <1>2

(* The item an import adds goes to the list it saw, if that is still there. *)
LEMMA AddItemTyped ==
    ASSUME NEW ls \in Seq(AnyList), NEW n \in DOMAIN ls, NEW i \in AnyItem
    PROVE  AddItem(ls, n, i) \in Seq(AnyList) /\ \A b : Numbered(ls, b) => Numbered(AddItem(ls, n, i), b)
<1>1. ls[n] \in AnyList
  OBVIOUS
<1>2. ls[n].items \in Seq(AnyItem)
  BY <1>1 DEF AnyList
<1>3. Append(ls[n].items, i) \in Seq(AnyItem)
  BY <1>2
<1>4. AddItem(ls, n, i) = [ls EXCEPT ![n].items = Append(ls[n].items, i)]
  BY DEF AddItem
<1> DEFINE more == Append(ls[n].items, i)
<1> HIDE DEF more
<1>5. more \in Seq(AnyItem) /\ AddItem(ls, n, i) = [ls EXCEPT ![n].items = more]
  BY <1>3, <1>4 DEF more
<1> DEFINE ms == [ls EXCEPT ![n].items = more]
<1>6. ms \in Seq(AnyList) /\ \A b : Numbered(ls, b) => Numbered(ms, b)
  BY ONLY <1>5, ls \in Seq(AnyList), n \in DOMAIN ls, ItemsSet
<1>7. AddItem(ls, n, i) = ms
  BY <1>5
<1> HIDE DEF ms
<1> QED
  BY <1>6, <1>7

(* The list the import finds for a category is one of those it read. *)
LEMMA CategoryFound ==
    ASSUME NEW ls \in Seq(AnyList), NEW c, ListOf(ls, c) # 0
    PROVE  ListOf(ls, c) \in DOMAIN ls
<1> DEFINE of == {n \in DOMAIN ls : ls[n].category = c}
<1>1. of # {} /\ ListOf(ls, c) = CHOOSE n \in of : \A m \in of : m <= n
  BY DEF ListOf
<1>2. of \in SUBSET Nat /\ Len(ls) \in Nat /\ \A n \in of : n <= Len(ls)
  OBVIOUS
<1>3. Max(of) \in of /\ \A m \in of : m <= Max(of)
  <2> HIDE DEF of
  <2> QED
    BY <1>1, <1>2, LargestNumber
<1>4. ListOf(ls, c) \in of
  <2> HIDE DEF of
  <2> QED
    BY <1>1, <1>3
<1> QED
  BY <1>4

(* An admin's change disturbs. *)
LEMMA ChangeListsDisturbs ==
    ASSUME CuratedTypes, NEW a \in Admins, ChangeLists(a)
    PROVE  Disturbed(a)
<1>0. a \in Writers /\ request[a] \in CuratedRequests
  BY DEF CuratedTypes, Writers
<1>1. Numbered(catalog, born)
  BY DEF CuratedTypes, Numbered
<1>2. /\ request' \in [Writers -> CuratedRequests] /\ request'[a] = Rebuild(a)
      /\ \A b \in Writers \ {a} :
            request'[b] = IF Rebuilding(b) THEN [request[b] EXCEPT !.alone = FALSE] ELSE request[b]
      /\ trusted' = FALSE /\ everMet' = (everMet \/ \E b \in Writers \ {a} : Rebuilding(b))
  <2>1. Disturbing(a, Rebuild(a))
    BY DEF ChangeLists
  <2> QED
    BY <1>0, <2>1, RebuildTyped, DisturbingSets
<1>3. ~Rebuilding(a)
  BY DEF ChangeLists, Busy, Rebuilding
<1>4. Numbered(catalog', born')
  <2>1. CASE catalog' = CreateList(catalog, NoCategory) /\ born' = born + 1
    <3>1. NoCategory \in Categories
      BY DEF Categories
    <3> QED
      BY <1>1, <2>1, <3>1, CreateListTyped DEF Numbered
  <2>2. CASE \E n \in DOMAIN catalog : catalog' = DeleteList(catalog, n) /\ UNCHANGED born
    <3>1. PICK n \in DOMAIN catalog : catalog' = RemoveAt(catalog, n) /\ born' = born
      BY <2>2 DEF DeleteList
    <3>2. catalog \in Seq(AnyList)
      BY <1>1 DEF Numbered
    <3> DEFINE less == RemoveAt(catalog, n)
    <3>3. less \in Seq(AnyList) /\ \A k \in DOMAIN less : \E j \in DOMAIN catalog : less[k] = catalog[j]
      BY <3>1, <3>2, RemovedTyped
    <3> HIDE DEF less
    <3>4. Numbered(less, born)
      BY <1>1, <3>3 DEF Numbered
    <3> QED
      BY <3>1, <3>4 DEF less
  <2>3. CASE \E n \in DOMAIN catalog, i \in CuratedItems : catalog' = AddItem(catalog, n, i) /\ UNCHANGED born
    <3>1. PICK n \in DOMAIN catalog, i \in CuratedItems : catalog' = AddItem(catalog, n, i) /\ born' = born
      BY <2>3
    <3>2. catalog \in Seq(AnyList)
      BY <1>1 DEF Numbered
    <3>3. i \in AnyItem
      BY DEF AnyItem
    <3>4. Numbered(AddItem(catalog, n, i), born)
      BY <1>1, <3>1, <3>2, <3>3, AddItemTyped
    <3> QED
      BY <3>1, <3>4
  <2>4. CASE \E n \in DOMAIN catalog : \E i \in DOMAIN catalog[n].items :
                catalog' = DeleteItem(catalog, n, i) /\ UNCHANGED born
    <3>1. PICK n \in DOMAIN catalog : \E i \in DOMAIN catalog[n].items :
                 catalog' = DeleteItem(catalog, n, i) /\ UNCHANGED born
      BY <2>4
    <3>2. PICK i \in DOMAIN catalog[n].items : catalog' = DeleteItem(catalog, n, i) /\ born' = born
      BY <3>1
    <3>3. catalog \in Seq(AnyList)
      BY <1>1 DEF Numbered
    <3>4. catalog[n].items \in Seq(AnyItem)
      <4>1. catalog[n] \in AnyList
        BY <3>3
      <4> QED
        BY <4>1 DEF AnyList
    <3> DEFINE less == RemoveAt(catalog[n].items, i)
    <3>5. less \in Seq(AnyItem)
      BY <3>2, <3>4, RemovedTyped
    <3>6. catalog' = [catalog EXCEPT ![n].items = less]
      BY <3>2 DEF DeleteItem
    <3> HIDE DEF less
    <3>7. Numbered([catalog EXCEPT ![n].items = less], born)
      BY <1>1, <3>3, <3>5, ItemsSet
    <3> QED
      BY <3>2, <3>6, <3>7
  <2> QED
    BY <2>1, <2>2, <2>3, <2>4 DEF ChangeLists
<1>5. changes' = changes + 1 /\ UNCHANGED <<index, auditLog, failed, hinting>>
  BY DEF ChangeLists
<1> QED
  BY <1>2, <1>3, <1>4, <1>5 DEF Disturbed, Numbered

(* An import begins without a rebuild. *)
LEMMA StartImportWaits ==
    ASSUME CuratedTypes, NEW a \in Importers, StartImport(a)
    PROVE  Waited(a)
<1> DEFINE r == [step |-> "seeds", at |-> 1, changed |-> FALSE, saw |-> catalog]
<1>0. a \in Writers
  BY DEF Writers
<1>1. r \in SeedRuns
  <2>1. catalog \in Seq(AnyList) /\ 1 \in Nat \ {0} /\ FALSE \in BOOLEAN
    BY DEF CuratedTypes
  <2> QED
    BY <2>1 DEF SeedRuns
<1>2. r \in CuratedRequests /\ r.step = "seeds"
  BY <1>1 DEF CuratedRequests
<1>3. Turns(a, r)
  BY DEF StartImport
<1> HIDE DEF r
<1>4. request' \in [Writers -> CuratedRequests] /\ request'[a] = r /\ OthersUntouched(a)
  BY <1>0, <1>2, <1>3, TurnsSets
<1>5. ~Rebuilding(a)
  BY DEF StartImport, Busy, Rebuilding
<1>6. UNCHANGED <<catalog, born, index, changes, auditLog, failed, hinting, ghosts>>
  BY DEF StartImport
<1> QED
  BY <1>2, <1>4, <1>5, <1>6 DEF Waited

(* A seed of the import disturbs if it changes the lists, else it waits. *)
LEMMA ImportSeedMoves ==
    ASSUME CuratedTypes, NEW a \in Importers, ImportSeed(a)
    PROVE  Disturbed(a) \/ Waited(a)
<1> DEFINE r == request[a]
           seed == Seeds[r.at]
           item == WalletItem(seed.wallet)
           n == ListOf(r.saw, seed.category)
<1>0. a \in Writers
  BY DEF Writers
<1>1. r.step = "seeds" /\ r.at <= Len(Seeds) /\ r \in SeedRuns /\ ~Rebuilding(a)
  BY <1>0, RequestIs DEF ImportSeed, CuratedTypes, Rebuilding
<1>2. r.saw \in Seq(AnyList) /\ r.at \in DOMAIN Seeds
  <2>1. r.at \in Nat \ {0} /\ r.saw \in Seq(AnyList)
    BY <1>1 DEF SeedRuns
  <2>2. Seeds \in Seq([category : Categories \ {NoCategory}, wallet : Wallets])
    BY ListsAssumption
  <2>3. DOMAIN Seeds = 1..Len(Seeds) /\ Len(Seeds) \in Nat
    BY <2>2
  <2> QED
    BY <1>1, <2>1, <2>3
<1>3. seed.category \in Categories /\ item \in AnyItem
  BY <1>2, SeedTyped
<1>4. Numbered(catalog, born) /\ catalog \in Seq(AnyList) /\ born \in Nat
  BY DEF CuratedTypes, Numbered
<1>5. \A s \in SeedRuns : s \in CuratedRequests /\ s.step = "seeds"
  BY DEF CuratedRequests, SeedRuns
<1>6. UNCHANGED <<index, changes, auditLog, failed, hinting>>
  BY DEF ImportSeed, counts
<1>7. ASSUME NEW q \in SeedRuns, Disturbing(a, q), Numbered(catalog', born')
      PROVE  Disturbed(a)
  <2>1. q \in CuratedRequests /\ q.step = "seeds"
    BY <1>5
  <2>2. /\ request' \in [Writers -> CuratedRequests] /\ request'[a] = q
        /\ \A b \in Writers \ {a} :
            request'[b] = IF Rebuilding(b) THEN [request[b] EXCEPT !.alone = FALSE] ELSE request[b]
        /\ trusted' = FALSE /\ everMet' = (everMet \/ \E b \in Writers \ {a} : Rebuilding(b))
    BY <1>0, <1>7, <2>1, DisturbingSets
  <2> QED
    BY <1>1, <1>6, <1>7, <2>1, <2>2 DEF Disturbed, Numbered
<1>8. ASSUME NEW q \in CuratedRequests, q.step \in {"idle", "seeds"}, Turns(a, q),
             UNCHANGED <<catalog, born, ghosts>>
      PROVE  Waited(a)
  <2>1. request' \in [Writers -> CuratedRequests] /\ request'[a] = q /\ OthersUntouched(a)
    BY <1>0, <1>8, TurnsSets
  <2> QED
    BY <1>1, <1>6, <1>8, <2>1 DEF Waited
<1>9. CASE /\ n = 0
           /\ catalog' = CreateList(catalog, seed.category) /\ born' = born + 1
           /\ Disturbing(a, [r EXCEPT !.changed = TRUE, !.saw = CreateList(@, seed.category)])
  <2> DEFINE s == CreateList(r.saw, seed.category)
             q == [r EXCEPT !.changed = TRUE, !.saw = s]
  <2>1. s \in Seq(AnyList) /\ Numbered(CreateList(catalog, seed.category), born + 1)
    BY <1>2, <1>3, <1>4, CreateListTyped
  <2>2. Disturbing(a, q)
    BY <1>9
  <2> HIDE DEF s
  <2>3. q \in SeedRuns
    BY <1>1, <2>1, SeedRunSet
  <2> HIDE DEF q
  <2>4. Numbered(catalog', born')
    BY <1>9, <2>1
  <2> QED
    BY <1>7, <2>2, <2>3, <2>4
<1>10. CASE /\ n # 0
            /\ Turns(a, [r EXCEPT !.at = @ + 1])
            /\ UNCHANGED <<catalog, born, ghosts>>
  <2> DEFINE q == [r EXCEPT !.at = @ + 1]
  <2>1. q \in SeedRuns
    BY <1>1, <1>2, SeedRunSet
  <2>2. Turns(a, q)
    BY <1>10
  <2> HIDE DEF q
  <2> QED
    BY <1>5, <1>8, <1>10, <2>1, <2>2
<1>11. CASE /\ n # 0
            /\ \E m \in DOMAIN catalog : catalog' = AddItem(catalog, m, item)
            /\ Disturbing(a, [r EXCEPT !.at = @ + 1, !.changed = TRUE, !.saw = AddItem(@, n, item)])
            /\ UNCHANGED born
  <2> DEFINE s == AddItem(r.saw, n, item)
             q == [r EXCEPT !.at = @ + 1, !.changed = TRUE, !.saw = s]
  <2>0. n \in DOMAIN r.saw
    BY <1>2, <1>11, CategoryFound
  <2>1. s \in Seq(AnyList)
    BY <1>2, <1>3, <2>0, AddItemTyped
  <2>2. Disturbing(a, q)
    BY <1>11
  <2> HIDE DEF s
  <2>3. q \in SeedRuns
    BY <1>1, <2>1, SeedRunSet
  <2> HIDE DEF q
  <2>4. PICK m \in DOMAIN catalog : catalog' = AddItem(catalog, m, item)
    BY <1>11
  <2>5. Numbered(AddItem(catalog, m, item), born)
    BY <1>3, <1>4, AddItemTyped
  <2>6. Numbered(catalog', born')
    BY <1>11, <2>4, <2>5
  <2> QED
    BY <1>7, <2>2, <2>3, <2>6
<1>12. CASE Turns(a, Idle) /\ UNCHANGED <<catalog, born, ghosts>>
  BY <1>8, <1>12, IdleTyped
<1>13. \/ /\ n = 0
          /\ catalog' = CreateList(catalog, seed.category) /\ born' = born + 1
          /\ Disturbing(a, [r EXCEPT !.changed = TRUE, !.saw = CreateList(@, seed.category)])
       \/ /\ n # 0
          /\ Turns(a, [r EXCEPT !.at = @ + 1])
          /\ UNCHANGED <<catalog, born, ghosts>>
       \/ /\ n # 0
          /\ \E m \in DOMAIN catalog : catalog' = AddItem(catalog, m, item)
          /\ Disturbing(a, [r EXCEPT !.at = @ + 1, !.changed = TRUE, !.saw = AddItem(@, n, item)])
          /\ UNCHANGED born
       \/ Turns(a, Idle) /\ UNCHANGED <<catalog, born, ghosts>>
  BY Zenon DEF ImportSeed
<1> QED
  BY <1>9, <1>10, <1>11, <1>12, <1>13

(* An import that changed the lists rebuilds at its end. *)
LEMMA SeedsDoneMoves ==
    ASSUME CuratedTypes, NEW a \in Importers, SeedsDone(a)
    PROVE  Disturbed(a) \/ Waited(a)
<1>0. a \in Writers
  BY DEF Writers
<1>1. ~Rebuilding(a)
  BY DEF SeedsDone, Rebuilding
<1>2. UNCHANGED <<catalog, born, index, changes, auditLog, failed, hinting>>
  BY DEF SeedsDone, counts
<1>3. CASE Disturbing(a, Rebuild(a))
  <2>1. /\ request' \in [Writers -> CuratedRequests] /\ request'[a] = Rebuild(a)
        /\ \A b \in Writers \ {a} :
            request'[b] = IF Rebuilding(b) THEN [request[b] EXCEPT !.alone = FALSE] ELSE request[b]
        /\ trusted' = FALSE /\ everMet' = (everMet \/ \E b \in Writers \ {a} : Rebuilding(b))
    BY <1>0, <1>3, RebuildTyped, DisturbingSets
  <2>2. catalog' \in Seq(AnyList) /\ born' \in Nat /\ \A n \in DOMAIN catalog' : catalog'[n].id <= born'
    BY <1>2 DEF CuratedTypes
  <2> QED
    BY <1>1, <1>2, <2>1, <2>2 DEF Disturbed
<1>4. CASE Turns(a, Idle) /\ UNCHANGED ghosts
  <2>1. request' \in [Writers -> CuratedRequests] /\ request'[a] = Idle /\ OthersUntouched(a)
    BY <1>0, <1>4, IdleTyped, TurnsSets
  <2> QED
    BY <1>1, <1>2, <1>4, <2>1, IdleTyped DEF Waited
<1> QED
  BY <1>3, <1>4 DEF SeedsDone

(* A rebuild's step: its request, and how it goes on. *)
LEMMA RebuildingIs ==
    ASSUME CuratedTypes, NEW a \in Writers, Rebuilding(a)
    PROVE  /\ request[a] \in Rebuilds /\ HasWork(request[a])
           /\ request[a].defs \in Defs /\ request[a].todo \in UniqueRows
           /\ request[a].refs \in SUBSET Wallets /\ request[a].step \in RebuildSteps
<1>1. request[a] \in Rebuilds /\ HasWork(request[a])
  BY RequestIs DEF CuratedTypes, Rebuilding
<1> QED
  BY <1>1 DEF Rebuilds

(* The statements of a rebuild, one by one: reading the lists, *)
LEMMA ReadItemsWorks == ASSUME CuratedTypes, NEW a \in Writers, ReadItems(a) PROVE Worked(a)
<1> DEFINE r == request[a]
           q == [step |-> "previous", alone |-> r.alone, defs |-> Definitions(catalog),
                 todo |-> Assignments(catalog), refs |-> r.refs]
<1>1. r.step = "items" /\ Rebuilding(a)
  BY DEF ReadItems, Rebuilding
<1>2. r \in Rebuilds /\ r.refs \in SUBSET Wallets
  BY <1>1, RebuildingIs
<1>3. Definitions(catalog) \in Defs /\ Assignments(catalog) \in UniqueRows
  <2>1. catalog \in Seq(AnyList)
    BY DEF CuratedTypes
  <2>2. PICK h \in [0..Len(catalog) -> Defs] : h[Len(catalog)] = Definitions(catalog)
    BY <2>1, DefinitionsGo
  <2>3. Len(catalog) \in 0..Len(catalog)
    BY <2>1
  <2> QED
    BY <2>1, <2>2, <2>3, AssignmentsAre
<1>4. "previous" \in RebuildSteps
  BY DEF RebuildSteps
<1>5. [r EXCEPT !.step = "previous", !.defs = Definitions(catalog), !.todo = Assignments(catalog)] = q
      /\ q \in Rebuilds
  <2> DEFINE d == Definitions(catalog)
             t == Assignments(catalog)
  <2>1. d \in Defs /\ t \in UniqueRows
    BY <1>3
  <2> HIDE DEF d, t
  <2>2. [r EXCEPT !.step = "previous", !.defs = d, !.todo = t] =
            [step |-> "previous", alone |-> r.alone, defs |-> d, todo |-> t, refs |-> r.refs]
    <3> DEFINE r1 == [r EXCEPT !.step = "previous"]
               r2 == [r1 EXCEPT !.defs = d]
    <3>1. [r EXCEPT !.step = "previous", !.defs = d, !.todo = t] = [r2 EXCEPT !.todo = t]
      OBVIOUS
    <3>2. r1 = [step |-> "previous", alone |-> r.alone, defs |-> r.defs, todo |-> r.todo, refs |-> r.refs]
      BY <1>2, <1>4, <2>1, RebuildSet
    <3> HIDE DEF r1
    <3>3. r2 = [step |-> "previous", alone |-> r.alone, defs |-> d, todo |-> r.todo, refs |-> r.refs]
      BY <3>2
    <3> HIDE DEF r2
    <3> QED
      BY <3>1, <3>3
  <2>3. [step |-> "previous", alone |-> r.alone, defs |-> d, todo |-> t, refs |-> r.refs] \in Rebuilds
    BY ONLY <1>2, <1>4, <2>1, RebuildSet
  <2> QED
    BY <2>2, <2>3 DEF d, t
<1>6. /\ q.step = "previous" /\ q.alone = r.alone /\ q.defs = Definitions(catalog)
      /\ q.todo = Assignments(catalog)
  OBVIOUS
<1>7. Turns(a, q)
  BY <1>5 DEF ReadItems
<1> HIDE DEF q
<1>8. q \in CuratedRequests
  BY <1>5, <1>6 DEF CuratedRequests, HasWork
<1>9. request' \in [Writers -> CuratedRequests] /\ request'[a] = q /\ OthersUntouched(a)
  BY <1>7, <1>8, TurnsSets
<1>10. KeepsReading(a)
  BY <1>1, <1>6, <1>9 DEF KeepsReading
<1>11. /\ UNCHANGED <<catalog, born, assigned, entities, graphs, counts, hinting, ghosts>>
  BY DEF ReadItems, index
<1>12. assigned' \in [Wallets -> EntityKeys \cup {NoKey, Heuristic}] /\ entities' \in Defs
  BY <1>11 DEF CuratedTypes
<1> QED
  BY <1>1, <1>5, <1>6, <1>9, <1>10, <1>11, <1>12 DEF Worked

(* reading the wallets assigned before, *)
LEMMA ReadPreviousWorks == ASSUME CuratedTypes, NEW a \in Writers, ReadPrevious(a) PROVE Worked(a)
<1> DEFINE r == request[a]
           f == {w \in Wallets : Curated(w)}
           q == [step |-> "clear", alone |-> r.alone, defs |-> r.defs, todo |-> r.todo, refs |-> f]
<1>1. r.step = "previous" /\ Rebuilding(a)
  BY DEF ReadPrevious, Rebuilding
<1>2. r \in Rebuilds /\ r.defs \in Defs /\ r.todo \in UniqueRows /\ f \in SUBSET Wallets
  BY <1>1, RebuildingIs
<1>4. "clear" \in RebuildSteps
  BY DEF RebuildSteps
<1>5. [r EXCEPT !.step = "clear", !.refs = f] = q /\ q \in Rebuilds
  <2> HIDE DEF f
  <2>1. [r EXCEPT !.step = "clear", !.refs = f] =
            [step |-> "clear", alone |-> r.alone, defs |-> r.defs, todo |-> r.todo, refs |-> f]
    <3> DEFINE r1 == [r EXCEPT !.step = "clear"]
    <3>1. [r EXCEPT !.step = "clear", !.refs = f] = [r1 EXCEPT !.refs = f]
      OBVIOUS
    <3>2. r1 = [step |-> "clear", alone |-> r.alone, defs |-> r.defs, todo |-> r.todo, refs |-> r.refs]
      BY <1>2, <1>4, RebuildSet
    <3> HIDE DEF r1
    <3> QED
      BY <3>1, <3>2
  <2>2. [step |-> "clear", alone |-> r.alone, defs |-> r.defs, todo |-> r.todo, refs |-> f] \in Rebuilds
    BY ONLY <1>2, <1>4, RebuildSet
  <2> QED
    BY <2>1, <2>2
<1>6. q.step = "clear" /\ q.alone = r.alone /\ q.defs = r.defs /\ q.todo = r.todo /\ q.refs = f
  OBVIOUS
<1>7. Turns(a, q)
  BY <1>5 DEF ReadPrevious
<1> HIDE DEF q
<1>8. q \in CuratedRequests
  BY <1>5, <1>6 DEF CuratedRequests, HasWork
<1>9. request' \in [Writers -> CuratedRequests] /\ request'[a] = q /\ OthersUntouched(a)
  BY <1>7, <1>8, TurnsSets
<1>10. KeepsReading(a)
  BY <1>1, <1>6, <1>9 DEF KeepsReading
<1>11. /\ UNCHANGED <<catalog, born, assigned, entities, graphs, counts, hinting, ghosts>>
  BY DEF ReadPrevious, index
<1>12. assigned' \in [Wallets -> EntityKeys \cup {NoKey, Heuristic}] /\ entities' \in Defs
  BY <1>11 DEF CuratedTypes
<1> QED
  BY <1>1, <1>5, <1>6, <1>9, <1>10, <1>11, <1>12 DEF Worked

(* clearing the assignments, *)
LEMMA ClearAssignmentsWorks ==
    ASSUME CuratedTypes, NEW a \in Writers, ClearAssignments(a) PROVE Worked(a)
<1> DEFINE r == request[a]
           q == [step |-> "delete", alone |-> r.alone, defs |-> r.defs, todo |-> r.todo, refs |-> r.refs]
<1>1. r.step = "clear" /\ Rebuilding(a)
  BY DEF ClearAssignments, Rebuilding
<1>2. r \in Rebuilds /\ r.defs \in Defs /\ r.todo \in UniqueRows /\ r.refs \in SUBSET Wallets
  BY <1>1, RebuildingIs
<1>4. "delete" \in RebuildSteps
  BY DEF RebuildSteps
<1>5. [r EXCEPT !.step = "delete"] = q /\ q \in Rebuilds
  BY <1>2, <1>4, RebuildSet
<1>6. q.step = "delete" /\ q.alone = r.alone /\ q.defs = r.defs /\ q.todo = r.todo /\ q.refs = r.refs
  OBVIOUS
<1>7. Turns(a, q)
  BY <1>5 DEF ClearAssignments
<1> HIDE DEF q
<1>8. q \in CuratedRequests
  BY <1>5, <1>6 DEF CuratedRequests, HasWork
<1>9. request' \in [Writers -> CuratedRequests] /\ request'[a] = q /\ OthersUntouched(a)
  BY <1>7, <1>8, TurnsSets
<1>10. assigned' = [w \in Wallets |-> IF Curated(w) THEN NoKey ELSE assigned[w]]
  BY DEF ClearAssignments
<1>11. /\ UNCHANGED <<catalog, born, entities, graphs, counts, hinting, ghosts>>
  BY DEF ClearAssignments
<1>12. assigned' \in [Wallets -> EntityKeys \cup {NoKey, Heuristic}] /\ entities' \in Defs
  BY <1>10, <1>11 DEF CuratedTypes
<1>13. Clears(a)
  BY <1>1, <1>6, <1>9, <1>10 DEF Clears
<1> QED
  BY <1>1, <1>5, <1>6, <1>9, <1>11, <1>12, <1>13 DEF Worked

(* Where a loop's step leads, once its request is set. *)
LEMMA ThenSets ==
    ASSUME CuratedTypes, NEW a \in Writers, NEW r \in Rebuilds, r.step \in {"entities", "assignments"},
           r.step = "assignments" => r.defs = request[a].defs, Turns(a, Then(r))
    PROVE  /\ request' \in [Writers -> CuratedRequests] /\ OthersUntouched(a) /\ request'[a] \in Rebuilds
           /\ request'[a].alone = r.alone /\ request'[a].defs = r.defs
           /\ request'[a].todo = r.todo /\ request'[a].refs = r.refs
           /\ r.step = "entities" => GoesOn(a)
           /\ r.step = "assignments" => /\ request'[a].step \in {"assignments", "graphs"}
                                        /\ request'[a].step = "graphs" => request'[a].todo = <<>>
<1> DEFINE q == Then(r)
<1>1. /\ q \in CuratedRequests /\ q \in Rebuilds
      /\ q.alone = r.alone /\ q.defs = r.defs /\ q.todo = r.todo /\ q.refs = r.refs
      /\ r.step = "entities" /\ r.defs # NoEntities => q.step = "entities"
      /\ r.step = "entities" /\ r.defs = NoEntities /\ r.todo # <<>> => q.step = "assignments"
      /\ r.step = "entities" /\ r.defs = NoEntities /\ r.todo = <<>> => q.step = "graphs"
      /\ r.step = "assignments" /\ r.todo # <<>> => q.step = "assignments"
      /\ r.step = "assignments" /\ r.todo = <<>> => q.step = "graphs"
  BY ThenGoes
<1> HIDE DEF q
<1>2. request' \in [Writers -> CuratedRequests] /\ request'[a] = q /\ OthersUntouched(a)
  BY <1>1, TurnsSets DEF q
<1> QED
  BY <1>1, <1>2 DEF GoesOn

(* deleting the entities, *)
LEMMA DeleteEntitiesWorks ==
    ASSUME CuratedTypes, NEW a \in Writers, DeleteEntities(a) PROVE Worked(a)
<1> DEFINE r == request[a]
           q == [step |-> "entities", alone |-> r.alone, defs |-> r.defs, todo |-> r.todo, refs |-> r.refs]
<1>1. r.step = "delete" /\ Rebuilding(a)
  BY DEF DeleteEntities, Rebuilding
<1>2. r \in Rebuilds /\ r.defs \in Defs /\ r.todo \in UniqueRows /\ r.refs \in SUBSET Wallets
  BY <1>1, RebuildingIs
<1>4. "entities" \in RebuildSteps
  BY DEF RebuildSteps
<1>5. [r EXCEPT !.step = "entities"] = q /\ q \in Rebuilds
  BY <1>2, <1>4, RebuildSet
<1>6. q.step = "entities" /\ q.alone = r.alone /\ q.defs = r.defs /\ q.todo = r.todo /\ q.refs = r.refs
  OBVIOUS
<1>7. Turns(a, Then(q))
  BY <1>5 DEF DeleteEntities
<1> HIDE DEF q
<1>8. /\ request' \in [Writers -> CuratedRequests] /\ OthersUntouched(a) /\ request'[a] \in Rebuilds
      /\ request'[a].alone = r.alone /\ request'[a].defs = r.defs
      /\ request'[a].todo = r.todo /\ request'[a].refs = r.refs /\ GoesOn(a)
  BY <1>5, <1>6, <1>7, ThenSets
<1>9. entities' = NoEntities /\ UNCHANGED <<catalog, born, assigned, graphs, counts, hinting, ghosts>>
  BY DEF DeleteEntities
<1>10. assigned' \in [Wallets -> EntityKeys \cup {NoKey, Heuristic}] /\ entities' \in Defs
  BY <1>9, NoEntitiesTyped DEF CuratedTypes
<1>11. DeletesAll(a)
  BY <1>1, <1>8, <1>9 DEF DeletesAll
<1> QED
  BY <1>1, <1>8, <1>9, <1>10, <1>11 DEF Worked

(* writing an entity, *)
LEMMA UpsertEntityWorks ==
    ASSUME CuratedTypes, NEW a \in Writers, UpsertEntity(a) PROVE Worked(a)
<1> DEFINE r == request[a]
           k == CHOOSE k \in DOMAIN r.defs : \A j \in DOMAIN r.defs : k <= j
           d == Restrict(r.defs, DOMAIN r.defs \ {k})
           q == [step |-> r.step, alone |-> r.alone, defs |-> d, todo |-> r.todo, refs |-> r.refs]
           more == [j \in DOMAIN entities \cup {k} |-> IF j = k THEN r.defs[k] ELSE entities[j]]
<1>1. r.step = "entities" /\ Rebuilding(a)
  BY DEF UpsertEntity, Rebuilding
<1>2. /\ r \in Rebuilds /\ r.defs \in Defs /\ r.todo \in UniqueRows /\ r.refs \in SUBSET Wallets
      /\ r.step \in RebuildSteps /\ r.defs # NoEntities
  BY <1>1, RebuildingIs DEF HasWork
<1>3. k \in DOMAIN r.defs
  <2>1. DOMAIN r.defs \in SUBSET Nat /\ r.defs = [j \in DOMAIN r.defs |-> r.defs[j]]
    BY <1>2, DefsAre, KeysAssumption
  <2>2. DOMAIN r.defs # {}
    <3>1. ASSUME DOMAIN r.defs = {} PROVE r.defs = NoEntities
      BY <2>1, <3>1 DEF NoEntities
    <3> QED
      BY <1>2, <3>1
  <2>3. \E j \in DOMAIN r.defs : \A m \in DOMAIN r.defs : j <= m
    BY <2>1, <2>2, LeastNumber
  <2> QED
    BY <2>3
<1>4. entities' = more
  BY DEF UpsertEntity
<1>5. Turns(a, Then([r EXCEPT !.defs = d]))
  BY DEF UpsertEntity
<1> HIDE DEF k
<1>6. d \in Defs
  <2>1. DOMAIN r.defs \subseteq EntityKeys /\ \A j \in DOMAIN r.defs : r.defs[j] \in EntityTypes
    BY <1>2, DefsAre
  <2>2. d = [j \in DOMAIN r.defs \ {k} |-> r.defs[j]]
    BY DEF Restrict
  <2> HIDE DEF d
  <2>3. DOMAIN d \subseteq EntityKeys /\ d = [j \in DOMAIN d |-> d[j]] /\ \A j \in DOMAIN d : d[j] \in EntityTypes
    BY <2>1, <2>2
  <2> QED
    BY <2>3, DefsAre
<1> HIDE DEF d
<1>7. [r EXCEPT !.defs = d] = q /\ q \in Rebuilds
  BY <1>2, <1>6, RebuildSet
<1>8. q.step = "entities" /\ q.alone = r.alone /\ q.defs = d /\ q.todo = r.todo /\ q.refs = r.refs
  BY <1>1
<1>9. Turns(a, Then(q))
  BY <1>5, <1>7
<1> HIDE DEF q
<1>10. /\ request' \in [Writers -> CuratedRequests] /\ OthersUntouched(a) /\ request'[a] \in Rebuilds
       /\ request'[a].alone = r.alone /\ request'[a].defs = d
       /\ request'[a].todo = r.todo /\ request'[a].refs = r.refs /\ GoesOn(a)
  BY <1>7, <1>8, <1>9, ThenSets
<1>11. UNCHANGED <<catalog, born, assigned, graphs, counts, hinting, ghosts>>
  BY DEF UpsertEntity
<1>12. more \in Defs
  <2>1. /\ DOMAIN entities \subseteq EntityKeys /\ \A j \in DOMAIN entities : entities[j] \in EntityTypes
        /\ k \in EntityKeys /\ r.defs[k] \in EntityTypes
    BY <1>2, <1>3, DefsAre DEF CuratedTypes
  <2>2. DOMAIN more \subseteq EntityKeys /\ more = [j \in DOMAIN more |-> more[j]]
    BY <2>1
  <2>3. \A j \in DOMAIN more : more[j] \in EntityTypes
    BY <2>1
  <2> HIDE DEF more
  <2> QED
    BY <2>2, <2>3, DefsAre
<1>13. assigned' \in [Wallets -> EntityKeys \cup {NoKey, Heuristic}] /\ entities' \in Defs
  BY <1>4, <1>11, <1>12 DEF CuratedTypes
<1>14. WritesEntity(a)
  BY <1>1, <1>3, <1>4, <1>10 DEF WritesEntity, d
<1> QED
  BY <1>1, <1>10, <1>11, <1>13, <1>14 DEF Worked

(* The first of rows, and the others. *)
LEMMA RowsBehind ==
    ASSUME NEW s \in UniqueRows, s # <<>>
    PROVE  /\ Head(s) \in Row /\ Tail(s) \in UniqueRows
           /\ KeyIn(s, Head(s).wallet) = Head(s).key /\ Head(s).key \in EntityKeys
           /\ KeyIn(Tail(s), Head(s).wallet) = NoKey
           /\ \A w : w # Head(s).wallet => KeyIn(Tail(s), w) = KeyIn(s, w)
<1>1. s \in Seq(Row) /\ DOMAIN s = 1..Len(s) /\ Len(s) \in Nat /\ 1 \in DOMAIN s /\ Head(s) = s[1]
  BY DEF UniqueRows
<1> DEFINE t == Tail(s)
<1>2. /\ t \in Seq(Row) /\ Len(t) = Len(s) - 1 /\ \A n \in 1..(Len(s) - 1) : t[n] = s[n + 1]
  BY <1>1
<1> HIDE DEF t
<1>3. \A n \in DOMAIN t : n \in Nat /\ n + 1 \in DOMAIN s /\ n + 1 # 1 /\ t[n] = s[n + 1]
  BY <1>1, <1>2
<1>4. t \in UniqueRows
  <2>1. ASSUME NEW m \in DOMAIN t, NEW n \in DOMAIN t, t[m].wallet = t[n].wallet PROVE m = n
    <3>1. m + 1 = n + 1
      BY <1>3, <2>1 DEF UniqueRows
    <3> QED
      BY <1>3, <3>1
  <2> QED
    BY <1>2, <2>1 DEF UniqueRows
<1>5. s[1] \in Row /\ s[1].key \in EntityKeys
  <2>1. s[1] \in Row
    BY <1>1
  <2> QED
    BY <2>1 DEF Row
<1>6. KeyIn(s, s[1].wallet) = s[1].key
  BY <1>1, KeyInIs
<1>7. KeyIn(t, s[1].wallet) = NoKey
  <2>1. \A n \in DOMAIN t : t[n].wallet # s[1].wallet
    BY <1>1, <1>3 DEF UniqueRows
  <2> QED
    BY <1>4, <2>1, KeyInIs
<1>8. ASSUME NEW w, w # s[1].wallet PROVE KeyIn(t, w) = KeyIn(s, w)
  <2>1. CASE \E n \in DOMAIN t : t[n].wallet = w
    <3>1. PICK n \in DOMAIN t : t[n].wallet = w
      BY <2>1
    <3>2. KeyIn(t, w) = t[n].key
      BY <1>4, <3>1, KeyInIs
    <3>3. KeyIn(s, w) = s[n + 1].key
      BY <1>3, <3>1, KeyInIs
    <3> QED
      BY <1>3, <3>2, <3>3
  <2>2. CASE \A n \in DOMAIN t : t[n].wallet # w
    <3>1. ASSUME NEW n \in DOMAIN s PROVE s[n].wallet # w
      <4>1. CASE n = 1
        BY <1>8, <4>1
      <4>2. CASE n # 1
        <5>1. n - 1 \in DOMAIN t /\ (n - 1) + 1 = n
          BY <1>1, <1>2, <4>2
        <5>2. t[n - 1] = s[n]
          BY <1>3, <5>1
        <5> QED
          BY <2>2, <5>1, <5>2
      <4> QED
        BY <4>1, <4>2
    <3> QED
      BY <1>4, <2>2, <3>1, KeyInIs
  <2> QED
    BY <2>1, <2>2
<1> QED
  BY <1>1, <1>4, <1>5, <1>6, <1>7, <1>8 DEF t

(* writing an assignment, *)
LEMMA UpsertAssignmentWorks ==
    ASSUME CuratedTypes, NEW a \in Writers, UpsertAssignment(a) PROVE Worked(a)
<1> DEFINE r == request[a]
           it == Head(r.todo)
           t == Tail(r.todo)
           f == r.refs \cup {it.wallet}
           q == [step |-> r.step, alone |-> r.alone, defs |-> r.defs, todo |-> t, refs |-> f]
<1>1. r.step = "assignments" /\ Rebuilding(a)
  BY DEF UpsertAssignment, Rebuilding
<1>2. /\ r \in Rebuilds /\ r.defs \in Defs /\ r.todo \in UniqueRows /\ r.refs \in SUBSET Wallets
      /\ r.step \in RebuildSteps /\ r.todo # <<>>
  BY <1>1, RebuildingIs DEF HasWork
<1>3. it \in Row /\ t \in UniqueRows
  BY <1>2, RowsBehind
<1>4. it.wallet \in Wallets /\ it.key \in EntityKeys
  BY <1>3 DEF Row
<1>5. assigned' = [assigned EXCEPT ![it.wallet] = it.key]
  BY DEF UpsertAssignment
<1>6. Turns(a, Then([r EXCEPT !.todo = t, !.refs = f]))
  BY DEF UpsertAssignment
<1>7. f \in SUBSET Wallets
  BY <1>2, <1>4
<1> HIDE DEF f, t, it
<1>8. [r EXCEPT !.todo = t, !.refs = f] = q /\ q \in Rebuilds
  <2> DEFINE r1 == [r EXCEPT !.todo = t]
  <2>1. [r EXCEPT !.todo = t, !.refs = f] = [r1 EXCEPT !.refs = f]
    OBVIOUS
  <2>2. r1 = [step |-> r.step, alone |-> r.alone, defs |-> r.defs, todo |-> t, refs |-> r.refs]
    <3>1. r = [step |-> r.step, alone |-> r.alone, defs |-> r.defs, todo |-> r.todo, refs |-> r.refs]
      BY <1>2 DEF Rebuilds
    <3> QED
      BY <3>1
  <2> HIDE DEF r1
  <2>3. [r1 EXCEPT !.refs = f] = q
    BY <2>2
  <2>4. q \in Rebuilds
    BY <1>2, <1>3, <1>7 DEF Rebuilds
  <2> QED
    BY <2>1, <2>3, <2>4
<1>9. q.step = "assignments" /\ q.alone = r.alone /\ q.defs = r.defs /\ q.todo = t /\ q.refs = f
  BY <1>1
<1>10. Turns(a, Then(q))
  BY <1>6, <1>8
<1> HIDE DEF q
<1>11. /\ request' \in [Writers -> CuratedRequests] /\ OthersUntouched(a) /\ request'[a] \in Rebuilds
       /\ request'[a].alone = r.alone /\ request'[a].defs = r.defs
       /\ request'[a].todo = t /\ request'[a].refs = f
       /\ request'[a].step \in {"assignments", "graphs"}
       /\ request'[a].step = "graphs" => request'[a].todo = <<>>
  BY <1>8, <1>9, <1>10, ThenSets
<1>12. UNCHANGED <<catalog, born, entities, graphs, counts, hinting, ghosts>>
  BY DEF UpsertAssignment
<1>13. assigned' \in [Wallets -> EntityKeys \cup {NoKey, Heuristic}] /\ entities' \in Defs
  BY <1>4, <1>5, <1>12 DEF CuratedTypes
<1>14. WritesAssignment(a)
  BY <1>1, <1>2, <1>5, <1>11 DEF WritesAssignment, it, t, f
<1> QED
  BY <1>1, <1>11, <1>12, <1>13, <1>14 DEF Worked

(* and dropping the graphs, which ends it. *)
LEMMA InvalidateGraphsEnds ==
    ASSUME CuratedTypes, NEW a \in Writers, InvalidateGraphs(a) PROVE RebuildEnded(a)
<1>1. request' \in [Writers -> CuratedRequests] /\ request'[a] = Idle /\ OthersUntouched(a)
  BY IdleTyped, TurnsSets DEF InvalidateGraphs
<1>2. request[a].step = "graphs" /\ Rebuilding(a)
  BY DEF InvalidateGraphs, Rebuilding
<1> QED
  BY <1>1, <1>2 DEF InvalidateGraphs, RebuildEnded

(* A failed statement stops a request. *)
LEMMA AbortStops ==
    ASSUME CuratedTypes, NEW a \in Writers, Abort(a) PROVE Stopped(a)
<1>1. request' \in [Writers -> CuratedRequests] /\ request'[a] = Idle /\ OthersUntouched(a)
  BY IdleTyped, TurnsSets DEF Abort
<1> QED
  BY <1>1 DEF Abort, Stopped

(* So every step of the specification is one of those summed up. *)
LEMMA CuratedSteps == ASSUME CuratedTypes, [CuratedNext]_curatedVars PROVE CuratedMoves
<1>1. ASSUME NEW a \in Admins, ChangeLists(a) PROVE \E b \in Writers : Disturbed(b)
  BY <1>1, ChangeListsDisturbs DEF Writers
<1>2. ASSUME NEW a \in Importers, StartImport(a) \/ ImportSeed(a) \/ SeedsDone(a)
      PROVE  \E b \in Writers : Disturbed(b) \/ Waited(b)
  <2>1. Disturbed(a) \/ Waited(a)
    BY <1>2, StartImportWaits, ImportSeedMoves, SeedsDoneMoves
  <2> QED
    BY <2>1 DEF Writers
<1>3. ASSUME NEW a \in Writers, Sync(a) PROVE Worked(a) \/ RebuildEnded(a)
  BY <1>3, ReadItemsWorks, ReadPreviousWorks, ClearAssignmentsWorks, DeleteEntitiesWorks,
     UpsertEntityWorks, UpsertAssignmentWorks, InvalidateGraphsEnds DEF Sync
<1>4. ASSUME NEW a \in Writers, Abort(a) PROVE Stopped(a)
  BY <1>4, AbortStops
<1>5. Recognized \subseteq Wallets
  BY KeysAssumption
<1>6. CASE CuratedNext
  BY <1>1, <1>2, <1>3, <1>4, <1>5, <1>6 DEF CuratedNext, CuratedMoves, Besides, GraphStep
<1>7. CASE UNCHANGED curatedVars
  BY <1>7 DEF CuratedMoves
<1> QED
  BY <1>6, <1>7

-----------------------------------------------------------------------------
(* The invariant is kept.  First the types, then who is alone, part by part. *)
LEMMA HintTyped ==
    ASSUME CuratedTypes, NEW w \in Wallets, Hint(w)
    PROVE  /\ assigned' \in [Wallets -> EntityKeys \cup {NoKey, Heuristic}]
           /\ \A v \in Wallets : /\ Curated(v)' <=> Curated(v)
                                 /\ Curated(v) => assigned'[v] = assigned[v]
                                 /\ v # w => assigned'[v] = assigned[v]
<1>1. assigned' = [assigned EXCEPT ![w] = IF Curated(w) THEN assigned[w] ELSE Heuristic]
  BY DEF Hint
<1>2. assigned \in [Wallets -> EntityKeys \cup {NoKey, Heuristic}]
  BY DEF CuratedTypes
<1>3. assigned' \in [Wallets -> EntityKeys \cup {NoKey, Heuristic}]
  BY <1>1, <1>2
<1>4. ~(Heuristic > NoKey)
  BY DEF Heuristic, NoKey
<1>5. \A v \in Wallets : Curated(v) = (assigned[v] > NoKey) /\ Curated(v)' = (assigned'[v] > NoKey)
  BY DEF Curated
<1>6. \A v \in Wallets : v # w => assigned'[v] = assigned[v]
  BY <1>1, <1>2
<1>7. assigned'[w] = IF Curated(w) THEN assigned[w] ELSE Heuristic
  BY <1>1, <1>2
<1> QED
  BY <1>3, <1>4, <1>5, <1>6, <1>7

(* A step of the graphs leaves all but them. *)
LEMMA GraphStepsAre ==
    ASSUME GraphStep
    PROVE  UNCHANGED <<catalog, born, assigned, entities, request, changes, auditLog, failed, ghosts>>
BY DEF GraphStep, HintInvalidates, StoreGraph, ReadGraph, counts

(* Graphs keep their types where none changes, *)
LEMMA CachedTypesSame == ASSUME CachedTypes, UNCHANGED graphs PROVE CachedTypes'
BY DEF CachedTypes, IsRead, graphs

(* when some are dropped, *)
LEMMA DropTyped == ASSUME CachedTypes, NEW ws, Drop(ws) PROVE CachedTypes'
<1>1. /\ cached' = [e \in Wallets \X Hops |-> cached'[e]] /\ snapped' = [w \in Wallets |-> snapped'[w]]
      /\ reader' = [g \in Readers |-> reader'[g]] /\ overtaken' \subseteq Wallets
  BY DEF CachedTypes, Drop
<1>2. ASSUME NEW g \in Readers
      PROVE  IsRead(reader'[g]) /\ (reader'[g] # NoRead => reader'[g].wallet \in Wallets /\ reader'[g].hops \in Hops)
  <2> PICK got : got = reader[g]
    OBVIOUS
  <2>1. IsRead(got) /\ (got # NoRead => got.wallet \in Wallets /\ got.hops \in Hops)
    BY DEF CachedTypes
  <2>2. reader'[g] = IF got # NoRead /\ got.wallet \in ws THEN [got EXCEPT !.late = TRUE] ELSE got
    BY DEF Drop
  <2>3. PICK w, h, x, l, e : got = [wallet |-> w, hops |-> h, graph |-> x, loaded |-> l, late |-> e]
    <3>1. got = [wallet |-> got.wallet, hops |-> got.hops, graph |-> got.graph, loaded |-> got.loaded,
                 late |-> got.late]
      BY <2>1 DEF IsRead
    <3> WITNESS got.wallet, got.hops, got.graph, got.loaded, got.late
    <3> QED
      BY <3>1
  <2>4. [got EXCEPT !.late = TRUE] = [wallet |-> w, hops |-> h, graph |-> x, loaded |-> l, late |-> TRUE]
    <3> DEFINE read == [wallet |-> w, hops |-> h, graph |-> x, loaded |-> l, late |-> e]
               reads0 == [wallet : {w}, hops : {h}, graph : {x}, loaded : {l}, late : {e}]
    <3>0. read \in reads0
      OBVIOUS
    <3>a. got \in reads0
      <4> HIDE DEF read, reads0
      <4> QED
        BY <2>3, <3>0 DEF read
    <3>1. got \in [wallet : {w}, hops : {h}, graph : {x}, loaded : {l}, late : {e}]
      BY <3>a
    <3>2. [got EXCEPT !.late = TRUE] \in [wallet : {w}, hops : {h}, graph : {x}, loaded : {l}, late : {TRUE}]
      BY <3>1
    <3>3. ASSUME NEW r \in [wallet : {w}, hops : {h}, graph : {x}, loaded : {l}, late : {TRUE}]
          PROVE  r = [wallet |-> w, hops |-> h, graph |-> x, loaded |-> l, late |-> TRUE]
      BY <3>3
    <3> HIDE DEF read, reads0
    <3> QED
      BY ONLY <3>2, <3>3, Zenon
  <2>5. IsRead([got EXCEPT !.late = TRUE])
    BY <2>4 DEF IsRead
  <2>6. [got EXCEPT !.late = TRUE].wallet = got.wallet /\ [got EXCEPT !.late = TRUE].hops = got.hops
    BY <2>3, <2>4
  <2> QED
    BY <2>1, <2>2, <2>5, <2>6
<1> QED
  BY <1>1, <1>2 DEF CachedTypes, IsRead

(* and when one is read or stored. *)
LEMMA ReadsTyped ==
    ASSUME CachedTypes, NEW g \in Readers, StoreGraph(g) \/ \E w \in Wallets, h \in Hops : ReadGraph(g, w, h)
    PROVE  CachedTypes'
<1>0. /\ cached = [e \in Wallets \X Hops |-> cached[e]] /\ snapped = [w \in Wallets |-> snapped[w]]
      /\ reader = [f \in Readers |-> reader[f]] /\ overtaken \subseteq Wallets
      /\ \A f \in Readers :
            IsRead(reader[f]) /\ (reader[f] # NoRead => reader[f].wallet \in Wallets /\ reader[f].hops \in Hops)
  BY DEF CachedTypes
<1>1. ASSUME NEW got, IsRead(got), got # NoRead => got.wallet \in Wallets /\ got.hops \in Hops,
             reader' = [reader EXCEPT ![g] = got]
      PROVE  /\ reader' = [f \in Readers |-> reader'[f]]
             /\ \A f \in Readers :
                   /\ IsRead(reader'[f])
                   /\ reader'[f] # NoRead => reader'[f].wallet \in Wallets /\ reader'[f].hops \in Hops
  <2>1. \A f \in Readers : reader'[f] = IF f = g THEN got ELSE reader[f]
    BY <1>0, <1>1
  <2>2. reader' = [f \in Readers |-> reader'[f]]
    BY <1>0, <1>1
  <2> QED
    BY <1>0, <1>1, <2>1, <2>2
<1>2. ASSUME StoreGraph(g) PROVE CachedTypes'
  <2> PICK got : got = reader[g]
    OBVIOUS
  <2>1. /\ cached' = [cached EXCEPT ![<<got.wallet, got.hops>>] = got.graph]
        /\ snapped' = IF got.loaded THEN [snapped EXCEPT ![got.wallet] = got.graph] ELSE snapped
        /\ overtaken' \in {overtaken, overtaken \cup {got.wallet}}
        /\ reader' = [reader EXCEPT ![g] = NoRead] /\ got # NoRead
    BY <1>2 DEF StoreGraph
  <2>2. IsRead(NoRead)
    BY DEF IsRead, NoRead
  <2>3. cached' = [e \in Wallets \X Hops |-> cached'[e]] /\ snapped' = [w \in Wallets |-> snapped'[w]]
    BY <1>0, <2>1
  <2>4. overtaken' \subseteq Wallets
    BY <1>0, <2>1
  <2> QED
    BY <1>1, <2>1, <2>2, <2>3, <2>4 DEF CachedTypes, IsRead
<1>3. ASSUME NEW w \in Wallets, NEW h \in Hops, ReadGraph(g, w, h) PROVE CachedTypes'
  <2> DEFINE loads == snapped[w] = NoGraph
             got == [wallet |-> w, hops |-> h, graph |-> IF loads THEN Shows(w) ELSE snapped[w],
                     loaded |-> loads, late |-> FALSE]
  <2>1. reader' = [reader EXCEPT ![g] = got] /\ UNCHANGED <<cached, snapped, overtaken>>
    BY <1>3 DEF ReadGraph
  <2>2. IsRead(got) /\ got.wallet \in Wallets /\ got.hops \in Hops
    BY DEF IsRead
  <2> HIDE DEF got, loads
  <2> QED
    BY <1>0, <1>1, <2>1, <2>2 DEF CachedTypes, IsRead
<1> QED
  BY <1>2, <1>3

(* The types are kept. *)
LEMMA CuratedTypesKept == ASSUME CuratedTypes, CuratedMoves PROVE CuratedTypes'
<1>1. ASSUME NEW a \in Writers, Disturbed(a) PROVE CuratedTypes'
  <2>1. trusted' \in BOOLEAN /\ everMet' \in BOOLEAN /\ changes' \in Nat
    <3> DEFINE p == everMet \/ \E b \in Writers \ {a} : Rebuilding(b)
    <3>1. everMet' = p /\ trusted' = FALSE
      BY <1>1 DEF Disturbed
    <3>2. p \in BOOLEAN
      OBVIOUS
    <3> HIDE DEF p
    <3>3. changes \in Nat /\ (changes' = changes \/ changes' = changes + 1)
      BY <1>1 DEF CuratedTypes, Disturbed
    <3>4. trusted' \in BOOLEAN /\ everMet' \in BOOLEAN
      BY <3>1, <3>2, Zenon
    <3> QED
      BY <3>3, <3>4
  <2> QED
    BY <1>1, <2>1, CachedTypesSame DEF CuratedTypes, Disturbed, index
<1>2. ASSUME NEW a \in Writers, Waited(a) PROVE CuratedTypes'
  BY <1>2, CachedTypesSame DEF CuratedTypes, Waited, index, ghosts
<1>3. ASSUME NEW a \in Writers, Worked(a) PROVE CuratedTypes'
  BY <1>3, CachedTypesSame DEF CuratedTypes, Worked, counts, ghosts
<1>4. ASSUME NEW a \in Writers, RebuildEnded(a) PROVE CuratedTypes'
  <2>1. request[a].alone \in BOOLEAN
    BY <1>4, RebuildingIs DEF RebuildEnded, Rebuilds
  <2>2. trusted' \in BOOLEAN /\ auditLog' \in Nat
    BY <1>4, <2>1 DEF CuratedTypes, RebuildEnded
  <2>3. CachedTypes'
    BY <1>4, DropTyped DEF CuratedTypes, RebuildEnded
  <2> QED
    BY <1>4, <2>2, <2>3 DEF CuratedTypes, RebuildEnded
<1>5. ASSUME NEW a \in Writers, Stopped(a) PROVE CuratedTypes'
  <2>1. failed' \in Nat
    BY <1>5 DEF CuratedTypes, Stopped
  <2> QED
    BY <1>5, <2>1, CachedTypesSame DEF CuratedTypes, Stopped, index, ghosts
<1>6. ASSUME NEW w \in Wallets, Hint(w) PROVE CuratedTypes'
  <2>1. assigned' \in [Wallets -> EntityKeys \cup {NoKey, Heuristic}]
    BY <1>6, HintTyped
  <2>2. hinting' \subseteq Wallets
    BY <1>6 DEF CuratedTypes, Hint
  <2>3. UNCHANGED <<catalog, born, entities, graphs, request, changes, auditLog, failed, ghosts>>
    BY <1>6 DEF Hint
  <2> QED
    BY <2>1, <2>2, <2>3, CachedTypesSame DEF CuratedTypes, ghosts
<1>7. ASSUME NEW w \in Wallets, HintInvalidates(w) PROVE CuratedTypes'
  <2>1. hinting' \subseteq Wallets
    BY <1>7 DEF CuratedTypes, HintInvalidates
  <2>2. CachedTypes'
    BY <1>7, DropTyped DEF CuratedTypes, HintInvalidates
  <2>3. UNCHANGED <<catalog, born, assigned, entities, request, counts, ghosts>>
    BY <1>7 DEF HintInvalidates
  <2> QED
    BY <2>1, <2>2, <2>3 DEF CuratedTypes, ghosts, counts
<1>8. ASSUME NEW g \in Readers, StoreGraph(g) \/ \E w \in Wallets, h \in Hops : ReadGraph(g, w, h)
      PROVE  CuratedTypes'
  <2>1. CachedTypes'
    BY <1>8, ReadsTyped DEF CuratedTypes
  <2>2. hinting' = hinting
    BY <1>8 DEF StoreGraph, ReadGraph
  <2>3. UNCHANGED <<catalog, born, assigned, entities, request, changes, auditLog, failed, ghosts>>
    BY <1>8, GraphStepsAre DEF GraphStep
  <2> QED
    BY <2>1, <2>2, <2>3 DEF CuratedTypes, ghosts
<1>9. CASE UNCHANGED curatedVars
  BY <1>9, CachedTypesSame DEF CuratedTypes, curatedVars, index, counts, ghosts
<1> QED
  BY <1>1, <1>2, <1>3, <1>4, <1>5, <1>6, <1>7, <1>8, <1>9 DEF CuratedMoves, Besides, GraphStep

(* Who else rebuilds still does so when disturbed, but no longer alone. *)
LEMMA OthersDisturbed ==
    ASSUME CuratedTypes, NEW a \in Writers, Disturbed(a), NEW b \in Writers, b # a
    PROVE  /\ Rebuilding(b)' <=> Rebuilding(b)
           /\ Rebuilding(b) => ~request'[b].alone
<1>1. CASE Rebuilding(b)
  <2> DEFINE r == request[b]
             q == [step |-> r.step, alone |-> FALSE, defs |-> r.defs, todo |-> r.todo, refs |-> r.refs]
  <2>1. r \in Rebuilds /\ r.defs \in Defs /\ r.todo \in UniqueRows /\ r.refs \in SUBSET Wallets
        /\ r.step \in RebuildSteps
    BY <1>1, RebuildingIs
  <2>2. request'[b] = [r EXCEPT !.alone = FALSE]
    BY <1>1 DEF Disturbed
  <2>3. [r EXCEPT !.alone = FALSE] = q
    BY <2>1, RebuildSet
  <2>4. q.step = r.step /\ ~q.alone
    OBVIOUS
  <2> HIDE DEF q
  <2> QED
    BY <1>1, <2>2, <2>3, <2>4 DEF Rebuilding
<1>2. CASE ~Rebuilding(b)
  <2>1. request'[b] = request[b]
    BY <1>2 DEF Disturbed
  <2> QED
    BY <1>2, <2>1 DEF Rebuilding
<1> QED
  BY <1>1, <1>2

(* Who rebuilds after a step: by a change or its own work the mover, else who did before. *)
LEMMA RebuildingMoves ==
    ASSUME CuratedTypes, NEW a \in Writers
    PROVE  /\ Disturbed(a) => /\ Rebuilding(a)' => /\ request'[a] = Rebuild(a)
                                                   /\ request'[a].step = "items"
                                                   /\ request'[a].alone = (\A b \in Writers \ {a} : ~Rebuilding(b))
                              /\ request'[a] = Rebuild(a) => Rebuilding(a)'
           /\ Waited(a) => ~Rebuilding(a)'
           /\ Worked(a) => Rebuilding(a) /\ Rebuilding(a)' /\ request'[a].alone = request[a].alone
           /\ RebuildEnded(a) => Rebuilding(a) /\ ~Rebuilding(a)'
           /\ Stopped(a) => ~Rebuilding(a)'
           /\ Waited(a) \/ Worked(a) \/ RebuildEnded(a) \/ Stopped(a) =>
                 \A b \in Writers \ {a} : request'[b] = request[b] /\ (Rebuilding(b)' <=> Rebuilding(b))
<1>1. ASSUME Disturbed(a)
      PROVE  /\ Rebuilding(a)' => /\ request'[a] = Rebuild(a)
                                  /\ request'[a].step = "items"
                                  /\ request'[a].alone = (\A b \in Writers \ {a} : ~Rebuilding(b))
             /\ request'[a] = Rebuild(a) => Rebuilding(a)'
  BY <1>1, RebuildTyped DEF Disturbed, Rebuilding
<1>2. ASSUME Waited(a) PROVE ~Rebuilding(a)'
  BY <1>2 DEF Waited, Rebuilding
<1>3. ASSUME Worked(a) PROVE Rebuilding(a) /\ Rebuilding(a)' /\ request'[a].alone = request[a].alone
  <2>1. request'[a] \in Rebuilds /\ request'[a] \in CuratedRequests
    BY <1>3 DEF Worked
  <2>2. request'[a].step \notin {"idle", "seeds"}
    BY <2>1, RequestIs
  <2> QED
    BY <1>3, <2>2 DEF Worked, Rebuilding
<1>4. ASSUME RebuildEnded(a) PROVE Rebuilding(a) /\ ~Rebuilding(a)'
  BY <1>4, IdleTyped DEF RebuildEnded, Rebuilding
<1>5. ASSUME Stopped(a) PROVE ~Rebuilding(a)'
  BY <1>5, IdleTyped DEF Stopped, Rebuilding
<1>6. ASSUME Waited(a) \/ Worked(a) \/ RebuildEnded(a) \/ Stopped(a), NEW b \in Writers \ {a}
      PROVE  request'[b] = request[b] /\ (Rebuilding(b)' <=> Rebuilding(b))
  BY <1>6 DEF Waited, Worked, RebuildEnded, Stopped, OthersUntouched, Rebuilding
<1> QED
  BY <1>1, <1>2, <1>3, <1>4, <1>5, <1>6

(* Heuristics and readers leave the requests, the lists and the counts. *)
LEMMA RequestsStay ==
    ASSUME Besides \/ UNCHANGED curatedVars
    PROVE  /\ request' = request /\ everMet' = everMet /\ trusted' = trusted /\ catalog' = catalog
           /\ entities' = entities /\ changes' = changes /\ auditLog' = auditLog /\ failed' = failed
           /\ \A b : Rebuilding(b)' <=> Rebuilding(b)
<1>1. CASE GraphStep
  BY <1>1, GraphStepsAre DEF ghosts, Rebuilding
<1>2. CASE (\E w \in Wallets : Hint(w)) \/ UNCHANGED curatedVars
  BY <1>2 DEF Hint, curatedVars, counts, ghosts, index, Rebuilding
<1> QED
  BY <1>1, <1>2 DEF Besides

(* Who is alone, and that one was met, is kept. *)
LEMMA AloneSoKept ==
    ASSUME CuratedTypes, AloneIsSo, MetIsSo, CuratedMoves PROVE AloneIsSo' /\ MetIsSo'
<1>1. ASSUME NEW a \in Writers, Disturbed(a) PROVE AloneIsSo' /\ MetIsSo'
  <2>1. /\ Rebuilding(a)' => request'[a].alone = (\A b \in Writers \ {a} : ~Rebuilding(b))
        /\ \A b \in Writers \ {a} : (Rebuilding(b)' <=> Rebuilding(b)) /\ (Rebuilding(b) => ~request'[b].alone)
    BY <1>1, RebuildingMoves, OthersDisturbed
  <2>2. everMet' = (everMet \/ \E b \in Writers \ {a} : Rebuilding(b))
    BY <1>1 DEF Disturbed
  <2>3. AloneIsSo'
    BY <2>1 DEF AloneIsSo
  <2>4. MetIsSo'
    BY <2>1, <2>2 DEF MetIsSo
  <2> QED
    BY <2>3, <2>4
<1>2. ASSUME NEW a \in Writers, Waited(a) \/ Worked(a) \/ RebuildEnded(a) \/ Stopped(a)
      PROVE  AloneIsSo' /\ MetIsSo'
  <2>1. /\ \A b \in Writers \ {a} : request'[b] = request[b] /\ (Rebuilding(b)' <=> Rebuilding(b))
        /\ Rebuilding(a)' => Rebuilding(a) /\ request'[a].alone = request[a].alone
    BY <1>2, RebuildingMoves
  <2>2. everMet' = everMet
    BY <1>2 DEF Waited, Worked, RebuildEnded, Stopped, ghosts
  <2>3. AloneIsSo'
    BY <2>1 DEF AloneIsSo
  <2>4. MetIsSo'
    BY <2>1, <2>2 DEF MetIsSo
  <2> QED
    BY <2>3, <2>4
<1>3. CASE Besides \/ UNCHANGED curatedVars
  <2>1. request' = request /\ everMet' = everMet /\ \A b : Rebuilding(b)' <=> Rebuilding(b)
    BY <1>3, RequestsStay
  <2> QED
    BY <2>1 DEF AloneIsSo, MetIsSo
<1> QED
  BY <1>1, <1>2, <1>3 DEF CuratedMoves

(* The rows left of no row say that the tables are as the lists. *)
LEMMA NoRowsLeft ==
    RowsLeft(<<>>) <=> \A w \in Wallets :
        (IF Curated(w) THEN assigned[w] ELSE NoKey) = KeyOf1(catalog, w)
<1>1. \A w : KeyIn(<<>>, w) = NoKey
  BY NoRows
<1> QED
  BY <1>1 DEF RowsLeft

(* What has come of a rebuild depends on its request, the lists, and what is curated. *)
LEMMA AloneCameStays ==
    ASSUME NEW a \in Writers, AloneCame(a), request'[a] = request[a], catalog' = catalog,
           entities' = entities,
           \A w \in Wallets : (Curated(w)' <=> Curated(w)) /\ (Curated(w) => assigned'[w] = assigned[w])
    PROVE  AloneCame(a)'
<1>1. \A t : RowsLeft(t) => RowsLeft(t)'
  BY DEF RowsLeft
<1>2. RowsLeft(<<>>) => RowsLeft(<<>>)'
  BY <1>1
<1>3. RowsLeft(request[a].todo) => RowsLeft(request[a].todo)'
  BY DEF RowsLeft
<1> QED
  BY <1>2, <1>3 DEF AloneCame

(* The wallets that are curated when a rebuild has cleared them and written some. *)
LEMMA CuratedOf ==
    ASSUME CuratedTypes, NEW w \in Wallets
    PROVE  /\ Curated(w) <=> assigned[w] \in EntityKeys
           /\ ~Curated(w) <=> assigned[w] \in {NoKey, Heuristic}
<1>1. EntityKeys \subseteq Nat \ {0}
  BY KeysAssumption
<1>2. assigned[w] \in EntityKeys \cup {NoKey, Heuristic}
  BY DEF CuratedTypes
<1>3. \A k \in EntityKeys : k > NoKey
  BY <1>1 DEF NoKey
<1>4. ~(NoKey > NoKey) /\ ~(Heuristic > NoKey)
  BY DEF NoKey, Heuristic
<1> QED
  BY <1>2, <1>3, <1>4 DEF Curated

(* Joining: the definitions alone before the first is written; the same after each; the entities
   alone in the end. *)
LEMMA JoinedBehave ==
    ASSUME NEW e \in Defs, NEW d \in Defs
    PROVE  /\ Joined(NoEntities, d) = d
           /\ Joined(e, NoEntities) = e
           /\ \A k \in DOMAIN d :
                 Joined([j \in DOMAIN e \cup {k} |-> IF j = k THEN d[k] ELSE e[j]],
                        Restrict(d, DOMAIN d \ {k})) = Joined(e, d)
<1>1. DOMAIN NoEntities = {}
  BY DEF NoEntities
<1>2. e = [k \in DOMAIN e |-> e[k]] /\ d = [k \in DOMAIN d |-> d[k]]
  BY DefsAre
<1>3. Joined(NoEntities, d) = d
  <2>1. {} \cup DOMAIN d = DOMAIN d
    OBVIOUS
  <2>2. Joined(NoEntities, d) = [k \in DOMAIN d |-> IF k \in DOMAIN d THEN d[k] ELSE NoEntities[k]]
    BY <1>1, <2>1 DEF Joined
  <2>3. [k \in DOMAIN d |-> IF k \in DOMAIN d THEN d[k] ELSE NoEntities[k]] = [k \in DOMAIN d |-> d[k]]
    OBVIOUS
  <2> QED
    BY <1>2, <2>2, <2>3
<1>4. Joined(e, NoEntities) = e
  <2>1. DOMAIN e \cup {} = DOMAIN e
    OBVIOUS
  <2>2. Joined(e, NoEntities) = [k \in DOMAIN e |-> IF k \in {} THEN NoEntities[k] ELSE e[k]]
    BY <1>1, <2>1 DEF Joined
  <2>3. [k \in DOMAIN e |-> IF k \in {} THEN NoEntities[k] ELSE e[k]] = [k \in DOMAIN e |-> e[k]]
    OBVIOUS
  <2> QED
    BY <1>2, <2>2, <2>3
<1>5. ASSUME NEW k \in DOMAIN d
      PROVE  Joined([j \in DOMAIN e \cup {k} |-> IF j = k THEN d[k] ELSE e[j]],
                    Restrict(d, DOMAIN d \ {k})) = Joined(e, d)
  <2> DEFINE m == [j \in DOMAIN e \cup {k} |-> IF j = k THEN d[k] ELSE e[j]]
             l == Restrict(d, DOMAIN d \ {k})
  <2>1. l = [j \in DOMAIN d \ {k} |-> d[j]]
    BY DEF Restrict
  <2>2. DOMAIN l = DOMAIN d \ {k} /\ \A j \in DOMAIN d \ {k} : l[j] = d[j]
    BY <2>1
  <2>3. DOMAIN m = DOMAIN e \cup {k} /\ m[k] = d[k] /\ \A j \in DOMAIN e : j # k => m[j] = e[j]
    OBVIOUS
  <2> HIDE DEF m, l
  <2>4. DOMAIN m \cup DOMAIN l = DOMAIN e \cup DOMAIN d
    BY <2>2, <2>3
  <2>5. \A j \in DOMAIN e \cup DOMAIN d :
           (IF j \in DOMAIN l THEN l[j] ELSE m[j]) = IF j \in DOMAIN d THEN d[j] ELSE e[j]
    BY <2>2, <2>3
  <2>6. Joined(m, l) = [j \in DOMAIN e \cup DOMAIN d |-> IF j \in DOMAIN l THEN l[j] ELSE m[j]]
    BY <2>4 DEF Joined
  <2>7. Joined(e, d) = [j \in DOMAIN e \cup DOMAIN d |-> IF j \in DOMAIN d THEN d[j] ELSE e[j]]
    BY DEF Joined
  <2>8. Joined(m, l) = Joined(e, d)
    BY <2>5, <2>6, <2>7
  <2> QED
    BY <2>8 DEF m, l
<1> QED
  BY <1>3, <1>4, <1>5

(* A rebuild that is alone comes on with each of its statements. *)
LEMMA WorkComes ==
    ASSUME CuratedTypes, CuratedTypes', NEW a \in Writers, Worked(a), AloneCame(a)
    PROVE  AloneCame(a)'
<1> DEFINE r == request[a]
           q == request'[a]
<1>0. /\ catalog' = catalog /\ catalog \in Seq(AnyList)
      /\ r \in Rebuilds /\ r.defs \in Defs /\ r.todo \in UniqueRows /\ r.refs \in SUBSET Wallets
      /\ q \in Rebuilds
  BY RebuildingIs DEF Worked, CuratedTypes
<1>1. CASE KeepsReading(a) /\ UNCHANGED <<assigned, entities>>
  <2>1. \A w \in Wallets : Curated(w)' <=> Curated(w)
    BY <1>1 DEF Curated
  <2>2. CASE q.step = "previous"
    BY <1>0, <1>1, <2>1, <2>2 DEF KeepsReading, AloneCame
  <2>3. CASE q.step = "clear"
    BY <1>0, <1>1, <2>1, <2>3 DEF KeepsReading, AloneCame
  <2> QED
    BY <1>1, <2>2, <2>3 DEF KeepsReading
<1>2. CASE Clears(a) /\ UNCHANGED entities
  <2>1. \A w \in Wallets : assigned'[w] \in {NoKey, Heuristic}
    <3> TAKE w \in Wallets
    <3>1. assigned'[w] = IF Curated(w) THEN NoKey ELSE assigned[w]
      BY <1>2 DEF Clears
    <3> QED
      BY <3>1, CuratedOf
  <2>2. \A w \in Wallets : ~Curated(w)'
    <3>1. ~(NoKey > NoKey) /\ ~(Heuristic > NoKey)
      BY DEF NoKey, Heuristic
    <3> QED
      BY <2>1, <3>1 DEF Curated
  <2> QED
    BY <1>0, <1>2, <2>2 DEF Clears, AloneCame
<1>3. CASE DeletesAll(a) /\ UNCHANGED assigned
  <2>1. q.defs = Definitions(catalog) /\ q.todo = Assignments(catalog) /\ \A w \in Wallets : ~Curated(w)
    BY <1>3 DEF DeletesAll, AloneCame
  <2>2. \A w \in Wallets : ~Curated(w)'
    BY <1>3, <2>1 DEF Curated
  <2>3. RowsLeft(request[a].todo)'
    <3>1. \A w \in Wallets : KeyIn(Assignments(catalog), w) = KeyOf1(catalog, w)
      BY <1>0, AssignmentsAre
    <3> QED
      BY <1>0, <2>1, <2>2, <3>1 DEF RowsLeft
  <2>4. Joined(entities', q.defs) = Definitions(catalog)
    BY <1>0, <1>3, <2>1, NoEntitiesTyped, JoinedBehave DEF DeletesAll
  <2>5. q.step # "entities" => entities' = Definitions(catalog)
    BY <1>3, <2>1 DEF DeletesAll, GoesOn
  <2>6. q.step = "graphs" => q.todo = <<>>
    BY <1>3 DEF DeletesAll, GoesOn
  <2>7. q.step \in {"entities", "assignments", "graphs"}
    BY <1>3 DEF DeletesAll, GoesOn
  <2> QED
    BY <1>0, <2>2, <2>3, <2>4, <2>5, <2>6, <2>7 DEF AloneCame
<1>4. CASE WritesEntity(a) /\ UNCHANGED assigned
  <2>1. PICK k \in DOMAIN r.defs :
              /\ entities' = [j \in DOMAIN entities \cup {k} |-> IF j = k THEN r.defs[k] ELSE entities[j]]
              /\ q.defs = Restrict(r.defs, DOMAIN r.defs \ {k})
    BY <1>4 DEF WritesEntity
  <2>2. r.step = "entities" /\ q.todo = r.todo /\ q.refs = r.refs /\ GoesOn(a)
    BY <1>4 DEF WritesEntity
  <2>3. Joined(entities', q.defs) = Definitions(catalog)
    <3>1. Joined(entities, r.defs) = Definitions(catalog)
      BY <2>2 DEF AloneCame
    <3>2. entities \in Defs
      BY DEF CuratedTypes
    <3>3. Joined([j \in DOMAIN entities \cup {k} |-> IF j = k THEN r.defs[k] ELSE entities[j]],
                 Restrict(r.defs, DOMAIN r.defs \ {k})) = Joined(entities, r.defs)
      BY <1>0, <3>2, JoinedBehave
    <3> QED
      BY <2>1, <3>1, <3>3
  <2>4. \A w \in Wallets : Curated(w)' <=> Curated(w)
    BY <1>4 DEF Curated
  <2>5. RowsLeft(request[a].todo)'
    <3>1. RowsLeft(r.todo)
      BY <2>2 DEF AloneCame
    <3> QED
      BY <1>0, <1>4, <2>2, <2>4, <3>1 DEF RowsLeft
  <2>6. q.step # "entities" => entities' = Definitions(catalog)
    <3>1. ASSUME q.step # "entities" PROVE Joined(entities', q.defs) = entities'
      <4>1. q.defs = NoEntities /\ entities' \in Defs
        BY <2>2, <3>1 DEF GoesOn, CuratedTypes
      <4> QED
        BY <4>1, JoinedBehave
    <3> QED
      BY <2>3, <3>1
  <2>7. q.step = "graphs" => q.todo = <<>>
    BY <2>2 DEF GoesOn
  <2>8. q.step \in {"entities", "assignments", "graphs"}
    BY <2>2 DEF GoesOn
  <2>9. \A w \in Wallets : Curated(w)' => w \in q.refs
    BY <2>2, <2>4 DEF AloneCame
  <2> QED
    BY <1>0, <2>3, <2>5, <2>6, <2>7, <2>8, <2>9 DEF AloneCame
<1>5. CASE WritesAssignment(a) /\ UNCHANGED entities
  <2> DEFINE it == Head(r.todo)
  <2>1. /\ r.step = "assignments" /\ r.todo # <<>> /\ q.todo = Tail(r.todo)
        /\ assigned' = [assigned EXCEPT ![it.wallet] = it.key] /\ q.refs = r.refs \cup {it.wallet}
        /\ q.step \in {"assignments", "graphs"} /\ (q.step = "graphs" => q.todo = <<>>)
    BY <1>5 DEF WritesAssignment
  <2>2. /\ it \in Row /\ KeyIn(r.todo, it.wallet) = it.key /\ it.key \in EntityKeys
        /\ KeyIn(q.todo, it.wallet) = NoKey
        /\ \A w : w # it.wallet => KeyIn(q.todo, w) = KeyIn(r.todo, w)
    BY <1>0, <2>1, RowsBehind
  <2>3. it.wallet \in Wallets /\ it.key > NoKey /\ it.key # NoKey
    <3>1. it.wallet \in Wallets
      BY <2>2 DEF Row
    <3>2. it.key \in Nat /\ it.key # 0
      BY <2>2, KeysAssumption
    <3> QED
      BY <3>1, <3>2 DEF NoKey
  <2>4. RowsLeft(r.todo) /\ entities = Definitions(catalog) /\ \A w \in Wallets : Curated(w) => w \in r.refs
    BY <2>1 DEF AloneCame
  <2> HIDE DEF it
  <2>5. it.key = KeyOf1(catalog, it.wallet)
    BY <2>2, <2>3, <2>4 DEF RowsLeft
  <2>6. /\ assigned'[it.wallet] = it.key
        /\ \A w \in Wallets : w # it.wallet => assigned'[w] = assigned[w]
    BY <2>1, <2>3 DEF CuratedTypes
  <2>7. \A w \in Wallets : IF w = it.wallet THEN Curated(w)' ELSE (Curated(w)' <=> Curated(w))
    <3>1. \A w \in Wallets : Curated(w)' = (assigned'[w] > NoKey) /\ Curated(w) = (assigned[w] > NoKey)
      BY DEF Curated
    <3>2. assigned'[it.wallet] > NoKey
      BY <2>3, <2>6
    <3> QED
      BY <2>6, <3>1, <3>2
  <2>8. RowsLeft(request[a].todo)'
    <3>1. ASSUME NEW w \in Wallets
          PROVE  /\ KeyIn(q.todo, w) \in {NoKey, KeyOf1(catalog, w)}
                 /\ (IF Curated(w)' THEN assigned'[w] ELSE KeyIn(q.todo, w)) = KeyOf1(catalog, w)
      <4>1. CASE w = it.wallet
        <5>1. KeyIn(q.todo, w) = NoKey /\ assigned'[w] = KeyOf1(catalog, w) /\ Curated(w)'
          BY <2>2, <2>5, <2>6, <2>7, <4>1
        <5> QED
          BY <5>1
      <4>2. CASE w # it.wallet
        BY <2>2, <2>4, <2>6, <2>7, <4>2 DEF RowsLeft
      <4> QED
        BY <4>1, <4>2
    <3> QED
      BY <1>0, <3>1 DEF RowsLeft
  <2>9. \A w \in Wallets : Curated(w)' => w \in q.refs
    BY <2>1, <2>4, <2>7
  <2> QED
    BY <1>0, <1>5, <2>1, <2>4, <2>8, <2>9 DEF AloneCame
<1> QED
  BY <1>1, <1>2, <1>3, <1>4, <1>5 DEF Worked

(* What the tables hold depends on them and on the lists alone. *)
LEMMA HintsKeep ==
    ASSUME CuratedTypes, NEW w \in Wallets, Hint(w)
    PROVE  /\ \A v \in Wallets : (Curated(v)' <=> Curated(v)) /\ (Curated(v) => assigned'[v] = assigned[v])
           /\ RowsLeft(<<>>) => RowsLeft(<<>>)'
<1>1. \A v \in Wallets : (Curated(v)' <=> Curated(v)) /\ (Curated(v) => assigned'[v] = assigned[v])
  BY HintTyped
<1>2. catalog' = catalog
  BY DEF Hint
<1> QED
  BY <1>1, <1>2 DEF RowsLeft

(* A rebuild that is alone has come as far as its step says, whatever the others do. *)
LEMMA RebuildsComeKept ==
    ASSUME CuratedTypes, CuratedTypes', AloneIsSo, RebuildsCome, CuratedMoves PROVE RebuildsCome'
<1>1. ASSUME NEW a \in Writers, Disturbed(a) PROVE RebuildsCome'
  <2>1. ASSUME NEW b \in Writers, Rebuilding(b)', request'[b].alone PROVE AloneCame(b)'
    <3>1. b = a
      BY <1>1, <2>1, OthersDisturbed
    <3>2. request'[b].step = "items"
      BY <1>1, <2>1, <3>1, RebuildingMoves
    <3> QED
      BY <3>2 DEF AloneCame
  <2> QED
    BY <2>1 DEF RebuildsCome
<1>2. ASSUME NEW a \in Writers, Waited(a) \/ RebuildEnded(a) \/ Stopped(a) PROVE RebuildsCome'
  <2>1. catalog' = catalog /\ entities' = entities /\ assigned' = assigned
    BY <1>2 DEF Waited, RebuildEnded, Stopped, index
  <2>2. ASSUME NEW b \in Writers, Rebuilding(b)', request'[b].alone PROVE AloneCame(b)'
    <3>1. b # a
      BY <1>2, <2>2, RebuildingMoves
    <3>2. request'[b] = request[b] /\ Rebuilding(b)
      BY <1>2, <2>2, <3>1, RebuildingMoves
    <3>3. AloneCame(b)
      BY <2>2, <3>2 DEF RebuildsCome
    <3>4. \A w \in Wallets : (Curated(w)' <=> Curated(w)) /\ (Curated(w) => assigned'[w] = assigned[w])
      BY <2>1 DEF Curated
    <3> QED
      BY <2>1, <3>2, <3>3, <3>4, AloneCameStays
  <2> QED
    BY <2>2 DEF RebuildsCome
<1>3. ASSUME NEW a \in Writers, Worked(a) PROVE RebuildsCome'
  <2>1. Rebuilding(a) /\ request'[a].alone = request[a].alone
    BY <1>3, RebuildingMoves
  <2>2. ASSUME NEW b \in Writers, Rebuilding(b)', request'[b].alone PROVE AloneCame(b)'
    <3>1. CASE b = a
      <4>1. AloneCame(a)
        BY <2>1, <2>2, <3>1 DEF RebuildsCome
      <4> QED
        BY <1>3, <3>1, <4>1, WorkComes
    <3>2. CASE b # a
      <4>1. request'[b] = request[b] /\ Rebuilding(b)
        BY <1>3, <2>2, <3>2, RebuildingMoves
      <4> QED
        BY <2>1, <2>2, <3>2, <4>1 DEF AloneIsSo
    <3> QED
      BY <3>1, <3>2
  <2> QED
    BY <2>2 DEF RebuildsCome
<1>4. CASE Besides \/ UNCHANGED curatedVars
  <2>1. request' = request /\ catalog' = catalog /\ entities' = entities /\ \A b : Rebuilding(b)' <=> Rebuilding(b)
    BY <1>4, RequestsStay
  <2>2. \A w \in Wallets : (Curated(w)' <=> Curated(w)) /\ (Curated(w) => assigned'[w] = assigned[w])
    <3>1. CASE \E w \in Wallets : Hint(w)
      BY <3>1, HintsKeep
    <3>2. CASE GraphStep \/ UNCHANGED curatedVars
      <4>1. assigned' = assigned
        BY <3>2, GraphStepsAre DEF curatedVars, index
      <4> QED
        BY <4>1 DEF Curated
    <3> QED
      BY <1>4, <3>1, <3>2 DEF Besides
  <2> QED
    BY <2>1, <2>2, AloneCameStays DEF RebuildsCome
<1> QED
  BY <1>1, <1>2, <1>3, <1>4 DEF CuratedMoves

(* The tables are trusted only when they are as the lists. *)
LEMMA TrustKept ==
    ASSUME CuratedTypes, AloneIsSo, RebuildsCome, TrustIsSo, CuratedMoves PROVE TrustIsSo'
<1>1. ASSUME NEW a \in Writers, Disturbed(a) PROVE TrustIsSo'
  BY <1>1 DEF Disturbed, TrustIsSo
<1>2. ASSUME NEW a \in Writers, Waited(a) \/ Stopped(a) PROVE TrustIsSo'
  <2>1. catalog' = catalog /\ entities' = entities /\ assigned' = assigned /\ trusted' = trusted
    BY <1>2 DEF Waited, Stopped, index, ghosts
  <2>2. RowsLeft(<<>>) => RowsLeft(<<>>)'
    BY <2>1 DEF RowsLeft, Curated
  <2>3. \A b \in Writers : Rebuilding(b)' => Rebuilding(b)
    BY <1>2, RebuildingMoves
  <2> QED
    BY <2>1, <2>2, <2>3 DEF TrustIsSo
<1>3. ASSUME NEW a \in Writers, Worked(a) PROVE TrustIsSo'
  <2>1. Rebuilding(a) /\ trusted' = trusted
    BY <1>3 DEF Worked, ghosts
  <2> QED
    BY <2>1 DEF TrustIsSo
<1>4. ASSUME NEW a \in Writers, RebuildEnded(a) PROVE TrustIsSo'
  <2>1. /\ catalog' = catalog /\ entities' = entities /\ assigned' = assigned
        /\ trusted' = request[a].alone /\ request[a].step = "graphs" /\ Rebuilding(a)
    BY <1>4 DEF RebuildEnded
  <2>2. ASSUME request[a].alone
        PROVE  /\ \A b \in Writers : ~Rebuilding(b)'
               /\ entities = Definitions(catalog) /\ RowsLeft(<<>>)
    <3>1. AloneCame(a)
      BY <2>1, <2>2 DEF RebuildsCome
    <3>2. \A b \in Writers : b # a => ~Rebuilding(b)
      BY <2>1, <2>2 DEF AloneIsSo
    <3>3. \A b \in Writers : ~Rebuilding(b)'
      BY <1>4, <3>2, RebuildingMoves
    <3> QED
      BY <2>1, <3>1, <3>3 DEF AloneCame
  <2>3. RowsLeft(<<>>) => RowsLeft(<<>>)'
    BY <2>1 DEF RowsLeft, Curated
  <2> QED
    BY <2>1, <2>2, <2>3 DEF TrustIsSo
<1>5. CASE Besides \/ UNCHANGED curatedVars
  <2>1. /\ catalog' = catalog /\ entities' = entities /\ trusted' = trusted
        /\ \A b : Rebuilding(b)' <=> Rebuilding(b)
    BY <1>5, RequestsStay
  <2>2. RowsLeft(<<>>) => RowsLeft(<<>>)'
    <3>1. CASE \E w \in Wallets : Hint(w)
      BY <3>1, HintsKeep
    <3>2. CASE GraphStep \/ UNCHANGED curatedVars
      <4>1. assigned' = assigned
        BY <3>2, GraphStepsAre DEF curatedVars, index
      <4> QED
        BY <2>1, <4>1 DEF RowsLeft, Curated
    <3> QED
      BY <1>5, <3>1, <3>2 DEF Besides
  <2> QED
    BY <2>1, <2>2 DEF TrustIsSo
<1> QED
  BY <1>1, <1>2, <1>3, <1>4, <1>5 DEF CuratedMoves

(* What a wallet's graph would show depends on its row, and on the entities if it is curated. *)
LEMMA ShowsStays ==
    ASSUME CuratedTypes, CuratedTypes', NEW w \in Wallets, assigned'[w] = assigned[w],
           entities' = entities \/ ~Curated(w)
    PROVE  Shows(w)' = Shows(w)
<1>0. ASSUME ~Curated(w) PROVE assigned[w] \notin DOMAIN entities /\ assigned[w] \notin DOMAIN entities'
  <2>1. assigned[w] \notin EntityKeys
    BY <1>0, CuratedOf
  <2> QED
    BY <2>1, DefsAre DEF CuratedTypes
<1>1. Curated(w)' <=> Curated(w)
  BY DEF Curated
<1>2. CASE ~Curated(w)
  <2>1. Shows(w) = [key |-> assigned[w], type |-> "none"]
    BY <1>0, <1>2 DEF Shows
  <2>2. Shows(w)' = [key |-> assigned'[w], type |-> "none"]
    BY <1>0, <1>1, <1>2 DEF Shows
  <2> QED
    BY <2>1, <2>2
<1>3. CASE Curated(w)
  BY <1>1, <1>3 DEF Shows
<1> QED
  BY <1>2, <1>3

(* A wallet's graphs are as before, and so is what its readers have in hand. *)
SameGraphs(w) ==
    /\ cached'[<<w, 1>>] = cached[<<w, 1>>] /\ snapped'[w] = snapped[w]
    /\ w \in overtaken => w \in overtaken'
    /\ \A g \in Readers :
          reader'[g] # NoRead /\ reader'[g].wallet = w /\ ~reader'[g].late => reader'[g] = reader[g]

(* Where the graphs do not change, none does. *)
LEMMA GraphsSame == ASSUME UNCHANGED graphs, NEW w PROVE SameGraphs(w)
BY DEF graphs, SameGraphs

(* A graph shown as the tables are stays so when neither changes for its wallet. *)
LEMMA ShownStays ==
    ASSUME CuratedTypes, CuratedTypes', NEW w \in Wallets, assigned'[w] = assigned[w],
           entities' = entities \/ ~Curated(w), SameGraphs(w), ShownRight(w)
    PROVE  ShownOrDropped(w)'
<1>1. Shows(w)' = Shows(w)
  BY ShowsStays
<1>2. cached'[<<w, 1>>] \in {NoGraph, Shows(w)'} /\ snapped'[w] \in {NoGraph, Shows(w)'}
  BY <1>1 DEF SameGraphs, ShownRight
<1>3. ASSUME NEW g \in Readers, reader'[g] # NoRead, reader'[g].wallet = w, ~reader'[g].late
      PROVE  reader'[g].graph \in {NoGraph, Shows(w)'}
  <2>1. reader'[g] = reader[g]
    BY <1>3 DEF SameGraphs
  <2> QED
    BY <1>1, <1>3, <2>1 DEF ShownRight
<1> QED
  BY <1>2, <1>3 DEF ShownOrDropped, ShownRight

(* Where one rebuilds alone, the graphs shown otherwise are among those it will drop. *)
LEMMA DroppedAlone ==
    ASSUME AloneIsSo, NEW a \in Writers, Rebuilding(a), request[a].alone, NEW w, ShownOrDropped(w)
    PROVE  \/ ShownRight(w)
           \/ request[a].step \notin {"items", "previous"} /\ w \in request[a].refs
BY DEF AloneIsSo, ShownOrDropped

(* A statement of a rebuild that is alone changes what a graph would show only for wallets
   whose graphs it will drop. *)
LEMMA WorkDrops ==
    ASSUME CuratedTypes, CuratedTypes', AloneIsSo, NEW a \in Writers, Worked(a), request[a].alone,
           AloneCame(a), AloneCame(a)', NEW w \in Wallets, ShownOrDropped(w)
    PROVE  ShownOrDropped(w)'
<1>1. Rebuilding(a) /\ Rebuilding(a)' /\ UNCHANGED graphs
  BY RebuildingMoves DEF Worked
<1>2. \/ ShownRight(w)
      \/ request[a].step \notin {"items", "previous"} /\ w \in request[a].refs
  BY <1>1, DroppedAlone
<1>3. CASE KeepsReading(a) /\ UNCHANGED <<assigned, entities>>
  <2>1. request[a].step \in {"items", "previous"}
    BY <1>3 DEF KeepsReading
  <2>2. ShownRight(w)
    BY <1>2, <2>1
  <2> QED
    BY <1>1, <1>3, <2>2, ShownStays, GraphsSame
<1>4. CASE /\ request'[a].step \notin {"items", "previous"} /\ request[a].refs \subseteq request'[a].refs
           /\ request[a].step \notin {"items", "previous"}
           /\ w \notin request'[a].refs /\ ~Curated(w) => assigned'[w] = assigned[w]
  <2>1. CASE w \in request'[a].refs
    BY <1>1, <1>4, <2>1 DEF ShownOrDropped
  <2>2. CASE w \notin request'[a].refs
    <3>1. w \notin request[a].refs
      BY <1>4, <2>2
    <3>2. ~Curated(w) /\ ShownRight(w)
      BY <1>2, <1>4, <3>1 DEF AloneCame
    <3> QED
      BY <1>1, <1>4, <2>2, <3>2, ShownStays, GraphsSame
  <2> QED
    BY <2>1, <2>2
<1>5. CASE Clears(a)
  <2>1. ~Curated(w) => assigned'[w] = assigned[w]
    BY <1>5 DEF Clears
  <2>2. /\ request'[a].step \notin {"items", "previous"} /\ request[a].refs \subseteq request'[a].refs
        /\ request[a].step \notin {"items", "previous"}
    BY <1>5 DEF Clears
  <2> QED
    BY <1>4, <2>1, <2>2
<1>6. CASE (DeletesAll(a) \/ WritesEntity(a)) /\ UNCHANGED assigned
  <2>1. /\ request'[a].step \notin {"items", "previous"} /\ request[a].refs \subseteq request'[a].refs
        /\ request[a].step \notin {"items", "previous"}
    BY <1>6 DEF DeletesAll, WritesEntity, GoesOn
  <2> QED
    BY <1>4, <1>6, <2>1
<1>7. CASE WritesAssignment(a)
  <2> DEFINE it == Head(request[a].todo)
  <2>1. /\ assigned' = [assigned EXCEPT ![it.wallet] = it.key]
        /\ request'[a].refs = request[a].refs \cup {it.wallet}
        /\ request[a].step = "assignments" /\ request'[a].step \in {"assignments", "graphs"}
    BY <1>7 DEF WritesAssignment
  <2> HIDE DEF it
  <2>2. w \notin request'[a].refs => assigned'[w] = assigned[w]
    BY <2>1 DEF CuratedTypes
  <2> QED
    BY <1>4, <2>1, <2>2
<1> QED
  BY <1>3, <1>5, <1>6, <1>7 DEF Worked

(* A drop leaves nothing of a wallet's graph to one hop, and overtakes its readers; the other
   wallets' graphs stay. *)
LEMMA DropShows ==
    ASSUME CachedTypes, NEW ws, Drop(ws), NEW w \in Wallets
    PROVE  /\ w \in ws => ShownRight(w)'
           /\ w \notin ws => SameGraphs(w)
<1>1. <<w, 1>> \in Wallets \X Hops /\ <<w, 1>>[1] = w /\ <<w, 1>>[2] = 1
  BY DEF Hops
<1>2. \A g \in Readers :
         /\ reader[g] # NoRead /\ reader[g].wallet \in ws => reader'[g].late
         /\ ~(reader[g] # NoRead /\ reader[g].wallet \in ws) => reader'[g] = reader[g]
         /\ reader[g] # NoRead => reader'[g].wallet = reader[g].wallet
  <2> TAKE g \in Readers
  <2>1. IsRead(reader[g])
    BY DEF CachedTypes
  <2>2. reader'[g] = IF reader[g] # NoRead /\ reader[g].wallet \in ws
                     THEN [reader[g] EXCEPT !.late = TRUE] ELSE reader[g]
    BY DEF Drop
  <2>3. [reader[g] EXCEPT !.late = TRUE].late /\ [reader[g] EXCEPT !.late = TRUE].wallet = reader[g].wallet
    BY <2>1 DEF IsRead
  <2> QED
    BY <2>2, <2>3
<1>3. /\ cached'[<<w, 1>>] = IF w \in ws THEN NoGraph ELSE cached[<<w, 1>>]
      /\ snapped'[w] = IF w \in ws THEN NoGraph ELSE snapped[w]
      /\ overtaken' = overtaken \ ws
  BY <1>1 DEF Drop
<1>4. ASSUME w \in ws PROVE ShownRight(w)'
  BY <1>2, <1>3, <1>4 DEF ShownRight
<1>5. ASSUME w \notin ws PROVE SameGraphs(w)
  BY <1>2, <1>3, <1>5 DEF SameGraphs
<1> QED
  BY <1>4, <1>5

(* A reader takes the snapshot of the graph, or the graph as the tables are. *)
LEMMA ReadShows ==
    ASSUME CachedTypes, NEW g \in Readers, NEW v \in Wallets, NEW h \in Hops, ReadGraph(g, v, h),
           NEW w \in Wallets
    PROVE  /\ overtaken' = overtaken
           /\ ShownRight(w) /\ Shows(w)' = Shows(w) => ShownRight(w)'
<1> SUFFICES ASSUME ShownRight(w), Shows(w)' = Shows(w) PROVE ShownRight(w)'
  BY DEF ReadGraph
<1> DEFINE loads == snapped[v] = NoGraph
           got == [wallet |-> v, hops |-> h, graph |-> IF loads THEN Shows(v) ELSE snapped[v],
                   loaded |-> loads, late |-> FALSE]
<1>1. cached' = cached /\ snapped' = snapped /\ reader' = [reader EXCEPT ![g] = got]
  BY DEF ReadGraph
<1>2. got.wallet = v /\ got.graph \in {Shows(v), snapped[v]}
  OBVIOUS
<1> HIDE DEF got, loads
<1>3. reader'[g] = got /\ \A f \in Readers \ {g} : reader'[f] = reader[f]
  BY <1>1 DEF CachedTypes
<1>4. w = v => got.graph \in {NoGraph, Shows(w)}
  BY <1>2 DEF ShownRight
<1>5. \A f \in Readers : reader'[f] # NoRead /\ reader'[f].wallet = w /\ ~reader'[f].late
         => reader'[f].graph \in {NoGraph, Shows(w)}
  BY <1>2, <1>3, <1>4 DEF ShownRight
<1>6. cached'[<<w, 1>>] \in {NoGraph, Shows(w)'} /\ snapped'[w] \in {NoGraph, Shows(w)'}
  BY <1>1 DEF ShownRight
<1> QED
  BY <1>5, <1>6 DEF ShownRight

(* A reader stores a graph as the tables are, or has been overtaken. *)
LEMMA StoreShows ==
    ASSUME CachedTypes, NEW g \in Readers, StoreGraph(g), NEW w \in Wallets, w \notin overtaken'
    PROVE  /\ w \notin overtaken
           /\ ShownRight(w) /\ Shows(w)' = Shows(w) => ShownRight(w)'
<1> PICK got : got = reader[g]
  OBVIOUS
<1>1. /\ got # NoRead /\ cached' = [cached EXCEPT ![<<got.wallet, got.hops>>] = got.graph]
      /\ snapped' = IF got.loaded THEN [snapped EXCEPT ![got.wallet] = got.graph] ELSE snapped
      /\ overtaken' = IF got.late /\ (got.loaded \/ got.hops = 1)
                      THEN overtaken \cup {got.wallet} ELSE overtaken
      /\ reader' = [reader EXCEPT ![g] = NoRead]
  BY DEF StoreGraph
<1>2. got.wallet \in Wallets /\ got.hops \in Hops
  BY <1>1 DEF CachedTypes
<1>3. w \notin overtaken
  BY <1>1
<1> SUFFICES ASSUME ShownRight(w), Shows(w)' = Shows(w) PROVE ShownRight(w)'
  BY <1>3
<1>4. w = got.wallet => \/ got.graph \in {NoGraph, Shows(w)}
                        \/ ~got.loaded /\ got.hops # 1
  BY <1>1 DEF ShownRight
<1>5. cached'[<<w, 1>>] = IF w = got.wallet /\ got.hops = 1 THEN got.graph ELSE cached[<<w, 1>>]
  <2>1. <<w, 1>> \in Wallets \X Hops
    BY DEF Hops
  <2>2. <<w, 1>> = <<got.wallet, got.hops>> <=> w = got.wallet /\ got.hops = 1
    OBVIOUS
  <2>3. cached = [e \in Wallets \X Hops |-> cached[e]]
    BY DEF CachedTypes
  <2> QED
    BY <1>1, <2>1, <2>2, <2>3
<1>6. snapped'[w] = IF w = got.wallet /\ got.loaded THEN got.graph ELSE snapped[w]
  BY <1>1 DEF CachedTypes
<1>7. \A f \in Readers : reader'[f] = IF f = g THEN NoRead ELSE reader[f]
  BY <1>1 DEF CachedTypes
<1>8. cached'[<<w, 1>>] \in {NoGraph, Shows(w)} /\ snapped'[w] \in {NoGraph, Shows(w)}
  BY <1>4, <1>5, <1>6 DEF ShownRight
<1>9. \A f \in Readers : reader'[f] # NoRead /\ reader'[f].wallet = w /\ ~reader'[f].late
         => reader'[f].graph \in {NoGraph, Shows(w)}
  BY <1>7 DEF ShownRight
<1> QED
  BY <1>8, <1>9 DEF ShownRight

(* Without failures and meetings every graph is shown as the tables are, or will be dropped. *)
LEMMA GraphsKept ==
    ASSUME CuratedTypes, CuratedTypes', AloneIsSo, MetIsSo, RebuildsCome, RebuildsCome', GraphsFollow, CuratedMoves
    PROVE  GraphsFollow'
<1> SUFFICES ASSUME failed' = 0, ~everMet', NEW w \in Wallets \ (hinting' \cup overtaken') PROVE ShownOrDropped(w)'
  BY DEF GraphsFollow
<1>0. failed \in Nat /\ CachedTypes /\ (failed' = failed => failed = 0)
  BY DEF CuratedTypes
<1>o. ASSUME UNCHANGED graphs PROVE w \notin overtaken /\ SameGraphs(w)
  BY <1>o, GraphsSame DEF graphs
<1>1. ASSUME NEW a \in Writers, Disturbed(a) PROVE ShownOrDropped(w)'
  <2>1. /\ ~everMet /\ ~Rebuilding(a) /\ \A b \in Writers \ {a} : ~Rebuilding(b)
        /\ assigned' = assigned /\ entities' = entities /\ UNCHANGED graphs
        /\ failed' = failed /\ hinting' = hinting
    BY <1>1 DEF Disturbed, index
  <2>2. ShownOrDropped(w)
    BY <1>o, <2>1 DEF GraphsFollow
  <2>3. ShownRight(w)
    BY <2>1, <2>2 DEF ShownOrDropped
  <2> QED
    BY <2>1, <2>3, ShownStays, GraphsSame
<1>2. ASSUME NEW a \in Writers, Waited(a) PROVE ShownOrDropped(w)'
  <2>1. /\ everMet' = everMet /\ assigned' = assigned /\ entities' = entities /\ UNCHANGED graphs
        /\ failed' = failed /\ hinting' = hinting /\ ~Rebuilding(a)
    BY <1>2 DEF Waited, index, ghosts
  <2>2. ShownOrDropped(w)
    BY <1>o, <2>1 DEF GraphsFollow
  <2>3. CASE ShownRight(w)
    BY <2>1, <2>3, ShownStays, GraphsSame
  <2>4. ASSUME NEW b \in Writers, Rebuilding(b), request[b].step \notin {"items", "previous"},
               w \in request[b].refs
        PROVE  ShownOrDropped(w)'
    <3>1. request'[b] = request[b] /\ Rebuilding(b)'
      BY <1>2, <2>1, <2>4, RebuildingMoves
    <3> QED
      BY <2>4, <3>1 DEF ShownOrDropped
  <2> QED
    BY <2>2, <2>3, <2>4 DEF ShownOrDropped
<1>3. ASSUME NEW a \in Writers, Worked(a) PROVE ShownOrDropped(w)'
  <2>1. everMet' = everMet /\ failed' = failed /\ hinting' = hinting /\ UNCHANGED graphs
    BY <1>3 DEF Worked, counts, ghosts
  <2>2. Rebuilding(a) /\ Rebuilding(a)' /\ request'[a].alone = request[a].alone
    BY <1>3, RebuildingMoves
  <2>3. request[a].alone /\ request'[a].alone /\ ShownOrDropped(w)
    BY <1>o, <2>1, <2>2 DEF MetIsSo, GraphsFollow
  <2>4. AloneCame(a) /\ AloneCame(a)'
    BY <2>2, <2>3 DEF RebuildsCome
  <2> QED
    BY <1>3, <2>3, <2>4, WorkDrops
<1>4. ASSUME NEW a \in Writers, RebuildEnded(a) PROVE ShownOrDropped(w)'
  <2>1. /\ everMet' = everMet /\ assigned' = assigned /\ entities' = entities
        /\ failed' = failed /\ hinting' = hinting /\ Rebuilding(a) /\ Drop(request[a].refs)
    BY <1>4 DEF RebuildEnded
  <2>2. CASE w \in request[a].refs
    BY <1>0, <2>1, <2>2, DropShows DEF ShownOrDropped
  <2>3. CASE w \notin request[a].refs
    <3>1. SameGraphs(w) /\ w \notin overtaken
      BY <1>0, <2>1, <2>3, DropShows DEF SameGraphs
    <3>2. request[a].alone /\ ShownOrDropped(w)
      BY <2>1, <3>1 DEF MetIsSo, GraphsFollow
    <3>3. ShownRight(w)
      BY <2>1, <2>3, <3>2, DroppedAlone
    <3> QED
      BY <2>1, <3>1, <3>3, ShownStays
  <2> QED
    BY <2>2, <2>3
<1>5. ASSUME NEW a \in Writers, Stopped(a) PROVE ShownOrDropped(w)'
  BY <1>0, <1>5 DEF Stopped
<1>6. ASSUME UNCHANGED <<request, everMet, failed>>, w \notin hinting, SameGraphs(w),
             assigned'[w] = assigned[w], entities' = entities
      PROVE  ShownOrDropped(w)'
  <2>1. ShownOrDropped(w) /\ request' = request /\ \A b \in Writers : Rebuilding(b)' <=> Rebuilding(b)
    BY <1>6 DEF GraphsFollow, Rebuilding, SameGraphs
  <2>2. CASE ShownRight(w)
    BY <1>6, <2>2, ShownStays
  <2>3. CASE ~ShownRight(w)
    BY <2>1, <2>3 DEF ShownOrDropped
  <2> QED
    BY <2>2, <2>3
<1>7. ASSUME NEW v \in Wallets, Hint(v) PROVE ShownOrDropped(w)'
  <2>1. w # v /\ w \notin hinting /\ UNCHANGED graphs /\ entities' = entities /\ UNCHANGED <<request, everMet, failed>>
    BY <1>7 DEF Hint, ghosts
  <2>2. assigned'[w] = assigned[w]
    BY <1>7, <2>1, HintTyped
  <2> QED
    BY <1>6, <1>o, <2>1, <2>2
<1>8. ASSUME NEW v \in Wallets, HintInvalidates(v) PROVE ShownOrDropped(w)'
  <2>1. /\ assigned' = assigned /\ entities' = entities /\ UNCHANGED <<request, everMet, failed>>
        /\ Drop({v}) /\ hinting' = hinting \ {v}
    BY <1>8 DEF HintInvalidates, ghosts, counts
  <2>2. CASE w = v
    BY <1>0, <2>1, <2>2, DropShows DEF ShownOrDropped
  <2>3. CASE w # v
    <3>1. SameGraphs(w) /\ w \notin hinting
      BY <1>0, <2>1, <2>3, DropShows
    <3> QED
      BY <1>6, <2>1, <3>1
  <2> QED
    BY <2>2, <2>3
<1>9. ASSUME NEW g \in Readers, StoreGraph(g) \/ \E v \in Wallets, h \in Hops : ReadGraph(g, v, h)
      PROVE  ShownOrDropped(w)'
  <2>1. /\ assigned' = assigned /\ entities' = entities /\ UNCHANGED <<request, everMet, failed>>
        /\ hinting' = hinting
    BY <1>9 DEF StoreGraph, ReadGraph, ghosts, counts
  <2>2. w \notin overtaken /\ (ShownRight(w) /\ Shows(w)' = Shows(w) => ShownRight(w)')
    BY <1>0, <1>9, ReadShows, StoreShows
  <2>3. ShownOrDropped(w)
    BY <2>1, <2>2 DEF GraphsFollow
  <2>4. Shows(w)' = Shows(w)
    BY <2>1, ShowsStays
  <2>5. request' = request /\ \A b \in Writers : Rebuilding(b)' <=> Rebuilding(b)
    BY <2>1 DEF Rebuilding
  <2> QED
    BY <2>2, <2>3, <2>4, <2>5 DEF ShownOrDropped
<1>10. CASE UNCHANGED curatedVars
  <2>1. UNCHANGED <<request, everMet, failed>> /\ hinting' = hinting /\ UNCHANGED graphs
        /\ assigned' = assigned /\ entities' = entities
    BY <1>10 DEF curatedVars, index, counts, ghosts
  <2> QED
    BY <1>6, <1>o, <2>1
<1> QED
  BY <1>1, <1>2, <1>3, <1>4, <1>5, <1>7, <1>8, <1>9, <1>10 DEF CuratedMoves, Besides, GraphStep

(* The admins who rebuild are some of the admins, and of those alone the mover may come or go. *)
LEMMA AdminsMove ==
    ASSUME NEW a, \A b \in Writers \ {a} : Rebuilding(b)' <=> Rebuilding(b)
    PROVE  /\ IsFiniteSet(RebuildingAdmins) /\ IsFiniteSet(RebuildingAdmins')
           /\ Cardinality(RebuildingAdmins) \in Nat /\ Cardinality(RebuildingAdmins') \in Nat
           /\ \/ RebuildingAdmins' = RebuildingAdmins
                 /\ (a \in RebuildingAdmins <=> a \in RebuildingAdmins')
              \/ /\ a \notin RebuildingAdmins /\ a \in RebuildingAdmins'
                 /\ Cardinality(RebuildingAdmins') = Cardinality(RebuildingAdmins) + 1
              \/ /\ a \in RebuildingAdmins /\ a \notin RebuildingAdmins'
                 /\ Cardinality(RebuildingAdmins) = Cardinality(RebuildingAdmins') + 1
<1> DEFINE S == RebuildingAdmins
           T == RebuildingAdmins'
<1>1. IsFiniteSet(Admins)
  BY KeysAssumption
<1>2. S \subseteq Admins /\ T \subseteq Admins
  BY DEF RebuildingAdmins
<1>3. IsFiniteSet(S) /\ IsFiniteSet(T)
  <2> HIDE DEF S, T
  <2> QED
    BY <1>1, <1>2, FS_Subset
<1>4. \A b : b # a => (b \in S <=> b \in T)
  BY DEF RebuildingAdmins
<1> HIDE DEF S, T
<1>5. Cardinality(S) \in Nat /\ Cardinality(T) \in Nat
  BY <1>3, FS_CardinalityType
<1>6. CASE a \in S <=> a \in T
  <2>1. S = T
    BY <1>4, <1>6
  <2> QED
    BY <1>3, <1>5, <1>6, <2>1 DEF S, T
<1>7. CASE a \notin S /\ a \in T
  <2>1. T = S \cup {a}
    BY <1>4, <1>7
  <2>2. Cardinality(T) = Cardinality(S) + 1
    BY <1>3, <1>7, <2>1, OneMore
  <2> QED
    BY <1>3, <1>5, <1>7, <2>2 DEF S, T
<1>8. CASE a \in S /\ a \notin T
  <2>1. S = T \cup {a}
    BY <1>4, <1>8
  <2>2. Cardinality(S) = Cardinality(T) + 1
    BY <1>3, <1>8, <2>1, OneMore
  <2> QED
    BY <1>3, <1>5, <1>8, <2>2 DEF S, T
<1> QED
  BY <1>6, <1>7, <1>8

(* Every change of an admin is in the audit log, or being rebuilt for, or was followed by a
   failure. *)
LEMMA ChangesCounted == ASSUME CuratedTypes, ChangesCount, CuratedMoves PROVE ChangesCount'
<1> DEFINE m == Cardinality(RebuildingAdmins)
           n == Cardinality(RebuildingAdmins')
<1>0. changes \in Nat /\ auditLog \in Nat /\ failed \in Nat /\ changes <= auditLog + failed + m
  BY DEF CuratedTypes, ChangesCount
<1>q. ChangesCount' <=> changes' <= auditLog' + failed' + n
  BY DEF ChangesCount
<1> HIDE DEF m, n
<1>1. ASSUME NEW a \in Writers, Disturbed(a) PROVE changes' <= auditLog' + failed' + n
  <2>1. \A b \in Writers \ {a} : Rebuilding(b)' <=> Rebuilding(b)
    BY <1>1, OthersDisturbed
  <2>2. /\ ~Rebuilding(a) /\ auditLog' = auditLog /\ failed' = failed
        /\ changes' = changes \/ (changes' = changes + 1 /\ a \in Admins /\ request'[a] = Rebuild(a))
    BY <1>1 DEF Disturbed
  <2>3. a \notin RebuildingAdmins
    BY <2>2 DEF RebuildingAdmins
  <2>4. changes' = changes + 1 => a \in RebuildingAdmins'
    <3>1. changes' = changes + 1 => a \in Admins /\ request'[a] = Rebuild(a)
      BY <1>0, <2>2
    <3> QED
      BY <1>1, <3>1, RebuildingMoves DEF RebuildingAdmins
  <2>5. m \in Nat /\ n \in Nat /\ ((n = m /\ a \notin RebuildingAdmins') \/ n = m + 1)
    BY <2>1, <2>3, AdminsMove DEF m, n
  <2>6. changes' = changes \/ changes' = changes + 1
    BY <2>2
  <2>7. changes' = changes + 1 => n = m + 1
    BY <2>4, <2>5
  <2> QED
    BY <1>0, <2>2, <2>5, <2>6, <2>7
<1>2. ASSUME NEW a \in Writers, Waited(a) \/ Worked(a) PROVE changes' <= auditLog' + failed' + n
  <2>1. changes' = changes /\ auditLog' = auditLog /\ failed' = failed
    BY <1>2 DEF Waited, Worked, counts
  <2>2. \A b \in Writers : Rebuilding(b)' <=> Rebuilding(b)
    BY <1>2, RebuildingMoves DEF Waited
  <2>3. n = m
    BY <2>2 DEF RebuildingAdmins, m, n
  <2> QED
    BY <1>0, <2>1, <2>3
<1>3. ASSUME NEW a \in Writers, RebuildEnded(a) PROVE changes' <= auditLog' + failed' + n
  <2>1. /\ changes' = changes /\ failed' = failed
        /\ auditLog' = (IF a \in Admins THEN auditLog + 1 ELSE auditLog)
    BY <1>3 DEF RebuildEnded
  <2>2. \A b \in Writers \ {a} : Rebuilding(b)' <=> Rebuilding(b)
    BY <1>3, RebuildingMoves
  <2>3. a \notin RebuildingAdmins' /\ (a \in RebuildingAdmins => a \in Admins)
    BY <1>3, RebuildingMoves DEF RebuildingAdmins
  <2>4. m \in Nat /\ n \in Nat /\ (n = m \/ (m = n + 1 /\ a \in Admins))
    BY <2>2, <2>3, AdminsMove DEF m, n
  <2>5. (auditLog' = auditLog + 1 /\ a \in Admins) \/ (auditLog' = auditLog /\ a \notin Admins)
    BY <2>1
  <2> QED
    BY <1>0, <2>1, <2>4, <2>5
<1>4. ASSUME NEW a \in Writers, Stopped(a) PROVE changes' <= auditLog' + failed' + n
  <2>1. changes' = changes /\ failed' = failed + 1 /\ auditLog' = auditLog
    BY <1>4 DEF Stopped
  <2>2. \A b \in Writers \ {a} : Rebuilding(b)' <=> Rebuilding(b)
    BY <1>4, RebuildingMoves
  <2>4. m \in Nat /\ n \in Nat /\ (n = m \/ m = n + 1 \/ n = m + 1)
    BY <2>2, AdminsMove DEF m, n
  <2> QED
    BY <1>0, <2>1, <2>4
<1>5. CASE Besides \/ UNCHANGED curatedVars
  <2>1. /\ changes' = changes /\ auditLog' = auditLog /\ failed' = failed
        /\ \A b : Rebuilding(b)' <=> Rebuilding(b)
    BY <1>5, RequestsStay
  <2>2. n = m
    <3>1. RebuildingAdmins' = RebuildingAdmins
      BY <2>1 DEF RebuildingAdmins
    <3> QED
      BY <3>1 DEF m, n
  <2>3. m \in Nat
    BY <2>1, AdminsMove DEF m
  <2>4. changes' = changes /\ auditLog' = auditLog /\ failed' = failed
    BY <2>1
  <2> QED
    BY <1>0, <1>q, <2>2, <2>3, <2>4
<1> QED
  BY <1>q, <1>1, <1>2, <1>3, <1>4, <1>5 DEF CuratedMoves

(* The invariant holds at first. *)
LEMMA CuratedStarts == CuratedInit => CuratedInv
<1> SUFFICES ASSUME CuratedInit PROVE CuratedInv
  OBVIOUS
<1>1. /\ catalog \in Seq(AnyList) /\ born = Len(catalog) /\ born \in Nat
      /\ \A n \in DOMAIN catalog : catalog[n].id <= born
  <2>1. catalog \in FirstLists /\ born = Len(catalog)
    BY DEF CuratedInit
  <2>2. catalog \in Seq(AnyList) /\ \A n \in DOMAIN catalog : catalog[n].id <= Len(catalog)
    BY <2>1, ListsAssumption
  <2>3. Len(catalog) \in Nat
    BY <2>2
  <2> QED
    BY <2>1, <2>2, <2>3
<1>2. entities = Definitions(catalog) /\ entities \in Defs
  <2>1. PICK h \in [0..Len(catalog) -> Defs] : h[Len(catalog)] = Definitions(catalog)
    BY <1>1, DefinitionsGo
  <2>2. Len(catalog) \in 0..Len(catalog)
    BY <1>1
  <2> QED
    BY <2>1, <2>2 DEF CuratedInit
<1>3. Assignments(catalog) \in UniqueRows
      /\ \A w \in Wallets : KeyIn(Assignments(catalog), w) = KeyOf1(catalog, w)
  BY <1>1, AssignmentsAre
<1>4. assigned = [w \in Wallets |-> KeyIn(Assignments(catalog), w)]
  BY DEF CuratedInit, KeyIn
<1>5. /\ assigned \in [Wallets -> EntityKeys \cup {NoKey, Heuristic}]
      /\ \A w \in Wallets : assigned[w] = KeyOf1(catalog, w) /\ assigned[w] \in EntityKeys \cup {NoKey}
  <2>1. \A w : KeyIn(Assignments(catalog), w) \in EntityKeys \cup {NoKey}
    BY <1>3, KeyInIs
  <2> QED
    BY <1>3, <1>4, <2>1
<1>6. /\ request = [a \in Writers |-> Idle] /\ \A a \in Writers : request[a] = Idle /\ ~Rebuilding(a)
  <2>1. request = [a \in Writers |-> Idle]
    BY DEF CuratedInit
  <2> QED
    BY <2>1, IdleTyped DEF Rebuilding
<1>7. /\ cached = [e \in Wallets \X Hops |-> NoGraph] /\ snapped = [w \in Wallets |-> NoGraph]
      /\ reader = [g \in Readers |-> NoRead] /\ overtaken = {}
  BY DEF CuratedInit
<1>8. changes = 0 /\ auditLog = 0 /\ failed = 0 /\ hinting = {} /\ trusted = TRUE /\ everMet = FALSE
  BY DEF CuratedInit
<1>9. CuratedTypes
  <2>1. request \in [Writers -> CuratedRequests]
    BY <1>6, IdleTyped
  <2>2. CachedTypes
    BY <1>7 DEF CachedTypes, IsRead, NoRead
  <2> QED
    BY <1>1, <1>2, <1>5, <1>8, <2>1, <2>2 DEF CuratedTypes
<1>10. AloneIsSo /\ MetIsSo /\ RebuildsCome
  BY <1>6 DEF AloneIsSo, MetIsSo, RebuildsCome
<1>11. RowsLeft(<<>>)
  <2>1. \A w \in Wallets : (IF Curated(w) THEN assigned[w] ELSE NoKey) = KeyOf1(catalog, w)
    <3> TAKE w \in Wallets
    <3>1. CASE Curated(w)
      BY <1>5, <3>1
    <3>2. CASE ~Curated(w)
      <4>1. assigned[w] \in {NoKey, Heuristic} /\ assigned[w] \notin EntityKeys
        BY <1>9, <3>2, CuratedOf
      <4>2. assigned[w] = NoKey
        BY <1>5, <4>1
      <4> QED
        BY <1>5, <3>2, <4>2
    <3> QED
      BY <3>1, <3>2
  <2> QED
    BY <2>1, NoRowsLeft
<1>12. TrustIsSo
  BY <1>2, <1>6, <1>11 DEF TrustIsSo
<1>13. GraphsFollow
  <2>1. \A w \in Wallets : cached[<<w, 1>>] = NoGraph /\ snapped[w] = NoGraph
    BY <1>7 DEF Hops
  <2>2. \A g \in Readers : reader[g] = NoRead
    BY <1>7
  <2> QED
    BY <2>1, <2>2 DEF GraphsFollow, ShownOrDropped, ShownRight
<1>14. ChangesCount
  <2>1. RebuildingAdmins = {}
    BY <1>6 DEF RebuildingAdmins
  <2>2. Cardinality(RebuildingAdmins) = 0
    BY <2>1, FS_EmptySet
  <2> QED
    BY <1>8, <2>2 DEF ChangesCount
<1> QED
  BY <1>9, <1>10, <1>12, <1>13, <1>14 DEF CuratedInv

(* Every step keeps it. *)
LEMMA CuratedKept == CuratedInv /\ [CuratedNext]_curatedVars => CuratedInv'
<1> SUFFICES ASSUME CuratedInv, [CuratedNext]_curatedVars PROVE CuratedInv'
  OBVIOUS
<1>1. /\ CuratedTypes /\ AloneIsSo /\ MetIsSo /\ RebuildsCome /\ TrustIsSo /\ GraphsFollow /\ ChangesCount
  BY DEF CuratedInv
<1>2. CuratedMoves
  BY <1>1, CuratedSteps
<1>3. CuratedTypes'
  BY <1>1, <1>2, CuratedTypesKept
<1>4. AloneIsSo' /\ MetIsSo'
  BY <1>1, <1>2, AloneSoKept
<1>5. RebuildsCome'
  BY <1>1, <1>2, <1>3, RebuildsComeKept
<1>6. TrustIsSo'
  BY <1>1, <1>2, TrustKept
<1>7. GraphsFollow'
  BY <1>1, <1>2, <1>3, <1>5, GraphsKept
<1>8. ChangesCount'
  BY <1>1, <1>2, ChangesCounted
<1> QED
  BY <1>3, <1>4, <1>5, <1>6, <1>7, <1>8 DEF CuratedInv

(* The types proved are those of the type invariant. *)
LEMMA CuratedTypesFollow == CuratedTypes => CuratedTypeOK
<1> SUFFICES ASSUME CuratedTypes PROVE CuratedTypeOK
  OBVIOUS
<1>1. ASSUME NEW n \in DOMAIN catalog
      PROVE  /\ catalog[n].id \in 1..born /\ catalog[n].category \in Categories
             /\ \A i \in ToSet(catalog[n].items) : i.key \in EntityKeys \/ i.wallet \in Wallets
  <2>1. catalog[n] \in AnyList /\ catalog[n].id <= born /\ born \in Nat
    BY DEF CuratedTypes
  <2>2. catalog[n].id \in Nat \ {0} /\ catalog[n].category \in Categories /\ catalog[n].items \in Seq(AnyItem)
    BY <2>1 DEF AnyList
  <2>3. \A i \in ToSet(catalog[n].items) : i \in AnyItem
    BY <2>2 DEF ToSet
  <2>4. \A i \in ToSet(catalog[n].items) : i.key \in EntityKeys \/ i.wallet \in Wallets
    BY <2>3, ItemsAssumption
  <2>5. catalog[n].id \in 1..born
    BY <2>1, <2>2
  <2> QED
    BY <2>2, <2>4, <2>5
<1>2. ASSUME NEW a \in Writers
      PROVE  request[a].step \in {"idle", "seeds", "items", "previous", "clear", "delete",
                                  "entities", "assignments", "graphs"}
  <2>1. request[a] \in CuratedRequests
    BY DEF CuratedTypes
  <2>2. request[a] \in Rebuilds => request[a].step \in RebuildSteps
    BY DEF Rebuilds
  <2>3. request[a].step \in {"idle", "seeds"} \/ request[a].step \in RebuildSteps
    BY <2>1, <2>2, RequestIs
  <2> QED
    BY <2>3 DEF RebuildSteps
<1>3. DOMAIN entities \subseteq EntityKeys
  BY DefsAre DEF CuratedTypes
<1> QED
  BY <1>1, <1>2, <1>3 DEF CuratedTypes, CuratedTypeOK, CachedTypes

(* The invariant says what the property says. *)
LEMMA CuratedFollow == CuratedInv => CuratedTypeOK /\ IndexFollowsLists
<1> SUFFICES ASSUME CuratedInv PROVE CuratedTypeOK /\ IndexFollowsLists
  OBVIOUS
<1>1. CuratedTypes /\ TrustIsSo /\ GraphsFollow /\ ChangesCount
  BY DEF CuratedInv
<1>2. catalog \in Seq(AnyList)
  BY <1>1 DEF CuratedTypes
<1>3. ASSUME trusted
      PROVE  /\ \A w \in Wallets : (IF Curated(w) THEN assigned[w] ELSE NoKey) = KeyInLists(w)
             /\ entities = TypesInLists
             /\ failed = 0 /\ ~everMet =>
                   \A w \in Wallets \ (hinting \cup overtaken) :
                       {cached[<<w, 1>>], snapped[w]} \subseteq {NoGraph, Shows(w)}
  <2>1. /\ \A a \in Writers : ~Rebuilding(a)
        /\ entities = Definitions(catalog) /\ RowsLeft(<<>>)
    BY <1>1, <1>3 DEF TrustIsSo
  <2>2. \A w \in Wallets : (IF Curated(w) THEN assigned[w] ELSE NoKey) = KeyInLists(w)
    BY <1>2, <2>1, NoRowsLeft, KeysFollow
  <2>3. entities = TypesInLists
    BY <1>2, <2>1, TypesFollow
  <2>4. ASSUME failed = 0, ~everMet, NEW w \in Wallets \ (hinting \cup overtaken)
        PROVE  {cached[<<w, 1>>], snapped[w]} \subseteq {NoGraph, Shows(w)}
    BY <1>1, <2>1, <2>4 DEF GraphsFollow, ShownOrDropped, ShownRight
  <2> QED
    BY <2>2, <2>3, <2>4
<1>4. changes <= auditLog + failed + Cardinality(Admins \cap {a \in Writers : Rebuilding(a)})
  BY <1>1 DEF ChangesCount, RebuildingAdmins
<1> QED
  BY <1>1, <1>3, <1>4, CuratedTypesFollow DEF IndexFollowsLists

(* The curated lists and the entity index: once a rebuild has run alone and to its end, and until
   the next change, the wallets' curated entities and the entities' types are those that the lists
   give (buildCuratedEntityIndex, read independently of its loops).  What is served for one hop
   shows nothing else unless a rebuild has failed or met another, or a reader stored what the
   last drop had overtaken; and an admin's change is in the audit log, or being rebuilt for, or
   was followed by a failure. *)
THEOREM IndexHolds == CuratedSpec => [](CuratedTypeOK /\ IndexFollowsLists)
<1>1. CuratedInit => CuratedInv
  BY CuratedStarts
<1>2. CuratedInv /\ [CuratedNext]_curatedVars => CuratedInv'
  BY CuratedKept
<1>3. CuratedInv => CuratedTypeOK /\ IndexFollowsLists
  BY CuratedFollow
<1> QED
  BY <1>1, <1>2, <1>3, PTL DEF CuratedSpec
=============================================================================
