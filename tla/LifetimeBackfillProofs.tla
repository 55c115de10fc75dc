------------------------ MODULE LifetimeBackfillProofs ------------------------
(***************************************************************************)
(* Proofs about LifetimeBackfill, for any number of analyses of a wallet,  *)
(* any chain and any number of failures.                                   *)
(***************************************************************************)
EXTENDS LifetimeBackfill, FiniteSetTheorems, TLAPS

(* What type correctness rests on: an analysis in the middle of a chunk has read
   the latest and the first activity block, and its chunk is not empty. *)
ChainRead(a) ==
    /\ pc[a] \in {"fetch", "save"} => latest[a] # Null /\ first[a] # Null
    /\ pc[a] = "save" => first[a] # NoActivity /\ ChunkEnd(a) >= first[a]

TaskTypes ==
    /\ pc \in [Analyses -> Labels]
    /\ kind \in [Analyses -> Kinds]
    /\ seen \in [Analyses -> Coverages \cup {NoRow}]
    /\ latest \in [Analyses -> Blocks \cup {Null}]
    /\ first \in [Analyses -> Blocks \cup {Null, NoActivity}]
    /\ cov \in [Analyses -> Coverages]
    /\ \A a \in Analyses : ChainRead(a)

TypeInv == TypeOK /\ TaskTypes

USE ChunkAssumption, ChainAssumption
-----------------------------------------------------------------------------
(* A wallet in use has a first activity block, the least of all. *)
LEMMA LeastIn ==
    ASSUME NEW S \in SUBSET Blocks, S # {}
    PROVE  Least(S) \in S /\ \A b \in S : Least(S) <= b
<1> DEFINE R == OpToRel(<, Nat)
<1>1. PICK b \in S : \A c \in S : ~(<<c, b>> \in R)
  <2>1. S \subseteq Nat
    BY DEF Blocks
  <2> HIDE DEF R
  <2>2. IsWellFoundedOn(R, Nat)
    BY NatLessThanWellFounded DEF R
  <2> QED
    BY <2>1, <2>2, WFMin
<1>2. ASSUME NEW c \in S PROVE b <= c
  <2>1. <<c, b>> \in Nat \X Nat
    BY DEF Blocks
  <2>2. ~(c < b)
    BY <1>1, <2>1 DEF OpToRel
  <2> QED
    BY <2>1, <2>2
<1> QED
  BY <1>2 DEF Least

(* The block from which an analysis continues, and the one its chunk starts at. *)
LEMMA ChunkTypes ==
    ASSUME TypeInv, NEW a \in Analyses, pc[a] \in {"fetch", "save"},
           first[a] # NoActivity
    PROVE  /\ first[a] \in Blocks /\ latest[a] \in Blocks
           /\ ChunkEnd(a) \in 0..MaxHead
           /\ ChunkEnd(a) >= first[a] =>
                 /\ ChunkEnd(a) \in Blocks
                 /\ ChunkStart(a) \in Blocks
                 /\ ChunkStart(a) <= ChunkEnd(a)
<1>1. first[a] \in Blocks /\ latest[a] \in Blocks
  BY DEF TypeInv, TaskTypes, ChainRead
<1>2. ChunkEnd(a) \in 0..MaxHead
  <2>1. CASE seen[a] # NoRow /\ seen[a].start # Null
    <3>1. seen[a] \in Coverages
      BY <2>1 DEF TypeInv, TaskTypes
    <3>2. seen[a].start \in Blocks
      BY <2>1, <3>1 DEF Coverages
    <3> QED
      BY <2>1, <3>2 DEF ChunkEnd, Blocks
  <2>2. CASE ~(seen[a] # NoRow /\ seen[a].start # Null)
    BY <1>1, <2>2 DEF ChunkEnd, Blocks
  <2> QED
    BY <2>1, <2>2
<1> QED
  BY <1>1, <1>2 DEF ChunkStart, Larger, Blocks

(* Rows of a query are rows of the wallet. *)
LEMMA FetchedInActivity ==
    \A from, to : Fetched(from, to) \subseteq activity \cap (from..to)
BY DEF Fetched

(* saveWalletIndexCoverage writes a coverage, with the bounds it is given. *)
LEMMA SaveCoverageTypes ==
    ASSUME row \in Coverages \cup {NoRow}, NEW c \in Coverages, SaveCoverage(c)
    PROVE  /\ row' \in Coverages
           /\ row'.complete = c.complete /\ row'.start = c.start /\ row'.end = c.end
<1>1. CASE row = NoRow
  BY <1>1 DEF SaveCoverage, Coverages, Marks
<1>2. CASE row # NoRow
  <2>1. row \in Coverages
    BY <1>2
  <2>2. PICK least \in Blocks \cup {Null}, mark \in Marks :
           row' = [c EXCEPT !.text = TRUE, !.first = least, !.receipts = mark]
    BY <1>2, <2>1 DEF SaveCoverage, Coverages, Marks, Coalesce
  <2> QED
    BY <2>2 DEF Coverages
<1> QED
  BY <1>1, <1>2

(* advanceLifetimeBackfill returns: the analysis keeps its types. *)
LEMMA ReturnTypes ==
    ASSUME TypeInv, NEW a \in Analyses, NEW c \in Coverages, Return(a, c)
    PROVE  TaskTypes'
<1> USE DEF TypeInv
<1>1. NoCoverage \in Coverages
  BY DEF NoCoverage, Coverages, Marks
<1>2. /\ pc' \in [Analyses -> Labels]
      /\ kind' \in [Analyses -> Kinds]
      /\ cov' \in [Analyses -> Coverages]
      /\ pc'[a] \in {"window", "read", "resume", "idle"}
      /\ \A b \in Analyses \ {a} : pc'[b] = pc[b]
  BY <1>1 DEF TaskTypes, Return, EndJob, Goto, Labels, Kinds
<1>3. /\ seen' \in [Analyses -> Coverages \cup {NoRow}]
      /\ latest' \in [Analyses -> Blocks \cup {Null}]
      /\ first' \in [Analyses -> Blocks \cup {Null, NoActivity}]
      /\ \A b \in Analyses \ {a} :
            seen'[b] = seen[b] /\ latest'[b] = latest[b] /\ first'[b] = first[b]
  BY DEF TaskTypes, Return
<1>4. ASSUME NEW b \in Analyses PROVE ChainRead(b)'
  <2>1. CASE b = a
    BY <2>1, <1>2 DEF ChainRead
  <2>2. CASE b # a
    BY <2>2, <1>2, <1>3 DEF TaskTypes, ChainRead, ChunkEnd
  <2> QED
    BY <2>1, <2>2
<1> QED
  BY <1>2, <1>3, <1>4 DEF TaskTypes

(* Analysis a forgets its copies and goes to a label outside the backfill. *)
LEMMA ForgetTypes ==
    ASSUME TypeInv, NEW a \in Analyses, ForgetCopies(a), kind' \in [Analyses -> Kinds],
           NEW l \in Labels \ {"fetch", "save"}, Goto(a, l)
    PROVE  TaskTypes'
<1> USE DEF TypeInv
<1>1. NoCoverage \in Coverages
  BY DEF NoCoverage, Coverages, Marks
<1>2. /\ pc' \in [Analyses -> Labels]
      /\ cov' \in [Analyses -> Coverages]
      /\ seen' \in [Analyses -> Coverages \cup {NoRow}]
      /\ latest' \in [Analyses -> Blocks \cup {Null}]
      /\ first' \in [Analyses -> Blocks \cup {Null, NoActivity}]
      /\ pc'[a] = l
      /\ \A b \in Analyses \ {a} :
            /\ pc'[b] = pc[b] /\ seen'[b] = seen[b]
            /\ latest'[b] = latest[b] /\ first'[b] = first[b]
  BY <1>1 DEF TaskTypes, ForgetCopies, Goto
<1>3. ASSUME NEW b \in Analyses PROVE ChainRead(b)'
  <2>1. CASE b = a
    BY <2>1, <1>2 DEF ChainRead
  <2>2. CASE b # a
    BY <2>2, <1>2 DEF TaskTypes, ChainRead, ChunkEnd
  <2> QED
    BY <2>1, <2>2
<1> QED
  BY <1>2, <1>3 DEF TaskTypes

(* The rows an analysis may leave behind when it fails. *)
LEMMA StorePartTypes ==
    ASSUME TypeInv, NEW a \in Analyses, StorePart(a)
    PROVE  stored \subseteq stored' /\ stored' \in SUBSET Blocks
<1>1. InProgress(a) \subseteq activity
  BY FetchedInActivity DEF InProgress
<1> QED
  BY <1>1 DEF StorePart, TypeInv, TypeOK
-----------------------------------------------------------------------------
(* The types hold at the start. *)
LEMMA InitTypes == Init => TypeInv
<1> SUFFICES ASSUME Init PROVE TypeInv
  OBVIOUS
<1>1. NoCoverage \in Coverages
  BY DEF NoCoverage, Coverages, Marks
<1>2. head \in Blocks /\ activity \in SUBSET Blocks
  BY DEF Init, Blocks
<1>3. \A a \in Analyses : ChainRead(a)
  BY DEF Init, ChainRead
<1> QED
  BY <1>1, <1>2, <1>3, BoundsAssumption DEF Init, TypeInv, TypeOK, TaskTypes, Labels, Kinds

(* The steps in which an analysis reads the chain and the row. *)
LEMMA ReadTypes ==
    ASSUME TypeInv, NEW a \in Analyses,
           \/ ReadCheckpoint(a) \/ DeferCheckpoint(a) \/ FallBack(a)
           \/ RowUnreadable(a) \/ ReadLatest(a) \/ ReadFirst(a)
    PROVE  TypeInv'
<1> USE DEF TypeInv
<1>1. NoCoverage \in Coverages
  BY DEF NoCoverage, Coverages, Marks
<1>2. CASE ReadCheckpoint(a)
  <2>1. CASE row # NoRow /\ row.complete
    <3>1. Return(a, row) /\ row \in Coverages
      BY <1>2, <2>1 DEF ReadCheckpoint, TypeOK
    <3> QED
      BY <1>2, <3>1, ReturnTypes DEF ReadCheckpoint, TypeOK, TaskTypes, chainVars, dbVars
  <2>2. CASE ~(row # NoRow /\ row.complete)
    <3>1. /\ seen' = [seen EXCEPT ![a] = row] /\ pc' = [pc EXCEPT ![a] = "chain"]
          /\ UNCHANGED <<kind, latest, first, cov>>
      BY <1>2, <2>2 DEF ReadCheckpoint, Goto
    <3>2. \A b \in Analyses : ChainRead(b)'
      BY <3>1 DEF TaskTypes, ChainRead, ChunkEnd
    <3> QED
      BY <1>2, <3>1, <3>2 DEF ReadCheckpoint, TypeOK, TaskTypes, chainVars, dbVars, Labels
  <2> QED
    BY <2>1, <2>2
<1>3. CASE DeferCheckpoint(a)
  <2>1. PICK c \in Coverages : Return(a, c)
    BY <1>1, <1>3 DEF DeferCheckpoint, TypeOK
  <2> QED
    BY <1>3, <2>1, ReturnTypes DEF DeferCheckpoint, TypeOK, TaskTypes, chainVars, dbVars
<1>4. CASE FallBack(a)
  <2>1. row # NoRow => [row EXCEPT !.complete = FALSE] \in Coverages
    BY DEF TypeOK, Coverages
  <2>2. PICK c \in Coverages : Return(a, c)
    BY <1>1, <1>4, <2>1 DEF FallBack
  <2> QED
    BY <1>4, <2>2, ReturnTypes DEF FallBack, TypeOK, TaskTypes, chainVars, dbVars
<1>5. CASE RowUnreadable(a)
  <2>1. TaskTypes'
    BY <1>1, <1>5, ReturnTypes DEF RowUnreadable
  <2> QED
    BY <1>5, <2>1, BoundsAssumption
    DEF RowUnreadable, Disturb, TypeOK, TaskTypes, chainVars, dbVars
<1>6. CASE ReadLatest(a)
  <2>1. latest' \in [Analyses -> Blocks \cup {Null}] /\ latest'[a] # Null
    BY <1>6 DEF ReadLatest, TypeOK, Blocks, Null
  <2>2. ASSUME NEW b \in Analyses PROVE ChainRead(b)'
    BY <1>6, <2>1 DEF ReadLatest, Goto, TypeOK, TaskTypes, ChainRead, ChunkEnd
  <2> QED
    BY <1>6, <2>1, <2>2
    DEF ReadLatest, Goto, TypeOK, TaskTypes, chainVars, dbVars, Labels
<1>7. CASE ReadFirst(a)
  <2>1. activity # {} => Least(activity) \in activity
    BY LeastIn DEF TypeOK
  <2> DEFINE found == IF activity = {} THEN NoActivity ELSE Least(activity)
  <2>2. found \in Blocks \cup {NoActivity} /\ found # Null
    <3>1. CASE activity = {}
      BY <3>1 DEF Null, NoActivity
    <3>2. CASE activity # {}
      <4>1. Least(activity) \in Blocks
        BY <2>1, <3>2 DEF TypeOK
      <4> QED
        BY <3>2, <4>1 DEF Blocks, Null
    <3> QED
      BY <3>1, <3>2
  <2> HIDE DEF found
  <2>4. /\ first' \in [Analyses -> Blocks \cup {Null, NoActivity}]
        /\ first'[a] # Null
    <3>1. first' = [first EXCEPT ![a] = found]
      BY <1>7 DEF ReadFirst, found
    <3> QED
      BY <2>2, <3>1 DEF TypeOK
  <2>3. ASSUME NEW b \in Analyses PROVE ChainRead(b)'
    BY <1>7, <2>4 DEF ReadFirst, Goto, TypeOK, TaskTypes, ChainRead, ChunkEnd
  <2> QED
    BY <1>7, <2>4, <2>3
    DEF ReadFirst, Goto, TypeOK, TaskTypes, chainVars, dbVars, Labels
<1> QED
  BY <1>2, <1>3, <1>4, <1>5, <1>6, <1>7

(* The steps in which an analysis stores rows, the checkpoint or its snapshot. *)
LEMMA SaveTypes ==
    ASSUME TypeInv, NEW a \in Analyses,
           SaveEmpty(a) \/ SaveFinal(a) \/ IndexChunk(a) \/ SaveChunk(a)
    PROVE  TypeInv'
<1> USE DEF TypeInv
<1>1. CASE SaveEmpty(a)
  <2>1. latest[a] \in Blocks
    BY <1>1 DEF SaveEmpty, TaskTypes, ChainRead
  <2>2. EmptyCoverage(a) \in Coverages
    BY <2>1 DEF EmptyCoverage, Coverages, Marks
  <2>3. row' \in Coverages
    BY <1>1, <2>2, SaveCoverageTypes DEF SaveEmpty, TypeOK
  <2>4. TaskTypes'
    BY <1>1, <2>2, ReturnTypes DEF SaveEmpty
  <2> QED
    BY <1>1, <2>3, <2>4 DEF SaveEmpty, TypeOK, TaskTypes, chainVars
<1>2. CASE SaveFinal(a)
  <2>1. first[a] \in Blocks /\ latest[a] \in Blocks
    BY <1>2, ChunkTypes DEF SaveFinal
  <2>2. seen[a] # NoRow => seen[a] \in Coverages
    BY DEF TypeOK
  <2>3. FinalCoverage(a) \in Coverages
    BY <2>1, <2>2 DEF FinalCoverage, NoCoverage, Coverages, Marks, Coalesce
  <2>4. row' \in Coverages
    BY <1>2, <2>3, SaveCoverageTypes DEF SaveFinal, TypeOK
  <2>5. TaskTypes'
    BY <1>2, <2>3, ReturnTypes DEF SaveFinal
  <2> QED
    BY <1>2, <2>4, <2>5 DEF SaveFinal, TypeOK, TaskTypes, chainVars
<1>3. CASE IndexChunk(a)
  <2>1. stored' \in SUBSET Blocks /\ receipts' \in SUBSET Blocks
    BY <1>3, FetchedInActivity DEF IndexChunk, TypeOK
  <2>2. PICK m \in Marks : cov' = [cov EXCEPT ![a].receipts = m]
    BY <1>3 DEF IndexChunk, Marks
  <2>3. cov' \in [Analyses -> Coverages]
    <3>0. cov[a] \in Coverages
      BY DEF TypeOK
    <3>1. [cov[a] EXCEPT !.receipts = m] \in Coverages
      BY <3>0 DEF Coverages
    <3>2. cov' = [cov EXCEPT ![a] = [cov[a] EXCEPT !.receipts = m]]
      BY <2>2
    <3> QED
      BY <3>1, <3>2 DEF TypeOK
  <2>4. ASSUME NEW b \in Analyses PROVE ChainRead(b)'
    BY <1>3, ChunkTypes DEF IndexChunk, Goto, TypeOK, TaskTypes, ChainRead, ChunkEnd
  <2> QED
    BY <1>3, <2>1, <2>3, <2>4 DEF IndexChunk, Goto, TypeOK, TaskTypes, chainVars, Labels
<1>4. CASE SaveChunk(a)
  <2>1. /\ first[a] \in Blocks /\ ChunkStart(a) \in Blocks /\ ChunkEnd(a) \in Blocks
    BY <1>4, ChunkTypes DEF SaveChunk, TaskTypes, ChainRead
  <2>2. seen[a] # NoRow => seen[a] \in Coverages
    BY DEF TypeOK
  <2>3. cov[a] \in Coverages
    BY DEF TypeOK
  <2>4. ChunkCoverage(a) \in Coverages
    BY <2>1, <2>2, <2>3 DEF ChunkCoverage, Coverages, Coalesce
  <2>5. row' \in Coverages
    BY <1>4, <2>4, SaveCoverageTypes DEF SaveChunk, TypeOK
  <2>6. TaskTypes'
    BY <1>4, <2>4, ReturnTypes DEF SaveChunk
  <2> QED
    BY <1>4, <2>5, <2>6 DEF SaveChunk, TypeOK, TaskTypes, chainVars
<1> QED
  BY <1>1, <1>2, <1>3, <1>4

(* The steps after the backfill. *)
LEMMA FinishTypes ==
    ASSUME TypeInv, NEW a \in Analyses,
           PersistWindow(a) \/ PublishStatus(a) \/ InsertSnapshot(a)
    PROVE  TypeInv'
<1> USE DEF TypeInv
<1>1. NoCoverage \in Coverages
  BY DEF NoCoverage, Coverages, Marks
<1>2. CASE PersistWindow(a)
  <2>1. stored' \in SUBSET Blocks /\ receipts' \in SUBSET Blocks
    BY <1>2, FetchedInActivity DEF PersistWindow, TypeOK
  <2>2. ASSUME NEW b \in Analyses PROVE ChainRead(b)'
    BY <1>2 DEF PersistWindow, Goto, TypeOK, TaskTypes, ChainRead, ChunkEnd
  <2> QED
    BY <1>2, <2>1, <2>2 DEF PersistWindow, Goto, TypeOK, TaskTypes, chainVars, Labels
<1>3. CASE PublishStatus(a)
  <2>1. cov[a] \in Coverages /\ (row # NoRow => row \in Coverages)
    BY DEF TypeOK
  <2>2. row' \in Coverages
    BY <1>3, <2>1 DEF PublishStatus, Coverages, Coalesce
  <2>3. ASSUME NEW b \in Analyses PROVE ChainRead(b)'
    BY <1>3 DEF PublishStatus, Goto, TypeOK, TaskTypes, ChainRead, ChunkEnd
  <2> QED
    BY <1>3, <2>2, <2>3 DEF PublishStatus, Goto, TypeOK, TaskTypes, chainVars, Labels
<1>4. CASE InsertSnapshot(a)
  <2>1. snapshot' \in Snapshots
    BY <1>4 DEF InsertSnapshot, TypeOK, Snapshots
  <2>2. /\ pc' \in [Analyses -> Labels] /\ pc'[a] \notin {"fetch", "save"}
        /\ \A b \in Analyses \ {a} : pc'[b] = pc[b]
        /\ kind' \in [Analyses -> Kinds] /\ cov' \in [Analyses -> Coverages]
    BY <1>1, <1>4 DEF InsertSnapshot, EndJob, Goto, TypeOK, Labels, Kinds
  <2>3. ASSUME NEW b \in Analyses PROVE ChainRead(b)'
    BY <1>4, <2>2 DEF InsertSnapshot, TypeOK, TaskTypes, ChainRead, ChunkEnd
  <2> QED
    BY <1>4, <2>1, <2>2, <2>3 DEF InsertSnapshot, TypeOK, TaskTypes, chainVars
<1> QED
  BY <1>2, <1>3, <1>4

(* Clients, the chain, failures and crashes. *)
LEMMA OutsideTypes ==
    ASSUME TypeInv,
           \/ NewBlock
           \/ \E a \in Analyses :
                 Start(a) \/ Resume(a) \/ AdvanceFails(a) \/ Stop(a)
    PROVE  TypeInv'
<1> USE BoundsAssumption DEF TypeInv
<1>1. CASE NewBlock
  <2>1. head' \in Blocks /\ activity' \in SUBSET Blocks
    BY <1>1 DEF NewBlock, TypeOK, Blocks
  <2>2. ASSUME NEW b \in Analyses PROVE ChainRead(b)'
    BY <1>1 DEF NewBlock, TypeOK, TaskTypes, ChainRead, ChunkEnd, taskVars
  <2> QED
    BY <1>1, <2>1, <2>2 DEF NewBlock, TypeOK, TaskTypes, dbVars, taskVars
<1>2. ASSUME NEW a \in Analyses, Start(a) \/ Resume(a) PROVE TypeInv'
  <2>1. ASSUME NEW b \in Analyses PROVE ChainRead(b)'
    BY <1>2 DEF Start, Resume, Goto, TypeOK, TaskTypes, ChainRead, ChunkEnd
  <2> QED
    BY <1>2, <2>1
    DEF Start, Resume, Goto, TypeOK, TaskTypes, chainVars, dbVars, Labels, Kinds
<1>3. ASSUME NEW a \in Analyses, AdvanceFails(a) PROVE TypeInv'
  <2>1. stored' \in SUBSET Blocks
    BY <1>3, StorePartTypes DEF AdvanceFails
  <2>2. row' \in Coverages \cup {NoRow}
    <3>1. CASE UNCHANGED row
      BY <3>1 DEF TypeOK
    <3>2. CASE pc[a] = "save" /\ SaveCoverage(ChunkCoverage(a))
      <4>1. /\ first[a] \in Blocks /\ ChunkStart(a) \in Blocks
            /\ ChunkEnd(a) \in Blocks
        BY <3>2, ChunkTypes DEF TaskTypes, ChainRead
      <4>2. (seen[a] # NoRow => seen[a] \in Coverages) /\ cov[a] \in Coverages
        BY DEF TypeOK
      <4>3. ChunkCoverage(a) \in Coverages
        BY <4>1, <4>2 DEF ChunkCoverage, Coverages, Coalesce
      <4> QED
        BY <3>2, <4>3, SaveCoverageTypes DEF TypeOK
    <3> QED
      BY <1>3, <3>1, <3>2 DEF AdvanceFails
  <2>3. TaskTypes'
    BY <1>3, ForgetTypes DEF AdvanceFails, TypeOK, Labels
  <2> QED
    BY <1>3, <2>1, <2>2, <2>3
    DEF AdvanceFails, Disturb, TypeOK, TaskTypes, chainVars
<1>4. ASSUME NEW a \in Analyses, Stop(a) PROVE TypeInv'
  <2>1. stored' \in SUBSET Blocks
    BY <1>4, StorePartTypes DEF Stop
  <2>2. kind' \in [Analyses -> Kinds]
    BY <1>4 DEF Stop, TypeOK, Kinds
  <2>3. TaskTypes'
    BY <1>4, <2>2, ForgetTypes DEF Stop, Labels
  <2> QED
    BY <1>4, <2>1, <2>3 DEF Stop, Disturb, TypeOK, TaskTypes, chainVars
<1> QED
  BY <1>1, <1>2, <1>3, <1>4

(* Every step keeps the types. *)
LEMMA NextTypes == TypeInv /\ [Next]_vars => TypeInv'
<1> SUFFICES ASSUME TypeInv, [Next]_vars PROVE TypeInv'
  OBVIOUS
<1>1. CASE UNCHANGED vars
  BY <1>1 DEF vars, TypeInv, TypeOK, TaskTypes, ChainRead, ChunkEnd
<1>2. CASE Next
  BY <1>2, ReadTypes, SaveTypes, FinishTypes, OutsideTypes DEF Next, Step, Advance, Finish
<1> QED
  BY <1>1, <1>2

(* Every reachable state is well typed, for any number of analyses and failures. *)
THEOREM TypesHold == Spec => []TypeOK
<1>1. Spec => []TypeInv
  BY InitTypes, NextTypes, PTL DEF Spec
<1> QED
  BY <1>1, PTL DEF TypeInv
-----------------------------------------------------------------------------
(* The inductive invariant behind the two safety properties.  A coverage is sound,
   on a chain of h blocks where the wallet acts in acts and rows are held, if its two
   bounds are there together and not above the chain, every block it claims is held, and
   it is complete only from the first activity.  Held is what is stored and what the
   pages may have dropped. *)
SoundFor(c, h, acts, rows) ==
    /\ c.start = Null <=> c.end = Null
    /\ c.start <= h /\ c.end <= h
    /\ acts \cap Claims(c) \subseteq rows
    /\ c.complete => c.start # Null /\ \A b \in acts : c.start <= b

Held == stored \cup {b \in activity : Crowded(b)}

Sound(c) == SoundFor(c, head, activity, Held)

(* Not only the row: every copy an analysis may still write back is sound, and a
   chunk that is about to be claimed is held. *)
TaskSound(a) ==
    /\ seen[a] # NoRow => Sound(seen[a])
    /\ pc[a] \in {"window", "report", "insert"} => Sound(cov[a])
    /\ latest[a] <= head
    /\ first[a] # Null => first[a] \in activity /\ \A b \in activity : first[a] <= b
    /\ pc[a] = "save" => activity \cap (ChunkStart(a)..ChunkEnd(a)) \subseteq Held

AllSound ==
    /\ row # NoRow => Sound(row)
    /\ snapshot # NoSnapshot => Sound(snapshot.coverage)
    /\ \A a \in Analyses : TaskSound(a)

ChainInv == FirstHead <= head /\ activity \subseteq 1..head

BackfillInv == TypeInv /\ ChainInv /\ (InUse => AllSound)

(* The chain and the stored rows only grow, the chain beyond its old head. *)
Grown ==
    /\ head <= head' /\ activity \subseteq activity'
    /\ \A b \in activity' \ activity : b > head
    /\ Held \subseteq Held'
-----------------------------------------------------------------------------
(* A sound coverage stays sound while chain and rows grow. *)
LEMMA SoundGrows ==
    ASSUME NEW h \in Blocks, NEW h2 \in Blocks, h <= h2,
           NEW acts \in SUBSET Blocks, NEW acts2 \in SUBSET Blocks,
           \A b \in acts2 \ acts : b > h,
           NEW rows, NEW rows2, rows \subseteq rows2,
           NEW c \in Coverages, SoundFor(c, h, acts, rows)
    PROVE  SoundFor(c, h2, acts2, rows2)
<1>1. /\ c.start \in Blocks \cup {Null} /\ c.end \in Blocks \cup {Null}
      /\ c.complete \in BOOLEAN
  BY DEF Coverages
<1>2. acts2 \cap Claims(c) \subseteq rows2
  BY <1>1 DEF SoundFor, Claims, Blocks, Null
<1>3. c.complete => \A b \in acts2 : c.start <= b
  BY <1>1 DEF SoundFor, Blocks, Null
<1> QED
  BY <1>1, <1>2, <1>3 DEF SoundFor, Blocks, Null

(* Soundness is about the bounds and the completeness only. *)
LEMMA SoundSame ==
    ASSUME NEW c, NEW d, NEW h, NEW acts, NEW rows, SoundFor(c, h, acts, rows),
           d.start = c.start, d.end = c.end, d.complete => c.complete
    PROVE  SoundFor(d, h, acts, rows)
BY DEF SoundFor, Claims

(* An analysis that failed claims nothing. *)
LEMMA NothingSound ==
    ASSUME NEW h \in Blocks, NEW acts, NEW rows
    PROVE  SoundFor(NoCoverage, h, acts, rows)
BY DEF SoundFor, NoCoverage, Claims, Null, Blocks

(* More rows within a stretch of blocks are more than the pages hold, too. *)
LEMMA MoreIsCrowded ==
    ASSUME NEW S, NEW T, S \subseteq T, NEW m \in Int, NEW n \in Int, T \subseteq m..n,
           Cardinality(S) > RowLimit
    PROVE  Cardinality(T) > RowLimit
<1>1. IsFiniteSet(m..n)
  BY FS_Interval
<1>2. IsFiniteSet(T)
  BY <1>1, FS_Subset
<1>3. IsFiniteSet(S) /\ Cardinality(S) <= Cardinality(T)
  BY <1>2, FS_Subset
<1>4. Cardinality(S) \in Nat /\ Cardinality(T) \in Nat
  BY <1>2, <1>3, FS_CardinalityType
<1> QED
  BY <1>3, <1>4, RowLimitAssumption

(* What the pages of a query for a chunk drop is crowded. *)
LEMMA FetchedHeld ==
    ASSUME TypeInv, NEW from \in Blocks, NEW to \in Blocks, to - from + 1 <= ChunkSize,
           NEW b \in activity \cap (from..to)
    PROVE  b \in Fetched(from, to) \/ Crowded(b)
<1> SUFFICES ASSUME b \notin Fetched(from, to) PROVE Crowded(b)
  OBVIOUS
<1> DEFINE below == {c \in activity \cap (from..to) : c <= b}
           stretch == activity \cap (b - ChunkSize + 1 .. b)
<1>1. activity \subseteq Int /\ from \in Int /\ to \in Int /\ b \in Int /\ b <= to
  BY DEF TypeInv, TypeOK, Blocks
<1>2. Cardinality(below) \in Nat
  <2>1. IsFiniteSet(from..to)
    BY <1>1, FS_Interval
  <2>2. IsFiniteSet(below)
    BY <2>1, FS_Subset
  <2> QED
    BY <2>2, FS_CardinalityType
<1>3. ~(Cardinality(below) <= RowLimit)
  BY DEF Fetched
<1>4. Cardinality(below) > RowLimit
  <2> DEFINE n == Cardinality(below)
  <2> HIDE DEF below, n
  <2>1. n \in Nat /\ ~(n <= RowLimit)
    BY <1>2, <1>3 DEF n
  <2>2. n > RowLimit
    BY <2>1, RowLimitAssumption
  <2> QED
    BY <2>2 DEF n
<1>5. below \subseteq stretch
  BY <1>1
<1>6. stretch \subseteq (b - ChunkSize + 1) .. b /\ b - ChunkSize + 1 \in Int
  BY <1>1
<1>7. Cardinality(stretch) > RowLimit
  <2> HIDE DEF below, stretch
  <2> QED
    BY <1>1, <1>4, <1>5, <1>6, MoreIsCrowded
<1> QED
  BY <1>7 DEF Crowded

(* What is held stays so while the chain and the stored rows grow. *)
LEMMA HeldGrows ==
    ASSUME TypeInv, activity \subseteq activity', stored \subseteq stored'
    PROVE  Held \subseteq Held'
<1> SUFFICES ASSUME NEW b \in activity, Crowded(b) PROVE Crowded(b)'
  BY DEF Held
<1> DEFINE S == activity \cap (b - ChunkSize + 1 .. b)
           T == activity' \cap (b - ChunkSize + 1 .. b)
<1>1. b \in Int /\ b - ChunkSize + 1 \in Int
  BY DEF TypeInv, TypeOK, Blocks
<1>2. S \subseteq T /\ T \subseteq (b - ChunkSize + 1) .. b
  OBVIOUS
<1>3. Cardinality(S) > RowLimit
  BY DEF Crowded
<1>4. Cardinality(T) > RowLimit
  <2> HIDE DEF S, T
  <2> QED
    BY <1>1, <1>2, <1>3, MoreIsCrowded
<1> QED
  BY <1>4 DEF Crowded

(* The row and the snapshot are as sound as they were, if nobody writes them. *)
LEMMA KeptSound ==
    ASSUME TypeInv, TypeInv', AllSound, ChainInv, Grown
    PROVE  /\ row' = row => (row' # NoRow => Sound(row)')
           /\ snapshot' = snapshot => (snapshot' # NoSnapshot => Sound(snapshot.coverage)')
           /\ \A c \in Coverages :
                 SoundFor(c, head, activity, Held) => SoundFor(c, head', activity', Held')
<1>1. \A c \in Coverages :
          SoundFor(c, head, activity, Held) => SoundFor(c, head', activity', Held')
  BY SoundGrows DEF TypeInv, TypeOK, Grown
<1>2. ASSUME row' = row, row # NoRow PROVE Sound(row)'
  <2>1. row \in Coverages /\ SoundFor(row, head, activity, Held)
    BY <1>2 DEF TypeInv, TypeOK, AllSound, Sound
  <2> QED
    BY <1>1, <1>2, <2>1 DEF Sound
<1>3. ASSUME snapshot' = snapshot, snapshot # NoSnapshot PROVE Sound(snapshot.coverage)'
  <2>1. snapshot.coverage \in Coverages /\ SoundFor(snapshot.coverage, head, activity, Held)
    BY <1>3 DEF TypeInv, TypeOK, Snapshots, AllSound, Sound
  <2> QED
    BY <1>1, <1>3, <2>1 DEF Sound
<1> QED
  BY <1>1, <1>2, <1>3

(* The chunk of an analysis lies on the chain that it has seen. *)
LEMMA ChunkBelowHead ==
    ASSUME TypeInv, NEW a \in Analyses, TaskSound(a), pc[a] \in {"fetch", "save"},
           first[a] # NoActivity
    PROVE  ChunkEnd(a) <= head
<1>1. CASE seen[a] # NoRow /\ seen[a].start # Null
  <2>1. seen[a] \in Coverages /\ seen[a].start <= head
    BY <1>1 DEF TaskSound, Sound, SoundFor, TypeInv, TypeOK
  <2> QED
    BY <1>1, <2>1 DEF ChunkEnd, Coverages, Blocks, TypeInv, TypeOK
<1>2. CASE ~(seen[a] # NoRow /\ seen[a].start # Null)
  BY <1>2 DEF ChunkEnd, TaskSound
<1> QED
  BY <1>1, <1>2

(* So is an analysis that keeps its copies, unless it enters a label that asks for
   more. *)
LEMMA CopiesSound ==
    ASSUME TypeInv, TypeInv', AllSound, ChainInv, Grown, NEW b \in Analyses,
           seen'[b] = seen[b], latest'[b] = latest[b], first'[b] = first[b],
           pc'[b] = "save" => pc[b] = "save",
           pc'[b] \in {"window", "report", "insert"} =>
               pc[b] \in {"window", "report", "insert"} /\ cov'[b] = cov[b]
    PROVE  TaskSound(b)'
<1>1. TaskSound(b)
  BY DEF AllSound
<1>2. seen[b] # NoRow => Sound(seen[b])'
  BY <1>1, KeptSound DEF TaskSound, Sound, TypeInv, TypeOK
<1>3. pc'[b] \in {"window", "report", "insert"} => Sound(cov[b])'
  BY <1>1, KeptSound DEF TaskSound, Sound, TypeInv, TypeOK
<1>4. latest[b] <= head'
  <2>1. latest[b] \in Int /\ head \in Int /\ head' \in Int
    BY DEF TypeInv, TypeOK, Blocks, Null
  <2> QED
    BY <1>1, <2>1 DEF TaskSound, Grown
<1>5. ASSUME first[b] # Null
      PROVE  first[b] \in activity' /\ \A n \in activity' : first[b] <= n
  <2>1. first[b] \in activity /\ \A n \in activity : first[b] <= n
    BY <1>1, <1>5 DEF TaskSound
  <2>2. activity \subseteq 1..head /\ activity' \subseteq Int /\ head \in Int
    BY DEF ChainInv, TypeInv, TypeOK, Blocks
  <2>3. \A n \in activity' \ activity : first[b] <= n
    <3>1. \A n \in activity' \ activity : n \in Int /\ n > head
      BY <2>2 DEF Grown
    <3>2. first[b] \in 1..head
      BY <2>1, <2>2
    <3> QED
      BY <2>2, <3>1, <3>2
  <2> QED
    BY <2>1, <2>3 DEF Grown
<1>6. ASSUME pc[b] = "save"
      PROVE  activity' \cap (ChunkStart(b)..ChunkEnd(b)) \subseteq Held'
  <2>1. first[b] # NoActivity /\ ChunkEnd(b) >= first[b]
    BY <1>6 DEF TypeInv, TaskTypes, ChainRead
  <2>2. ChunkEnd(b) \in Blocks /\ ChunkStart(b) \in Blocks
    BY <1>6, <2>1, ChunkTypes
  <2>3. ChunkEnd(b) <= head
    BY <1>1, <1>6, <2>1, ChunkBelowHead
  <2> QED
    BY <1>1, <1>6, <2>2, <2>3 DEF TaskSound, Grown, TypeInv, TypeOK, Blocks
<1>7. ChunkStart(b)' = ChunkStart(b) /\ ChunkEnd(b)' = ChunkEnd(b)
  BY DEF ChunkStart, ChunkEnd
<1> QED
  BY <1>2, <1>3, <1>4, <1>5, <1>6, <1>7 DEF TaskSound, Sound

(* So is an analysis that does not move. *)
LEMMA OthersSound ==
    ASSUME TypeInv, TypeInv', AllSound, ChainInv, Grown, NEW b \in Analyses,
           pc'[b] = pc[b], seen'[b] = seen[b], latest'[b] = latest[b],
           first'[b] = first[b], cov'[b] = cov[b]
    PROVE  TaskSound(b)'
BY CopiesSound

(* advanceLifetimeBackfill returns a sound coverage. *)
LEMMA ReturnSound ==
    ASSUME TypeInv, TypeInv', AllSound, ChainInv, Grown, NEW a \in Analyses,
           NEW c \in Coverages, SoundFor(c, head', activity', Held'), Return(a, c)
    PROVE  \A b \in Analyses : TaskSound(b)'
<1>1. /\ pc'[a] \in {"window", "read", "resume", "idle"}
      /\ pc'[a] = "window" => cov'[a] = c
      /\ seen'[a] = NoRow /\ latest'[a] = Null /\ first'[a] = Null
      /\ \A b \in Analyses \ {a} :
            /\ pc'[b] = pc[b] /\ seen'[b] = seen[b] /\ latest'[b] = latest[b]
            /\ first'[b] = first[b] /\ cov'[b] = cov[b]
  BY DEF Return, EndJob, Goto, TypeInv, TaskTypes
<1>2. TaskSound(a)'
  <2>1. Null <= head'
    BY DEF TypeInv, TypeOK, Blocks, Null
  <2> QED
    BY <1>1, <2>1 DEF TaskSound, Sound
<1>3. ASSUME NEW b \in Analyses \ {a} PROVE TaskSound(b)'
  BY <1>1, <1>3, OthersSound
<1> QED
  BY <1>2, <1>3

(* So does an analysis whose copies are lost. *)
LEMMA ForgottenSound ==
    ASSUME TypeInv, TypeInv', AllSound, ChainInv, Grown, NEW a \in Analyses,
           ForgetCopies(a), pc' = [pc EXCEPT ![a] = "fallback"]
                            \/ pc' = [pc EXCEPT ![a] = "idle"]
    PROVE  \A b \in Analyses : TaskSound(b)'
<1>1. /\ pc'[a] \in {"fallback", "idle"}
      /\ seen'[a] = NoRow /\ latest'[a] = Null /\ first'[a] = Null
      /\ \A b \in Analyses \ {a} :
            /\ pc'[b] = pc[b] /\ seen'[b] = seen[b] /\ latest'[b] = latest[b]
            /\ first'[b] = first[b] /\ cov'[b] = cov[b]
  BY DEF ForgetCopies, TypeInv, TaskTypes
<1>2. TaskSound(a)'
  <2>1. Null <= head'
    BY DEF TypeInv, TypeOK, Blocks, Null
  <2> QED
    BY <1>1, <2>1 DEF TaskSound, Sound
<1>3. ASSUME NEW b \in Analyses \ {a} PROVE TaskSound(b)'
  BY <1>1, <1>3, OthersSound
<1> QED
  BY <1>2, <1>3

(* Saving a sound coverage makes the row sound. *)
LEMMA SavedSound ==
    ASSUME TypeInv, NEW c \in Coverages, SoundFor(c, head', activity', Held'),
           SaveCoverage(c)
    PROVE  Sound(row)'
<1>1. row'.complete = c.complete /\ row'.start = c.start /\ row'.end = c.end
  BY SaveCoverageTypes DEF TypeInv, TypeOK
<1> QED
  BY <1>1, SoundSame DEF Sound

(* The coverage of a stored chunk: the chunk and what the copy of the row claimed
   above it, without a gap because both bounds come from that copy. *)
LEMMA ChunkSound ==
    ASSUME TypeInv, ChainInv, AllSound, NEW a \in Analyses, pc[a] = "save"
    PROVE  ChunkCoverage(a) \in Coverages /\ Sound(ChunkCoverage(a))
<1> DEFINE c == ChunkCoverage(a)
<1>1. TaskSound(a) /\ first[a] # NoActivity /\ ChunkEnd(a) >= first[a]
  BY DEF AllSound, TypeInv, TaskTypes, ChainRead
<1>2. /\ first[a] \in Blocks /\ ChunkStart(a) \in Blocks /\ ChunkEnd(a) \in Blocks
      /\ ChunkStart(a) <= ChunkEnd(a)
  BY <1>1, ChunkTypes
<1>3. ChunkEnd(a) <= head /\ head \in Blocks
  BY <1>1, ChunkBelowHead DEF TypeInv, TypeOK
<1>4. cov[a] \in Coverages /\ (seen[a] # NoRow => seen[a] \in Coverages)
  BY DEF TypeInv, TypeOK
<1>5. c \in Coverages
  BY <1>2, <1>4 DEF ChunkCoverage, Coverages, Coalesce
<1>6. c.start = ChunkStart(a) /\ c.complete = (ChunkStart(a) <= first[a])
  BY DEF ChunkCoverage
<1>7. c.complete => \A b \in activity : c.start <= b
  <2>1. \A b \in activity : first[a] <= b
    BY <1>1, <1>2 DEF TaskSound, Blocks, Null
  <2>2. activity \subseteq Blocks
    BY DEF TypeInv, TypeOK
  <2>3. ChunkStart(a) <= first[a] => \A b \in activity : ChunkStart(a) <= b
    BY <1>2, <2>1, <2>2 DEF Blocks
  <2> HIDE DEF c
  <2> QED
    BY <1>6, <2>3
<1>8. c.end \in Blocks /\ c.end <= head /\ activity \cap (c.start..c.end) \subseteq Held
  <2>1. CASE seen[a] # NoRow /\ seen[a].start # Null
    <3>1. /\ seen[a].start \in Blocks /\ seen[a].end \in Blocks /\ seen[a].end <= head
          /\ activity \cap (seen[a].start..seen[a].end) \subseteq Held
      BY <1>1, <1>4, <2>1 DEF TaskSound, Sound, SoundFor, Claims, Coverages
    <3>2. c.end = seen[a].end /\ ChunkEnd(a) = seen[a].start - 1
      BY <2>1, <3>1 DEF ChunkCoverage, Coalesce, ChunkEnd, Blocks, Null
    <3>3. activity \cap (ChunkStart(a)..ChunkEnd(a)) \subseteq Held
      BY <1>1 DEF TaskSound
    <3> QED
      BY <1>2, <1>6, <3>1, <3>2, <3>3 DEF Blocks
  <2>2. CASE ~(seen[a] # NoRow /\ seen[a].start # Null)
    <3>1. seen[a] # NoRow => seen[a].end = Null
      BY <1>1, <2>2 DEF TaskSound, Sound, SoundFor
    <3>2. c.end = ChunkEnd(a)
      BY <3>1 DEF ChunkCoverage, Coalesce
    <3> QED
      BY <1>1, <1>2, <1>3, <1>6, <3>2 DEF TaskSound
  <2> QED
    BY <2>1, <2>2
<1>9. c.start # Null /\ c.end # Null /\ c.start <= head
  BY <1>2, <1>3, <1>6, <1>8 DEF Blocks, Null
<1>10. Claims(c) = c.start..c.end
  BY <1>9 DEF Claims
<1> HIDE DEF c
<1>11. Sound(c)
  BY <1>7, <1>8, <1>9, <1>10 DEF Sound, SoundFor
<1> QED
  BY <1>5, <1>11 DEF c

(* The coverage that closes an index with nothing left below its checkpoint. *)
LEMMA FinalSound ==
    ASSUME TypeInv, ChainInv, AllSound, NEW a \in Analyses, pc[a] = "fetch",
           first[a] # NoActivity, ChunkEnd(a) < first[a]
    PROVE  FinalCoverage(a) \in Coverages /\ Sound(FinalCoverage(a))
<1> DEFINE c == FinalCoverage(a)
<1>1. TaskSound(a)
  BY DEF AllSound
<1>2. first[a] \in Blocks /\ latest[a] \in Blocks /\ head \in Blocks
  BY ChunkTypes DEF TypeInv, TypeOK
<1>3. first[a] # Null
  BY <1>2 DEF Blocks, Null
<1>4. first[a] \in activity /\ first[a] <= head /\ latest[a] <= head
      /\ \A b \in activity : first[a] <= b
  BY <1>1, <1>2, <1>3 DEF TaskSound, ChainInv, Blocks
<1>5. seen[a] # NoRow => seen[a] \in Coverages
  BY DEF TypeInv, TypeOK
<1>6. c \in Coverages
  BY <1>2, <1>5 DEF FinalCoverage, NoCoverage, Coverages, Marks, Coalesce
<1>7. CASE seen[a] # NoRow /\ seen[a].start # Null
  <2>1. /\ seen[a].start \in Blocks /\ seen[a].end \in Blocks /\ seen[a].end # Null
        /\ Sound(seen[a])
    BY <1>1, <1>5, <1>7 DEF TaskSound, Sound, SoundFor, Coverages
  <2>2. c.start = seen[a].start /\ c.end = seen[a].end
    BY <1>7, <2>1 DEF FinalCoverage, Coalesce
  <2>3. seen[a].start <= first[a]
    BY <1>2, <1>7, <2>1 DEF ChunkEnd, Blocks
  <2>4. \A b \in activity : seen[a].start <= b
    BY <1>2, <1>4, <2>1, <2>3 DEF TypeInv, TypeOK, Blocks
  <2> HIDE DEF c
  <2>5. Sound(c)
    BY <1>7, <2>1, <2>2, <2>4 DEF Sound, SoundFor, Claims
  <2> QED
    BY <1>6, <2>5 DEF c
<1>8. CASE ~(seen[a] # NoRow /\ seen[a].start # Null)
  <2>1. seen[a] # NoRow => seen[a].end = Null /\ seen[a].start = Null
    BY <1>1, <1>8 DEF TaskSound, Sound, SoundFor
  <2>2. c.start = first[a] /\ c.end = latest[a]
    BY <2>1 DEF FinalCoverage, NoCoverage, Coalesce
  <2>3. latest[a] < first[a]
    BY <1>8 DEF ChunkEnd
  <2>4. c.start # Null /\ c.end # Null /\ c.start <= head /\ c.end <= head
    BY <1>2, <1>3, <1>4, <2>2 DEF Blocks, Null
  <2>5. Claims(c) = {}
    BY <1>2, <2>2, <2>3, <2>4 DEF Claims, Blocks
  <2> HIDE DEF c
  <2>6. Sound(c)
    BY <1>4, <2>2, <2>4, <2>5 DEF Sound, SoundFor
  <2> QED
    BY <1>6, <2>6 DEF c
<1> QED
  BY <1>7, <1>8
-----------------------------------------------------------------------------
(* What the steps of an analysis leave alone. *)
LEMMA ChainGrows ==
    ASSUME TypeInv, ChainInv, [Next]_vars
    PROVE  ChainInv' /\ Grown /\ (InUse' => InUse)
<1>1. head \in Blocks /\ activity \subseteq Blocks
  BY DEF TypeInv, TypeOK
<1>2. CASE NewBlock
  <2>1. ChainInv' /\ Grown
    <3>1. /\ head <= head' /\ activity \subseteq activity' /\ stored' = stored
          /\ \A b \in activity' \ activity : b > head
      BY <1>1, <1>2 DEF NewBlock, ChainInv, dbVars, Blocks
    <3>2. Held \subseteq Held'
      BY <3>1, HeldGrows
    <3>3. ChainInv'
      BY <1>1, <1>2 DEF NewBlock, ChainInv, Blocks
    <3> QED
      BY <3>1, <3>2, <3>3 DEF Grown
  <2>2. InUse' => InUse
    BY <1>1, <1>2 DEF NewBlock, ChainInv, InUse, Blocks
  <2> QED
    BY <2>1, <2>2
<1>3. CASE UNCHANGED chainVars /\ stored \subseteq stored'
  BY <1>1, <1>3, HeldGrows DEF chainVars, ChainInv, Grown, InUse, Blocks
<1>4. CASE UNCHANGED vars
  BY <1>3, <1>4 DEF vars, chainVars
<1>5. ASSUME NEW a \in Analyses, Advance(a) PROVE UNCHANGED chainVars /\ stored \subseteq stored'
  BY <1>5 DEF Advance, ReadCheckpoint, DeferCheckpoint, ReadLatest, ReadFirst, SaveEmpty,
              SaveFinal, IndexChunk, SaveChunk, FallBack, dbVars
<1>6. ASSUME NEW a \in Analyses, Finish(a) \/ Resume(a) \/ Start(a) \/ RowUnreadable(a)
      PROVE  UNCHANGED chainVars /\ stored \subseteq stored'
  BY <1>6 DEF Finish, PersistWindow, PublishStatus, InsertSnapshot, Resume, Start,
              RowUnreadable, dbVars
<1>7. ASSUME NEW a \in Analyses, AdvanceFails(a) \/ Stop(a)
      PROVE  UNCHANGED chainVars /\ stored \subseteq stored'
  BY <1>7, StorePartTypes DEF AdvanceFails, Stop
<1> QED
  BY <1>2, <1>3, <1>4, <1>5, <1>6, <1>7 DEF Next, Step

(* The steps in which advanceLifetimeBackfill returns what it has read. *)
LEMMA ReadSound ==
    ASSUME TypeInv, TypeInv', ChainInv, Grown, AllSound, NEW a \in Analyses,
           \/ ReadCheckpoint(a) \/ DeferCheckpoint(a) \/ FallBack(a) \/ RowUnreadable(a)
    PROVE  AllSound'
<1>1. row' = row /\ snapshot' = snapshot
  BY DEF ReadCheckpoint, DeferCheckpoint, FallBack, RowUnreadable, dbVars
<1>2. NoCoverage \in Coverages /\ SoundFor(NoCoverage, head', activity', Held')
  BY NothingSound DEF TypeInv, TypeOK, NoCoverage, Coverages, Marks
<1>3. ASSUME row # NoRow
      PROVE  /\ row \in Coverages /\ SoundFor(row, head', activity', Held')
             /\ [row EXCEPT !.complete = FALSE] \in Coverages
             /\ SoundFor([row EXCEPT !.complete = FALSE], head', activity', Held')
  <2>1. row \in Coverages /\ SoundFor(row, head', activity', Held')
    BY <1>1, <1>3, KeptSound DEF TypeInv, TypeOK, Sound
  <2> DEFINE d == [row EXCEPT !.complete = FALSE]
  <2>2. d \in Coverages /\ d.start = row.start /\ d.end = row.end /\ ~d.complete
    BY <2>1 DEF Coverages
  <2> HIDE DEF d
  <2>3. SoundFor(d, head', activity', Held')
    BY <2>1, <2>2, SoundSame
  <2> QED
    BY <2>1, <2>2, <2>3 DEF d
<1>4. CASE \E c \in Coverages : SoundFor(c, head', activity', Held') /\ Return(a, c)
  BY <1>1, <1>4, KeptSound, ReturnSound DEF AllSound
<1>5. CASE ReadCheckpoint(a)
  <2>1. CASE row # NoRow /\ row.complete
    BY <1>3, <1>4, <1>5, <2>1 DEF ReadCheckpoint
  <2>2. CASE ~(row # NoRow /\ row.complete)
    <3>1. /\ seen' = [seen EXCEPT ![a] = row] /\ pc' = [pc EXCEPT ![a] = "chain"]
          /\ UNCHANGED <<kind, latest, first, cov>>
      BY <1>5, <2>2 DEF ReadCheckpoint, Goto
    <3>2. TaskSound(a)'
      <4>1. /\ latest[a] <= head'
            /\ first[a] # Null => first[a] \in activity' /\ \A b \in activity' : first[a] <= b
        BY <1>5, <2>2 DEF ReadCheckpoint, AllSound, TaskSound, chainVars
      <4>2. seen'[a] = row /\ pc'[a] = "chain"
        BY <3>1 DEF TypeInv, TypeOK
      <4> QED
        BY <1>3, <3>1, <4>1, <4>2 DEF TaskSound, Sound
    <3>3. ASSUME NEW b \in Analyses \ {a} PROVE TaskSound(b)'
      BY <3>1, <3>3, OthersSound DEF TypeInv, TypeOK
    <3> QED
      BY <1>1, <3>2, <3>3, KeptSound DEF AllSound
  <2> QED
    BY <2>1, <2>2
<1>6. CASE DeferCheckpoint(a)
  BY <1>2, <1>3, <1>4, <1>6 DEF DeferCheckpoint
<1>7. CASE FallBack(a)
  BY <1>2, <1>3, <1>4, <1>7 DEF FallBack
<1>8. CASE RowUnreadable(a)
  BY <1>2, <1>4, <1>8 DEF RowUnreadable
<1> QED
  BY <1>5, <1>6, <1>7, <1>8

(* The two chain queries. *)
LEMMA ChainSound ==
    ASSUME TypeInv, TypeInv', ChainInv, Grown, InUse, AllSound, NEW a \in Analyses,
           ReadLatest(a) \/ ReadFirst(a)
    PROVE  AllSound'
<1>1. /\ row' = row /\ snapshot' = snapshot /\ head' = head /\ activity' = activity
      /\ Held' = Held /\ seen' = seen /\ cov' = cov
      /\ pc'[a] \in {"chain", "fetch"}
      /\ \A b \in Analyses \ {a} :
            pc'[b] = pc[b] /\ latest'[b] = latest[b] /\ first'[b] = first[b]
  BY DEF Held, Crowded, ReadLatest, ReadFirst, Goto, chainVars, dbVars, TypeInv, TypeOK
<1>2. ASSUME NEW b \in Analyses \ {a} PROVE TaskSound(b)'
  BY <1>1, <1>2, OthersSound
<1>3. TaskSound(a)
  BY DEF AllSound
<1>4. latest'[a] <= head'
  BY <1>1, <1>3 DEF ReadLatest, ReadFirst, TaskSound, TypeInv, TypeOK, Blocks
<1>5. first'[a] # Null => first'[a] \in activity /\ \A b \in activity : first'[a] <= b
  <2>1. CASE ReadLatest(a)
    BY <1>3, <2>1 DEF ReadLatest, TaskSound
  <2>2. CASE ReadFirst(a)
    <3>1. activity # {}
      BY DEF InUse
    <3>2. first'[a] = Least(activity)
      BY <2>2, <3>1 DEF ReadFirst, TypeInv, TypeOK
    <3> QED
      BY <3>1, <3>2, LeastIn DEF TypeInv, TypeOK
  <2> QED
    BY <2>1, <2>2
<1>6. TaskSound(a)'
  BY <1>1, <1>3, <1>4, <1>5 DEF TaskSound, Sound
<1> QED
  BY <1>1, <1>2, <1>6, KeptSound DEF AllSound

(* The three saves of the checkpoint; the one for an empty wallet cannot happen. *)
LEMMA CheckpointSound ==
    ASSUME TypeInv, TypeInv', ChainInv, Grown, AllSound, NEW a \in Analyses,
           SaveEmpty(a) \/ SaveFinal(a) \/ SaveChunk(a)
    PROVE  AllSound'
<1>1. /\ snapshot' = snapshot /\ head' = head /\ activity' = activity
      /\ Held' = Held
  BY DEF Held, Crowded, SaveEmpty, SaveFinal, SaveChunk, chainVars
<1>2. PICK c \in Coverages : Sound(c) /\ SaveCoverage(c) /\ Return(a, c)
  <2>1. CASE SaveEmpty(a)
    <3>1. first[a] \in activity
      BY <2>1 DEF SaveEmpty, AllSound, TaskSound, Null, NoActivity
    <3>2. FALSE
      BY <2>1, <3>1 DEF SaveEmpty, TypeInv, TypeOK, Blocks, NoActivity
    <3> QED
      BY <3>2
  <2>2. CASE SaveFinal(a)
    BY <2>2, FinalSound DEF SaveFinal
  <2>3. CASE SaveChunk(a)
    BY <2>3, ChunkSound DEF SaveChunk
  <2> QED
    BY <2>1, <2>2, <2>3
<1>3. SoundFor(c, head', activity', Held')
  BY <1>1, <1>2 DEF Sound
<1> QED
  BY <1>1, <1>2, <1>3, SavedSound, ReturnSound, KeptSound DEF AllSound

(* A chunk's rows are stored before the checkpoint claims them, all of them that the
   pages of a query hold. *)
LEMMA IndexSound ==
    ASSUME TypeInv, TypeInv', ChainInv, Grown, AllSound, NEW a \in Analyses, IndexChunk(a)
    PROVE  AllSound'
<1>1. /\ row' = row /\ snapshot' = snapshot /\ head' = head /\ activity' = activity
      /\ seen' = seen /\ latest' = latest /\ first' = first /\ pc'[a] = "save"
      /\ \A b \in Analyses \ {a} : pc'[b] = pc[b] /\ cov'[b] = cov[b]
  BY DEF IndexChunk, Goto, chainVars, TypeInv, TypeOK
<1>2. ASSUME NEW b \in Analyses \ {a} PROVE TaskSound(b)'
  BY <1>1, <1>2, OthersSound
<1>3. TaskSound(a)
  BY DEF AllSound
<1>4. seen'[a] # NoRow => Sound(seen[a])'
  BY <1>1, <1>3, KeptSound DEF TaskSound, Sound, TypeInv, TypeOK
<1>5. activity \cap (ChunkStart(a)..ChunkEnd(a)) \subseteq Held'
  <2>1. /\ first[a] \in Blocks /\ ChunkStart(a) \in Blocks /\ ChunkEnd(a) \in Blocks
    BY ChunkTypes DEF IndexChunk
  <2>2. ChunkEnd(a) - ChunkStart(a) + 1 <= ChunkSize
    BY <2>1 DEF ChunkStart, Larger, Blocks
  <2>3. \A b \in activity \cap (ChunkStart(a)..ChunkEnd(a)) :
            b \in Fetched(ChunkStart(a), ChunkEnd(a)) \/ Crowded(b)
    BY <2>1, <2>2, FetchedHeld
  <2>4. Fetched(ChunkStart(a), ChunkEnd(a)) \subseteq stored' /\ stored \subseteq stored'
    BY DEF IndexChunk
  <2>5. {b \in activity : Crowded(b)} \subseteq Held'
    BY HeldGrows, <1>1, <2>4 DEF Held
  <2> QED
    BY <2>3, <2>4, <2>5 DEF Held
<1>6. ChunkStart(a)' = ChunkStart(a) /\ ChunkEnd(a)' = ChunkEnd(a)
  BY <1>1 DEF ChunkStart, ChunkEnd
<1>7. TaskSound(a)'
  BY <1>1, <1>3, <1>4, <1>5, <1>6 DEF TaskSound, Sound
<1> QED
  BY <1>1, <1>2, <1>7, KeptSound DEF AllSound

(* The steps after the backfill: the status row gets both bounds of the analysis or
   keeps both of its own, and the snapshot gets the analysis's coverage. *)
LEMMA FinishSound ==
    ASSUME TypeInv, TypeInv', ChainInv, Grown, AllSound, NEW a \in Analyses,
           PersistWindow(a) \/ PublishStatus(a) \/ InsertSnapshot(a)
    PROVE  AllSound'
<1>1. pc[a] \in {"window", "report", "insert"} /\ cov[a] \in Coverages
  BY DEF PersistWindow, PublishStatus, InsertSnapshot, TypeInv, TypeOK
<1>2. SoundFor(cov[a], head', activity', Held')
  BY <1>1, KeptSound DEF AllSound, TaskSound, Sound
<1>3. ASSUME NEW b \in Analyses PROVE TaskSound(b)'
  <2>1. /\ seen' = seen /\ latest' = latest /\ first' = first
        /\ b # a => pc'[b] = pc[b] /\ cov'[b] = cov[b]
        /\ pc'[a] \in {"report", "insert"} => cov' = cov
        /\ pc'[a] \in {"report", "insert", "resume", "idle"}
    BY DEF PersistWindow, PublishStatus, InsertSnapshot, EndJob, Goto, TypeInv, TypeOK
  <2> QED
    BY <1>1, <2>1, CopiesSound
<1>4. row' # NoRow => Sound(row)'
  <2>1. CASE row' = row
    BY <2>1, KeptSound
  <2>2. CASE PublishStatus(a) /\ row = NoRow
    <3> DEFINE d == [cov[a] EXCEPT !.text = TRUE]
    <3>1. row' = d
      BY <2>2 DEF PublishStatus
    <3>2. d.start = cov[a].start /\ d.end = cov[a].end /\ d.complete = cov[a].complete
      BY <1>1 DEF Coverages
    <3> HIDE DEF d
    <3> QED
      BY <1>2, <3>1, <3>2, SoundSame DEF Sound
  <2>3. CASE PublishStatus(a) /\ row # NoRow
    <3> DEFINE d == [cov[a] EXCEPT !.text = TRUE,
                                   !.first = Coalesce(@, row.first),
                                   !.start = Coalesce(@, row.start),
                                   !.end = Coalesce(@, row.end)]
    <3>1. row' = d /\ row \in Coverages
      BY <2>3 DEF PublishStatus, TypeInv, TypeOK
    <3>2. row.start = Null <=> row.end = Null
      BY <2>3 DEF AllSound, Sound, SoundFor
    <3>3. /\ d.start = Coalesce(cov[a].start, row.start)
          /\ d.end = Coalesce(cov[a].end, row.end) /\ d.complete = cov[a].complete
      BY <1>1 DEF Coverages
    <3>4. SoundFor(row, head', activity', Held')
      BY <2>3, <3>1, KeptSound DEF AllSound, Sound
    <3> HIDE DEF d
    <3>5. CASE cov[a].start # Null
      <4>1. d.start = cov[a].start /\ d.end = cov[a].end
        BY <1>2, <3>3, <3>5 DEF SoundFor, Coalesce
      <4> QED
        BY <1>2, <3>1, <3>3, <4>1, SoundSame DEF Sound
    <3>6. CASE cov[a].start = Null
      <4>1. d.start = row.start /\ d.end = row.end /\ ~d.complete
        BY <1>2, <3>3, <3>6 DEF SoundFor, Coalesce
      <4> QED
        BY <3>1, <3>4, <4>1, SoundSame DEF Sound
    <3> QED
      BY <3>5, <3>6
  <2> QED
    BY <2>1, <2>2, <2>3 DEF PersistWindow, PublishStatus, InsertSnapshot
<1>5. snapshot' # NoSnapshot => Sound(snapshot.coverage)'
  <2>1. CASE snapshot' = snapshot
    BY <2>1, KeptSound
  <2>2. CASE InsertSnapshot(a)
    <3>1. snapshot'.coverage = cov[a]
      BY <2>2 DEF InsertSnapshot
    <3> QED
      BY <1>2, <3>1 DEF Sound
  <2> QED
    BY <2>1, <2>2 DEF PersistWindow, PublishStatus, InsertSnapshot
<1> QED
  BY <1>3, <1>4, <1>5 DEF AllSound

(* The chain, the queue, failures and crashes. *)
LEMMA OutsideSound ==
    ASSUME TypeInv, TypeInv', ChainInv, Grown, AllSound,
           \/ NewBlock
           \/ \E a \in Analyses : Start(a) \/ Resume(a) \/ AdvanceFails(a) \/ Stop(a)
    PROVE  AllSound'
<1>1. CASE NewBlock
  <2>1. UNCHANGED <<row, snapshot, pc, seen, latest, first, cov>>
    BY <1>1 DEF NewBlock, dbVars, taskVars
  <2>2. ASSUME NEW b \in Analyses PROVE TaskSound(b)'
    BY <2>1, OthersSound
  <2> QED
    BY <2>1, <2>2, KeptSound DEF AllSound
<1>2. ASSUME NEW a \in Analyses, Start(a) \/ Resume(a) PROVE AllSound'
  <2>1. /\ UNCHANGED <<row, snapshot, seen, latest, first, cov>>
        /\ pc' = [pc EXCEPT ![a] = "read"]
    BY <1>2 DEF Start, Resume, Goto, dbVars
  <2>2. ASSUME NEW b \in Analyses PROVE TaskSound(b)'
    <3>1. pc'[b] = "read" \/ pc'[b] = pc[b]
      BY <2>1 DEF TypeInv, TypeOK
    <3> QED
      BY <2>1, <3>1, CopiesSound
  <2> QED
    BY <2>1, <2>2, KeptSound DEF AllSound
<1>3. ASSUME NEW a \in Analyses, AdvanceFails(a) PROVE AllSound'
  <2>1. /\ snapshot' = snapshot /\ ForgetCopies(a) /\ pc' = [pc EXCEPT ![a] = "fallback"]
        /\ head' = head /\ activity' = activity
    BY <1>3 DEF AdvanceFails, Goto, chainVars
  <2>2. row' # NoRow => Sound(row)'
    <3>1. CASE row' = row
      BY <3>1, KeptSound
    <3>2. CASE pc[a] = "save" /\ SaveCoverage(ChunkCoverage(a))
      <4>1. ChunkCoverage(a) \in Coverages /\ Sound(ChunkCoverage(a))
        BY <3>2, ChunkSound
      <4>2. SoundFor(ChunkCoverage(a), head', activity', Held')
        BY <4>1, KeptSound DEF Sound
      <4> QED
        BY <3>2, <4>1, <4>2, SavedSound
    <3> QED
      BY <1>3, <3>1, <3>2 DEF AdvanceFails
  <2> QED
    BY <2>1, <2>2, ForgottenSound, KeptSound DEF AllSound
<1>4. ASSUME NEW a \in Analyses, Stop(a) PROVE AllSound'
  <2>1. /\ row' = row /\ snapshot' = snapshot /\ ForgetCopies(a)
        /\ pc' = [pc EXCEPT ![a] = "idle"]
    BY <1>4 DEF Stop, Goto
  <2> QED
    BY <2>1, ForgottenSound, KeptSound DEF AllSound
<1> QED
  BY <1>1, <1>2, <1>3, <1>4

(* The inductive invariant holds at the start. *)
LEMMA InitSound == Init => BackfillInv
<1> SUFFICES ASSUME Init PROVE BackfillInv
  OBVIOUS
<1>1. TypeInv
  BY InitTypes
<1>2. ChainInv
  BY DEF Init, ChainInv
<1>3. AllSound
  BY <1>1 DEF Init, AllSound, TaskSound, TypeInv, TypeOK, Blocks, Null
<1> QED
  BY <1>1, <1>2, <1>3 DEF BackfillInv

(* Every step keeps the inductive invariant. *)
LEMMA NextSound ==
    ASSUME BackfillInv, [Next]_vars
    PROVE  BackfillInv'
<1>1. TypeInv' /\ ChainInv' /\ Grown /\ (InUse' => InUse)
  BY NextTypes, ChainGrows DEF BackfillInv
<1>2. ASSUME InUse' PROVE AllSound'
  <2>1. TypeInv /\ TypeInv' /\ ChainInv /\ Grown /\ InUse /\ AllSound
    BY <1>1, <1>2 DEF BackfillInv
  <2>2. CASE UNCHANGED vars
    <3>1. \A b \in Analyses : TaskSound(b)'
      BY <2>1, <2>2, OthersSound DEF vars
    <3> QED
      BY <2>1, <2>2, <3>1, KeptSound DEF vars, AllSound
  <2>3. ASSUME NEW a \in Analyses, Advance(a) PROVE AllSound'
    BY <2>1, <2>3, ReadSound, ChainSound, CheckpointSound, IndexSound DEF Advance
  <2>4. ASSUME NEW a \in Analyses, Finish(a) PROVE AllSound'
    BY <2>1, <2>4, FinishSound DEF Finish
  <2>5. ASSUME NEW a \in Analyses, RowUnreadable(a) PROVE AllSound'
    BY <2>1, <2>5, ReadSound
  <2> QED
    BY <2>1, <2>2, <2>3, <2>4, <2>5, OutsideSound DEF Next, Step
<1> QED
  BY <1>1, <1>2 DEF BackfillInv

(* What the inductive invariant is for. *)
LEMMA SoundImplies ==
    BackfillInv => ClaimedIsStored /\ CompleteFromFirst
BY DEF BackfillInv, AllSound, Sound, SoundFor, Held, ClaimedIsStored, CompleteFromFirst

(* The index never claims a block whose rows it has not stored, unless the pages of a
   query may have dropped them, however many rows the pages hold and however many
   analyses, crashes and failed saves interleave. *)
THEOREM ClaimsAreStored == Spec => []ClaimedIsStored
<1>1. BackfillInv /\ [Next]_vars => BackfillInv'
  BY NextSound
<1> QED
  BY <1>1, InitSound, SoundImplies, PTL DEF Spec

(* What the row or the snapshot calls complete reaches back to the wallet's first
   activity, whatever the pages drop. *)
THEOREM CompletenessReachesBack == Spec => []CompleteFromFirst
<1>1. BackfillInv /\ [Next]_vars => BackfillInv'
  BY NextSound
<1> QED
  BY <1>1, InitSound, SoundImplies, PTL DEF Spec
=============================================================================
