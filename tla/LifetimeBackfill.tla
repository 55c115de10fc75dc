--------------------------- MODULE LifetimeBackfill ---------------------------
(***************************************************************************)
(* One wallet's lifetime index: the checkpoint row that                    *)
(* apps/web/lib/wallet-copilot/lifetime-backfill.ts moves back through the *)
(* chain one chunk of blocks at a time, the rows it stores on the way and  *)
(* the snapshot of the last analysis (agent.ts, index-repository.ts).      *)
(* Analyses of the same wallet (over 7, 30 or 90 days, or resumed by a     *)
(* continuation job) share the row and are not serialised: each reads it,  *)
(* works from that copy, and writes it back without comparing.             *)
(*                                                                         *)
(* A block stands for the wallet's transactions in it; each needs its      *)
(* receipt, as a swap through a known router does.                         *)
(***************************************************************************)
EXTENDS Integers, FiniteSets

CONSTANTS
    Analyses,           \* analyses that may run at the same time
    ChunkSize,          \* QORVI_LIFETIME_BLOCK_CHUNK_SIZE, in blocks
    RowLimit,           \* rows of all pages of one Etherscan query
    WindowSize,         \* blocks of the selected window of days
    Deferral,           \* values of QORVI_DEFER_LIFETIME_BACKFILL among the servers
    Histories,          \* the sets of blocks where the wallet may have acted at the start
    FirstHead,          \* the chain's latest block at the start
    MaxHead,            \* bound: the chain's latest block
    MaxStarts,          \* bound: analyses that clients ask for
    MaxDisturbances     \* bound: provider and database errors, crashes

ASSUME ChunkAssumption == ChunkSize \in Nat \ {0} /\ WindowSize \in Nat \ {0}
ASSUME RowLimitAssumption == RowLimit \in Nat \ {0}
ASSUME DeferralAssumption == Deferral \subseteq BOOLEAN
ASSUME ChainAssumption == /\ FirstHead \in Nat \ {0} /\ MaxHead \in Nat
                          /\ FirstHead <= MaxHead
                          /\ Histories \subseteq SUBSET (1..FirstHead)
ASSUME BoundsAssumption == MaxStarts \in Nat /\ MaxDisturbances \in Nat

VARIABLES
    head, activity,     \* the chain: latest block, blocks where the wallet acts
    row,                \* wallet_copilot_index_status
    stored, receipts,   \* blocks whose transactions, whose receipts are stored
    snapshot,           \* the latest wallet_copilot_analysis_snapshots row
    pc, kind,           \* each analysis: the call it awaits, what was asked for
    seen, latest, first,\* its copy of the row, latest and first activity block
    cov,                \* the coverage that its advanceLifetimeBackfill returned
    starts, disturbances \* bounded counters

chainVars == <<head, activity>>
dbVars    == <<row, stored, receipts, snapshot>>
taskVars  == <<pc, kind, seen, latest, first, cov>>
vars == <<head, activity, row, stored, receipts, snapshot, pc, kind, seen, latest,
          first, cov, starts, disturbances>>
-----------------------------------------------------------------------------
Blocks == 1..MaxHead
Null == -1              \* SQL NULL; also a block that was not read yet
NoActivity == -2        \* findEtherscanFirstActivityBlock found none
Marks == {"unavailable", "partial", "complete"}
Kinds == {"full", "continuation"}
Labels == {"idle", "read", "chain", "fetch", "save", "fallback", "window",
           "report", "insert", "resume"}

(* WalletIndexCoverage: bounds are lifetime_start_block, indexed_start_block and
   indexed_end_block; receipts is receipt_log_coverage.  They are text in a coverage
   read from the row: postgres returns BIGINT columns as strings. *)
Coverages == [complete : BOOLEAN, first : Blocks \cup {Null},
              start : Blocks \cup {Null}, end : Blocks \cup {Null},
              receipts : Marks, text : BOOLEAN]
NoCoverage == [complete |-> FALSE, first |-> Null, start |-> Null, end |-> Null,
               receipts |-> "unavailable", text |-> FALSE]
NoRow == [absent |-> TRUE]
Snapshots == [performance : {"complete", "partial"}, coverage : Coverages]
NoSnapshot == [absent |-> TRUE]

Least(S) == CHOOSE b \in S : \A c \in S : b <= c
Larger(a, b) == IF a >= b THEN a ELSE b
Coalesce(new, old) == IF new # Null THEN new ELSE old

(* What the pages of one query over from..to hold: the rows past the last page
   that is fetched are dropped, the latest blocks first. *)
Fetched(from, to) ==
    {b \in activity \cap (from..to) :
        Cardinality({c \in activity \cap (from..to) : c <= b}) <= RowLimit}

(* Mutant of ChunkEnd: every chunk is taken from the head. *)
ChunkEndAtHead(a) == latest[a]

(* The chunk below the checkpoint copy of analysis a, from the head if none. *)
ChunkEnd(a) == IF seen[a] # NoRow /\ seen[a].start # Null THEN seen[a].start - 1
               ELSE latest[a]

ChunkStart(a) == Larger(first[a], ChunkEnd(a) - ChunkSize + 1)

(* Strings of digits are compared digit by digit: "10" comes before "9". *)
Digits(n) == CHOOSE d \in 1..n : 10 ^ (d - 1) <= n /\ n < 10 ^ d
TextGreater(m, n) ==
    LET p == m * 10 ^ Digits(n)
        q == n * 10 ^ Digits(m)
    IN  p > q \/ (p = q /\ m > n)

(* needsLifetimeContinuation *)
NeedsContinuation(c) ==
    /\ ~c.complete /\ c.start # Null /\ c.first # Null
    /\ IF c.text THEN TextGreater(c.start, c.first) ELSE c.start > c.first

Goto(a, label) == pc' = [pc EXCEPT ![a] = label]

(* The job's result has coverage c: a continuation is queued if it needs one. *)
EndJob(a, c) ==
    /\ Goto(a, IF NeedsContinuation(c) THEN "resume" ELSE "idle")
    /\ kind' = [kind EXCEPT ![a] = "full"]
    /\ cov' = [cov EXCEPT ![a] = NoCoverage]

(* advanceLifetimeBackfill returned c.  A continuation job whose history is still
   partial ends with it; one that completed it runs the whole analysis again. *)
Return(a, c) ==
    /\ \/ /\ kind[a] = "full"
          /\ Goto(a, "window")
          /\ cov' = [cov EXCEPT ![a] = c]
          /\ UNCHANGED kind
       \/ /\ kind[a] = "continuation" /\ c.complete
          /\ Goto(a, "read")
          /\ kind' = [kind EXCEPT ![a] = "full"]
          /\ cov' = [cov EXCEPT ![a] = NoCoverage]
       \/ /\ kind[a] = "continuation" /\ ~c.complete
          /\ EndJob(a, c)
    /\ seen' = [seen EXCEPT ![a] = NoRow]
    /\ latest' = [latest EXCEPT ![a] = Null]
    /\ first' = [first EXCEPT ![a] = Null]
-----------------------------------------------------------------------------
Init ==
    /\ head = FirstHead /\ activity \in Histories
    /\ row = NoRow /\ stored = {} /\ receipts = {} /\ snapshot = NoSnapshot
    /\ pc = [a \in Analyses |-> "idle"]
    /\ kind = [a \in Analyses |-> "full"]
    /\ seen = [a \in Analyses |-> NoRow]
    /\ latest = [a \in Analyses |-> Null]
    /\ first = [a \in Analyses |-> Null]
    /\ cov = [a \in Analyses |-> NoCoverage]
    /\ starts = 0 /\ disturbances = 0

(* The chain grows by a block, in which the wallet may act. *)
NewBlock ==
    /\ head < MaxHead
    /\ head' = head + 1
    /\ activity' \in {activity, activity \cup {head + 1}}
    /\ UNCHANGED <<dbVars, taskVars, starts, disturbances>>

(* A job whose cache entry is absent runs the full analysis. *)
Start(a) ==
    /\ pc[a] = "idle"
    /\ starts < MaxStarts
    /\ starts' = starts + 1
    /\ Goto(a, "read")
    /\ UNCHANGED <<chainVars, dbVars, kind, seen, latest, first, cov, disturbances>>

(* The continuation job that the previous result of this analysis has queued. *)
Resume(a) ==
    /\ pc[a] = "resume"
    /\ kind' = [kind EXCEPT ![a] = "continuation"]
    /\ Goto(a, "read")
    /\ UNCHANGED <<chainVars, dbVars, seen, latest, first, cov, starts, disturbances>>
-----------------------------------------------------------------------------
(* advanceLifetimeBackfill *)

(* getWalletIndexCoverage: a complete index needs no more work. *)
ReadCheckpoint(a) ==
    /\ pc[a] = "read"
    /\ kind[a] = "full" => FALSE \in Deferral
    /\ IF row # NoRow /\ row.complete
       THEN Return(a, row)
       ELSE /\ seen' = [seen EXCEPT ![a] = row]
            /\ Goto(a, "chain")
            /\ UNCHANGED <<kind, latest, first, cov>>
    /\ UNCHANGED <<chainVars, dbVars, starts, disturbances>>

(* getDeferredLifetimeCoverage: the analysis takes the row as it is. *)
DeferCheckpoint(a) ==
    /\ pc[a] = "read" /\ kind[a] = "full"
    /\ TRUE \in Deferral
    /\ Return(a, IF row = NoRow THEN NoCoverage ELSE row)
    /\ UNCHANGED <<chainVars, dbVars, starts, disturbances>>

(* The two chain queries run side by side and answer in either order. *)
ReadLatest(a) ==
    /\ pc[a] = "chain" /\ latest[a] = Null
    /\ latest' = [latest EXCEPT ![a] = head]
    /\ Goto(a, IF first[a] = Null THEN "chain" ELSE "fetch")
    /\ UNCHANGED <<chainVars, dbVars, kind, seen, first, cov, starts, disturbances>>

ReadFirst(a) ==
    /\ pc[a] = "chain" /\ first[a] = Null
    /\ first' = [first EXCEPT ![a] = IF activity = {} THEN NoActivity ELSE Least(activity)]
    /\ Goto(a, IF latest[a] = Null THEN "chain" ELSE "fetch")
    /\ UNCHANGED <<chainVars, dbVars, kind, seen, latest, cov, starts, disturbances>>

(* ON CONFLICT DO UPDATE of saveWalletIndexCoverage: bounds and completeness are
   overwritten, a partial receipt mark is kept, a complete one beats none. *)
SaveCoverage(c) ==
    LET marks == {c.receipts} \cup (IF row = NoRow THEN {} ELSE {row.receipts})
    IN  row' = [c EXCEPT
            !.text = TRUE,
            !.first = IF row = NoRow THEN @ ELSE Coalesce(@, row.first),
            !.receipts = IF "partial" \in marks THEN "partial"
                         ELSE IF "complete" \in marks THEN "complete"
                         ELSE "unavailable"]

EmptyCoverage(a) ==
    [complete |-> TRUE, first |-> latest[a], start |-> latest[a], end |-> latest[a],
     receipts |-> "unavailable", text |-> FALSE]

(* No activity was found: the latest block alone makes the index complete. *)
SaveEmpty(a) ==
    /\ pc[a] = "fetch" /\ first[a] = NoActivity
    /\ SaveCoverage(EmptyCoverage(a))
    /\ Return(a, EmptyCoverage(a))
    /\ UNCHANGED <<chainVars, stored, receipts, snapshot, starts, disturbances>>

(* Nothing is left below the checkpoint: its bounds are kept. *)
FinalCoverage(a) ==
    LET old == IF seen[a] = NoRow THEN NoCoverage ELSE seen[a]
    IN  [complete |-> TRUE, first |-> first[a],
         start |-> Coalesce(old.start, first[a]), end |-> Coalesce(old.end, latest[a]),
         receipts |-> old.receipts, text |-> FALSE]

SaveFinal(a) ==
    /\ pc[a] = "fetch" /\ first[a] # NoActivity
    /\ ChunkEnd(a) < first[a]
    /\ SaveCoverage(FinalCoverage(a))
    /\ Return(a, FinalCoverage(a))
    /\ UNCHANGED <<chainVars, stored, receipts, snapshot, starts, disturbances>>

(* Mutant of IndexChunk: the chunk's rows are not stored before the checkpoint. *)
IndexChunkUnstored(a) ==
    /\ pc[a] = "fetch" /\ first[a] # NoActivity
    /\ ChunkEnd(a) >= first[a]
    /\ cov' = [cov EXCEPT ![a].receipts = "complete"]
    /\ Goto(a, "save")
    /\ UNCHANGED <<chainVars, row, stored, receipts, snapshot, kind, seen, latest,
                   first, starts, disturbances>>

(* The chunk's rows are fetched and stored.  Receipts are best effort: where one
   cannot be read the chunk's mark is partial. *)
IndexChunk(a) ==
    LET rows == Fetched(ChunkStart(a), ChunkEnd(a))
    IN  /\ pc[a] = "fetch" /\ first[a] # NoActivity
        /\ ChunkEnd(a) >= first[a]
        /\ stored' = stored \cup rows
        /\ \E lost \in SUBSET rows :
              /\ Cardinality(lost) <= 1
              /\ receipts' = receipts \cup (rows \ lost)
              /\ cov' = [cov EXCEPT ![a].receipts =
                            IF lost = {} THEN "complete" ELSE "partial"]
        /\ Goto(a, "save")
        /\ UNCHANGED <<chainVars, row, snapshot, kind, seen, latest, first, starts,
                       disturbances>>

(* Mutant of ChunkCoverage: complete one block too early. *)
ChunkCoverageEarly(a) ==
    [complete |-> ChunkStart(a) <= first[a] + 1, first |-> first[a],
     start |-> ChunkStart(a),
     end |-> IF seen[a] = NoRow THEN ChunkEnd(a) ELSE Coalesce(seen[a].end, ChunkEnd(a)),
     receipts |-> cov[a].receipts, text |-> FALSE]

ChunkCoverage(a) ==
    [complete |-> ChunkStart(a) <= first[a], first |-> first[a],
     start |-> ChunkStart(a),
     end |-> IF seen[a] = NoRow THEN ChunkEnd(a) ELSE Coalesce(seen[a].end, ChunkEnd(a)),
     receipts |-> cov[a].receipts, text |-> FALSE]

SaveChunk(a) ==
    /\ pc[a] = "save"
    /\ SaveCoverage(ChunkCoverage(a))
    /\ Return(a, ChunkCoverage(a))
    /\ UNCHANGED <<chainVars, stored, receipts, snapshot, starts, disturbances>>
-----------------------------------------------------------------------------
(* computeWalletAnalysis, once the checkpoint is known *)

(* The selected window's rows are stored as well, receipts again best effort. *)
PersistWindow(a) ==
    LET rows == Fetched(head - WindowSize + 1, head)
    IN  /\ pc[a] = "window"
        /\ stored' = stored \cup rows
        /\ \E lost \in SUBSET rows :
              /\ Cardinality(lost) <= 1
              /\ receipts' = receipts \cup (rows \ lost)
        /\ Goto(a, "report")
        /\ UNCHANGED <<chainVars, row, snapshot, kind, seen, latest, first, cov,
                       starts, disturbances>>

(* persistWalletAnalysisSnapshot writes the row too: bounds coalesced, completeness
   and receipt mark those of this analysis. *)
PublishStatus(a) ==
    /\ pc[a] = "report"
    /\ row' = IF row = NoRow THEN [cov[a] EXCEPT !.text = TRUE]
              ELSE [cov[a] EXCEPT !.text = TRUE,
                                  !.first = Coalesce(@, row.first),
                                  !.start = Coalesce(@, row.start),
                                  !.end = Coalesce(@, row.end)]
    /\ Goto(a, "insert")
    /\ UNCHANGED <<chainVars, stored, receipts, snapshot, kind, seen, latest, first,
                   cov, starts, disturbances>>

(* buildPerformance: complete only on a complete index whose receipts are complete,
   and then only if prices and decoding allow it. *)
InsertSnapshot(a) ==
    /\ pc[a] = "insert"
    /\ \E p \in {"complete", "partial"} :
          /\ p = "complete" => cov[a].complete /\ cov[a].receipts = "complete"
          /\ snapshot' = [performance |-> p, coverage |-> cov[a]]
    /\ EndJob(a, cov[a])
    /\ UNCHANGED <<chainVars, row, stored, receipts, seen, latest, first, starts,
                   disturbances>>
-----------------------------------------------------------------------------
(* Disturbances *)

Disturb == /\ disturbances < MaxDisturbances
           /\ disturbances' = disturbances + 1

(* Rows a is storing one statement at a time when it fails: any part is stored. *)
InProgress(a) ==
    IF pc[a] = "fetch" /\ first[a] # NoActivity
    THEN Fetched(ChunkStart(a), ChunkEnd(a))
    ELSE IF pc[a] = "window" THEN Fetched(head - WindowSize + 1, head) ELSE {}

StorePart(a) == \E part \in SUBSET InProgress(a) : stored' = stored \cup part

ForgetCopies(a) ==
    /\ seen' = [seen EXCEPT ![a] = NoRow]
    /\ latest' = [latest EXCEPT ![a] = Null]
    /\ first' = [first EXCEPT ![a] = Null]
    /\ cov' = [cov EXCEPT ![a] = NoCoverage]

(* advanceLifetimeBackfill throws; what it saved last may have been committed. *)
AdvanceFails(a) ==
    /\ pc[a] \in {"read", "chain", "fetch", "save"}
    /\ Disturb
    /\ StorePart(a)
    /\ UNCHANGED row \/ (pc[a] = "save" /\ SaveCoverage(ChunkCoverage(a)))
    /\ ForgetCopies(a)
    /\ Goto(a, "fallback")
    /\ UNCHANGED <<chainVars, receipts, snapshot, kind, starts>>

(* advanceWalletIndexCheckpoint's catch block: the stored checkpoint, as partial. *)
FallBack(a) ==
    /\ pc[a] = "fallback"
    /\ Return(a, IF row = NoRow THEN NoCoverage ELSE [row EXCEPT !.complete = FALSE])
    /\ UNCHANGED <<chainVars, dbVars, starts, disturbances>>

(* The row cannot even be read: the analysis goes on without a coverage. *)
RowUnreadable(a) ==
    /\ pc[a] = "fallback" \/ (pc[a] = "read" /\ kind[a] = "full" /\ TRUE \in Deferral)
    /\ Disturb
    /\ Return(a, NoCoverage)
    /\ UNCHANGED <<chainVars, dbVars, starts>>

(* The analysis throws outside the backfill, or its process dies. *)
Stop(a) ==
    /\ pc[a] # "idle"
    /\ Disturb
    /\ StorePart(a)
    /\ ForgetCopies(a)
    /\ kind' = [kind EXCEPT ![a] = "full"]
    /\ Goto(a, "idle")
    /\ UNCHANGED <<chainVars, row, receipts, snapshot, starts>>
-----------------------------------------------------------------------------
Advance(a) ==
    \/ ReadCheckpoint(a) \/ DeferCheckpoint(a) \/ ReadLatest(a) \/ ReadFirst(a)
    \/ SaveEmpty(a) \/ SaveFinal(a) \/ IndexChunk(a) \/ SaveChunk(a) \/ FallBack(a)

Finish(a) == PersistWindow(a) \/ PublishStatus(a) \/ InsertSnapshot(a)

Step(a) == Advance(a) \/ Finish(a) \/ Resume(a)

Next ==
    \/ NewBlock
    \/ \E a \in Analyses :
          Start(a) \/ Step(a) \/ AdvanceFails(a) \/ RowUnreadable(a) \/ Stop(a)

Spec == Init /\ [][Next]_vars

(* An analysis that was started goes on, and cron runs the continuation it queues. *)
FairSpec == Spec /\ \A a \in Analyses : WF_vars(Step(a))
-----------------------------------------------------------------------------
(* Every variable keeps its type; the bounds of the model are respected. *)
TypeOK ==
    /\ head \in Blocks /\ activity \in SUBSET Blocks
    /\ row \in Coverages \cup {NoRow}
    /\ stored \in SUBSET Blocks /\ receipts \in SUBSET Blocks
    /\ snapshot \in Snapshots \cup {NoSnapshot}
    /\ pc \in [Analyses -> Labels]
    /\ kind \in [Analyses -> Kinds]
    /\ seen \in [Analyses -> Coverages \cup {NoRow}]
    /\ latest \in [Analyses -> Blocks \cup {Null}]
    /\ first \in [Analyses -> Blocks \cup {Null, NoActivity}]
    /\ cov \in [Analyses -> Coverages]
    /\ starts \in 0..MaxStarts /\ disturbances \in 0..MaxDisturbances

Claims(c) == IF c.start = Null THEN {} ELSE c.start..c.end

(* Block b ends a stretch of a chunk's length with more rows than the pages hold: a query
   that begins in the stretch drops the rows of b, and nobody is told. *)
Crowded(b) == Cardinality(activity \cap (b - ChunkSize + 1 .. b)) > RowLimit

(* The wallet had acted before it was first looked up.  An unused wallet's index is
   closed at the latest block even if the first activity is mined between the two
   chain queries, so the next two properties are about wallets in use. *)
InUse == \E b \in activity : b <= FirstHead

(* Whatever races, fails or crashes, the index never claims a block it has not
   stored, but for those whose rows the pages of a query drop: every block between
   indexed_start_block and indexed_end_block in which the wallet acts has its rows,
   unless the wallet had more rows than the pages hold within a chunk's length up to
   it.  Nothing serialises the analyses of one wallet; this rests on storing a chunk
   before the checkpoint, and on two bounds that always come from the same copy of
   the row. *)
ClaimedIsStored ==
    InUse /\ row # NoRow =>
        \A b \in activity \cap Claims(row) : b \in stored \/ Crowded(b)

(* A history called complete begins at the wallet's first activity, in the row and
   in the snapshot clients read, though slower analyses write back older bounds. *)
CompleteFromFirst ==
    InUse =>
        /\ row # NoRow /\ row.complete => \A b \in activity : row.start <= b
        /\ snapshot # NoSnapshot /\ snapshot.coverage.complete =>
              \A b \in activity : snapshot.coverage.start <= b

(* A snapshot whose performance is called complete has the receipts of every block
   its index claims, as its explanation to the user says. *)
CompletePerformanceHasReceipts ==
    snapshot # NoSnapshot /\ snapshot.performance = "complete" =>
        activity \cap Claims(snapshot.coverage) \subseteq receipts

HistoryLeft(c) == ~c.complete /\ c.start # Null /\ c.start > c.first

(* History is left, but no text tells: jobs.ts:389 finds the start, which has more
   digits than the first activity, not beyond it. *)
LooksFinished(c) == HistoryLeft(c) /\ ~TextGreater(c.start, c.first)

(* Analyses that overwrite each other's checkpoints still come to an end: unless
   something fails, an index with history left becomes complete, or its row stays
   where a deferred analysis put it back last, at bounds that look finished when they
   are compared as text. *)
BackfillConverges ==
    (row # NoRow /\ HistoryLeft(row))
        ~> \/ (row # NoRow /\ row.complete) \/ disturbances > 0
           \/ TRUE \in Deferral /\ [](row # NoRow /\ LooksFinished(row))

(* An analysis that ends with history left to index queues its continuation, also
   when it had to fall back on the stored checkpoint. *)
HistoryLeftIsQueued ==
    [][\A a \in Analyses :
          pc[a] = "insert" /\ HistoryLeft(cov[a]) /\ InsertSnapshot(a)
              => pc'[a] = "resume"]_vars
=============================================================================
