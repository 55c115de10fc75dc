--------------------------- MODULE MCWalletIngest ---------------------------
(***************************************************************************)
(* What comes in about a wallet, for TLC: ProviderReads, the reading of    *)
(* its past; WalletIngest, the ingest of webhooks and backfills;           *)
(* Enrichment, what Moralis tells of it.  They share no state: a behaviour *)
(* is of one part, chosen at first, and the others stand still.            *)
(*                                                                         *)
(* The ingest has two webhooks, one of which names a transaction twice (it *)
(* has two transfers), and a backfill job of the same wallet.  Each        *)
(* transaction is carried by two of them.                                  *)
(***************************************************************************)
EXTENDS WalletIngest, ProviderReads, Enrichment, TLC

CONSTANTS tx1, tx2, hook1, hook2, job1

VARIABLE part

Parts == {"ingest", "reads", "enrichment"}

ItemsShared == hook1 :> <<tx1, tx2>> @@ hook2 :> <<tx2, tx2>> @@ job1 :> <<tx1>>

(* Directions matter to the EVM reads, days to the others. *)
ArrivalsShared ==
    [kind \in Kinds |->
        CASE kind = "evm" -> [way : {"in", "out", "self"}, later : {"no"}, twin : BOOLEAN]
          [] kind = "web" -> [way : {"in", "out", "self"}, later : {"yes", "no"}, twin : {FALSE}]
          [] kind = "solana" -> [way : {"in"}, later : {"yes", "no", "unknown"}, twin : {FALSE}]]

comingVars == <<part, vars, readVars, enrichVars>>

ComingInit == part \in Parts /\ Init /\ ReadsInit /\ EnrichInit /\ (part # "reads" => readKind = "evm")

(* Every part but p stands still. *)
Stand(p) ==
    /\ UNCHANGED part
    /\ IF p = "ingest" THEN TRUE ELSE UNCHANGED vars
    /\ IF p = "reads" THEN TRUE ELSE UNCHANGED readVars
    /\ IF p = "enrichment" THEN TRUE ELSE UNCHANGED enrichVars

ComingNext ==
    \/ part = "ingest" /\ Next /\ Stand(part)
    \/ part = "reads" /\ ReadsNext /\ Stand(part)
    \/ part = "enrichment" /\ EnrichNext /\ Stand(part)

(* The fairness of WalletIngest. *)
ComingSpec ==
    /\ ComingInit /\ [][ComingNext]_comingVars
    /\ \A b \in Batches : WF_comingVars(part = "ingest" /\ Step(b) /\ Stand(part))

(* What was accepted is ingested once everything stands, unless a failure left its claim;
   what a read returns is what one page without end would have; an undisturbed enrichment
   leaves the row and the caches alike. *)
ComesInWhole == AcceptedIsIngested /\ ReadIsWhole /\ EnrichmentAgrees

(* The variables of the parts keep their types. *)
ComingTypeOK == TypeOK /\ ReadsTypeOK /\ EnrichTypeOK
=============================================================================
