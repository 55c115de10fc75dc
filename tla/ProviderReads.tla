---------------------------- MODULE ProviderReads ----------------------------
(***************************************************************************)
(* How a wallet's past is read from a provider, newest first and page by   *)
(* page, while new transfers arrive: the EVM transfers of a backfill, one  *)
(* direction after the other (alchemy_client.go); the Solana signatures of *)
(* a window and then each transaction (helius_client.go, alchemy_client.go *)
(* after a refusal, providers/backfill.go); both directions at once for    *)
(* the copilot (alchemy-provider.ts).                                      *)
(*                                                                         *)
(* A transfer is its key, its direction and its day; 0 is a day that the   *)
(* provider does not tell.  Amounts and texts are left out.  What is read  *)
(* is a set of positions of the chain: of one direction it always comes    *)
(* newest first, so the set tells the order too.                           *)
(***************************************************************************)
EXTENDS Naturals, Sequences, FiniteSets, FiniteSetsExt

CONSTANTS
    Kinds,                  \* of reads, among "evm", "solana", "web"
    Arrivals,               \* by kind, the transfers that may arrive: way, later, twin
    ReadLimit,              \* HistoricalBackfillBatch.Limit
    PageSize,               \* 1000 entries of a page
    PageLimit,              \* alchemyMaxPages
    FirstDay, LastDay,      \* the window; alchemy-provider.ts has no end
    MaxChain,               \* bound: transfers
    MaxReadFailures         \* bound

Ways == {"in", "out", "all"}
Laters == {"yes", "no", "unknown"}

ASSUME ReadsAssumption ==
    /\ Kinds \subseteq {"evm", "solana", "web"}
    /\ \A kind \in Kinds : Arrivals[kind] \subseteq [way : Ways \cup {"self"}, later : Laters, twin : BOOLEAN]
    /\ ReadLimit \in Nat \ {0} /\ PageSize \in Nat \ {0} /\ PageLimit \in Nat \ {0}
    /\ FirstDay \in Nat \ {0} /\ LastDay \in Nat
    /\ MaxChain \in Nat /\ MaxReadFailures \in Nat

VARIABLES
    readKind,               \* the kind of this behaviour's read
    chain,                  \* the wallet's transfers, oldest first
    read,                   \* the read under way
    readFailures            \* bounded counter

readVars == <<readKind, chain, read, readFailures>>

(* The positions up to c of the transfers that go a way; the n newest of positions. *)
Goes(t, way) == way = "all" \/ t.way \in {way, "self"}
Upto(way, c) == {i \in 1..c : Goes(chain[i], way)}
Newest(positions, n) == {i \in positions : Cardinality({j \in positions : j > i}) < n}

(* Of positions, read newest first, those whose keys are of none before, nor of had. *)
Distinct(positions, had) ==
    {i \in positions : \A j \in {j \in positions : j > i} \cup had : chain[j].key # chain[i].key}

Older(i) == chain[i].day > 0 /\ chain[i].day < FirstDay
Newer(i) == chain[i].day > LastDay

NoRead == [at |-> "idle", provider |-> "none", open |-> {}, cursor |-> [w \in Ways |-> 0],
           from |-> [w \in Ways |-> 0], pages |-> [w \in Ways |-> 0], got |-> [w \in Ways |-> {}],
           listed |-> {}, absent |-> {}]

ReadsInit ==
    /\ readKind \in Kinds
    /\ chain = <<>> /\ read = NoRead /\ readFailures = 0
-----------------------------------------------------------------------------
(* A transfer arrives: on the last day that is known, later or on an unknown day; a twin
   has the key of the last, as two equal transfers of one transaction do. *)
Today == Max({1} \cup {chain[i].day : i \in DOMAIN chain})

Arrive(a) ==
    LET last == Len(chain)
        day == CASE a.later = "unknown" -> 0
                 [] a.later = "no" -> Today
                 [] a.later = "yes" -> IF last = 0 THEN 1 ELSE Today + 1
    IN
    /\ Len(chain) < MaxChain
    /\ a.twin => last > 0 /\ chain[last].way = a.way /\ chain[last].day = day
    /\ chain' = Append(chain, [way |-> a.way, day |-> day,
                               key |-> IF a.twin THEN chain[last].key ELSE last + 1])
    /\ UNCHANGED <<readKind, read, readFailures>>

Fresh(provider) ==
    [NoRead EXCEPT !.at = "pages", !.provider = provider,
                   !.open = CASE readKind = "evm" -> {"in"}
                              [] readKind = "web" -> {"in", "out"}
                              [] readKind = "solana" -> {"all"}]

BeginRead ==
    /\ read.at = "idle"
    /\ read' = Fresh(IF readKind = "solana" THEN "helius" ELSE "alchemy")
    /\ UNCHANGED <<readKind, chain, readFailures>>
-----------------------------------------------------------------------------
(* splitAlchemyDirectionLimit; one direction is at most a page. *)
Target(way) ==
    IF readKind = "solana" \/ ReadLimit = 1 THEN ReadLimit
    ELSE LET share == IF way = "in" THEN (ReadLimit + 1) \div 2 ELSE ReadLimit \div 2
         IN  IF PageSize < share THEN PageSize ELSE share

(* The entries that a page asks for. *)
Room(way) ==
    LET left == Target(way) - Cardinality(read.got[way])
    IN  IF readKind = "web" \/ PageSize < left THEN PageSize ELSE left

(* Those before the first entry that is known to be older than the window. *)
BeforeOlder(positions) == {i \in positions : \A j \in positions : j >= i => ~Older(j)}

(* Mutant of Kept: what an earlier page had is kept again. *)
KeptAgain(way, page) ==
    IF readKind = "solana" THEN {i \in BeforeOlder(page) : ~Newer(i)} ELSE page

(* What is kept of a page: what no earlier one had; all, until the end; what lies in the
   window.  No page asks for more than there is room for. *)
Kept(way, page) ==
    CASE readKind = "evm" -> Distinct(page, read.got["in"] \cup read.got["out"])
      [] readKind = "web" -> page
      [] readKind = "solana" -> {i \in BeforeOlder(page) : ~Newer(i)}

(* Another page of this way follows. *)
GoesOn(way, page, more, got, pages) ==
    CASE readKind = "evm" -> more /\ Cardinality(got) < Target(way)
      [] readKind = "web" -> more /\ page # {} /\ pages < PageLimit /\ \A i \in page : ~Older(i)
      [] readKind = "solana" -> page # {} /\ Cardinality(got) < Target(way) /\ \A i \in page : ~Older(i)

(* The next page begins after the last entry of this one: the page key, or "before". *)
After(page, c) == IF page = {} THEN c ELSE Min(page) - 1

(* The other direction is asked for unless the first filled the limit; the transactions
   once the signatures are listed. *)
Staged(r) ==
    IF r.open # {} THEN r
    ELSE CASE readKind = "evm" /\ r.pages["out"] = 0 /\ Cardinality(r.got["in"]) < ReadLimit
                   -> [r EXCEPT !.open = {"out"}]
           [] readKind = "solana" /\ r.got["all"] # {}
                   -> [r EXCEPT !.at = "transactions", !.listed = r.got["all"], !.got["all"] = {}]
           [] OTHER -> [r EXCEPT !.at = "done"]

(* One request: some entries, and whether the provider says there are more. *)
ReadPage(way) ==
    /\ read.at = "pages" /\ way \in read.open
    /\ LET head == IF read.pages[way] = 0 THEN Len(chain) ELSE read.cursor[way]
           rest == Upto(way, head)
       IN  \E n \in 0..Room(way), more \in BOOLEAN :
              LET page == Newest(rest, n)
                  got == read.got[way] \cup Kept(way, page)
                  pages == read.pages[way] + 1
              IN
              /\ n <= Cardinality(rest) /\ (n = 0 <=> rest = {})
              /\ page # rest => more
              /\ n = 0 => ~more
              /\ read' = Staged([read EXCEPT
                     !.cursor[way] = After(page, head),
                     !.from[way] = IF read.pages[way] = 0 THEN Len(chain) ELSE @,
                     !.pages[way] = pages, !.got[way] = got,
                     !.open = IF GoesOn(way, page, more, got, pages) THEN @ ELSE @ \ {way}])
    /\ UNCHANGED <<readKind, chain, readFailures>>

(* getTransaction; one that the provider does not have is passed over. *)
ReadTransaction(found) ==
    LET i == Max(read.listed)
        rest == read.listed \ {i}
    IN
    /\ read.at = "transactions"
    /\ read' = [read EXCEPT !.listed = rest, !.at = IF rest = {} THEN "done" ELSE @,
                            !.got["all"] = IF found THEN @ \cup {i} ELSE @,
                            !.absent = IF found THEN @ ELSE @ \cup {i}]
    /\ UNCHANGED <<readKind, chain, readFailures>>

(* A request fails: nothing of the read is kept; it may be made again later.  Helius
   refused to a paid plan is asked of Alchemy from the beginning. *)
ReadFails(refused) ==
    /\ read.at \in {"pages", "transactions"} /\ readFailures < MaxReadFailures
    /\ refused => read.provider = "helius"
    /\ readFailures' = readFailures + 1
    /\ read' = IF refused THEN Fresh("alchemy") ELSE NoRead
    /\ UNCHANGED <<readKind, chain>>
-----------------------------------------------------------------------------
ReadsNext ==
    \/ \E a \in Arrivals[readKind] : Arrive(a)
    \/ BeginRead
    \/ \E way \in Ways : ReadPage(way)
    \/ \E found \in BOOLEAN : ReadTransaction(found)
    \/ \E refused \in BOOLEAN : ReadFails(refused)

ReadsSpec == ReadsInit /\ [][ReadsNext]_readVars
-----------------------------------------------------------------------------
ReadsTypeOK ==
    /\ readKind \in Kinds /\ Len(chain) <= MaxChain /\ readFailures \in 0..MaxReadFailures
    /\ read.at \in {"idle", "pages", "transactions", "done"}
    /\ read.provider \in {"none", "alchemy", "helius"} /\ read.open \subseteq Ways
    /\ \A w \in Ways : /\ read.got[w] \subseteq DOMAIN chain /\ read.cursor[w] <= Len(chain)
                       /\ readKind = "web" => read.pages[w] <= PageLimit

(* What the copilot keeps of both directions: each key once, within the window. *)
WebKept ==
    {i \in Distinct(read.got["out"], {}) \cup Distinct(read.got["in"], read.got["out"]) :
        chain[i].day >= FirstDay}

(* However a read is cut into pages, whatever arrives meanwhile, and after any number of
   failures and a change of provider, it returns what one page without end, asked for at
   once, would have: the newest transfers of each direction up to its share of the limit,
   none twice; the newest of the window but those that are gone; for the copilot every
   transfer of the window, unless the pages ran out. *)
ReadIsWhole ==
    read.at = "done" =>
        CASE readKind = "evm" ->
                LET in == Newest(Distinct(Upto("in", read.from["in"]), {}), Target("in"))
                IN  /\ read.got["in"] = in
                    /\ read.got["out"] =
                         IF Cardinality(in) = ReadLimit THEN {}
                         ELSE Newest(Distinct(Upto("out", read.from["out"]), in), Target("out"))
          [] readKind = "solana" ->
                LET window == {i \in BeforeOlder(Upto("all", read.from["all"])) : ~Newer(i)}
                IN  read.got["all"] = Newest(window, ReadLimit) \ read.absent
          [] readKind = "web" ->
                \A way \in {"in", "out"} :
                    read.pages[way] < PageLimit =>
                        \A i \in Upto(way, read.from[way]) :
                            chain[i].day >= FirstDay => \E j \in WebKept : chain[j].key = chain[i].key
=============================================================================
