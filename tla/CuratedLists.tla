--------------------------- MODULE CuratedLists ---------------------------
(***************************************************************************)
(* The curated lists of the admin console and the index of entities made   *)
(* of them: repository/admin_console.go, db/curated_entity_index.go, the   *)
(* import of wallet seeds (admin_curated_wallet_import.go), and the other  *)
(* writer of wallets.entity_key, the heuristics of ingest.                 *)
(*                                                                         *)
(* A change of the lists is one statement; then the index is rebuilt from  *)
(* all lists, a statement at a time and outside a transaction: the curated *)
(* assignments are cleared, the curated entities deleted, then each entity *)
(* and each assignment is written, and the graphs cached for the wallets   *)
(* concerned are dropped.  Any statement may fail and ends the request.    *)
(*                                                                         *)
(* A reader that misses the cache loads the graph, or takes its snapshot,  *)
(* and stores it afterwards: the index may be rebuilt in between.  Only    *)
(* the snapshot and the key of one hop are ever dropped; the key of two    *)
(* hops, which uses and fills the same snapshot, stays until it expires.   *)
(*                                                                         *)
(* Left out: names, notes and display names; heuristic entity rows, which  *)
(* are written before the assignment and never deleted; the check of the   *)
(* role, which precedes everything; the gap between the two deletions of a *)
(* graph, that between its two stores, and expiry (WalletCaches has them). *)
(***************************************************************************)
EXTENDS Integers, SequencesExt

CONSTANTS
    Admins,              \* requests of admins, one at a time each
    Importers,           \* runs of the import, one at a time each
    Wallets,
    Recognized,          \* wallets the heuristics know
    Readers,             \* reads of graphs that may be under way at once
    EntityKeys,          \* numbers, in the order of the keys
    CuratedItems,        \* items that may be added: EntityItem and WalletItem
    Seeds,               \* the import's file: a sequence of [category, wallet]
    FirstLists,          \* the lists at first: a set of sequences, newest list first
    MaxLists,            \* bound: lists at a time
    MaxListItems,        \* bound: items an admin puts in a list
    MaxListChanges,      \* bound: changes by admins
    MaxImports,          \* bound: runs of the import
    MaxHints,            \* bound: assignments by the heuristics
    MaxReads,            \* bound: reads that miss the cache
    MaxCuratedFailures   \* bound: statements that fail

NoKey == 0
NoWallet == "none"
Heuristic == -1
NoGraph == [key |-> -2, type |-> "none"]
Hops == 1..2
NoRead == [wallet |-> NoWallet, hops |-> 0, graph |-> NoGraph, loaded |-> FALSE, late |-> FALSE]
NoEntities == [k \in {} |-> "none"]
NoCategory == "none"
Categories == {NoCategory} \cup {Seeds[i].category : i \in DOMAIN Seeds}

EntityItem(k, type) == [item |-> "entity", key |-> k, wallet |-> NoWallet, type |-> type]
WalletItem(w) == [item |-> "wallet", key |-> NoKey, wallet |-> w, type |-> "none"]

(* The items there may be, and the lists. *)
AnyItem ==
    CuratedItems \cup {WalletItem(Seeds[n].wallet) : n \in DOMAIN Seeds}
        \cup UNION {UNION {ToSet(ls[n].items) : n \in DOMAIN ls} : ls \in FirstLists}
AnyList == [id : Nat \ {0}, category : Categories, items : Seq(AnyItem)]

ASSUME ItemsAssumption ==
    \A i \in AnyItem : \/ i = EntityItem(i.key, i.type) /\ i.key \in EntityKeys
                       \/ i = WalletItem(i.wallet) /\ i.wallet \in Wallets
ASSUME ListsAssumption ==
    /\ Seeds \in Seq([category : Categories \ {NoCategory}, wallet : Wallets])
    /\ \A ls \in FirstLists : ls \in Seq(AnyList) /\ \A n \in DOMAIN ls : ls[n].id <= Len(ls)
ASSUME KeysAssumption ==
    EntityKeys \subseteq Nat \ {0} /\ Recognized \subseteq Wallets /\ IsFiniteSet(Admins)

VARIABLES
    catalog,   \* the newest first: [id, category, items], the oldest item first
    born,      \* the last list's id
    assigned,  \* wallets.entity_key
    entities,  \* curated entity -> its type, for those stored
    cached,    \* <<wallet, hops>> -> the entity the graph under that key shows
    snapped,   \* wallet -> the entity the snapshot of its graph shows
    reader,    \* what each reader has in hand and will store
    request,   \* admin -> what the request has read and does next
    changes, auditLog, imports, hints, reads, failed,  \* counted
    hinting,   \* wallets whose graph the heuristics have still to drop
    overtaken, \* ghost: wallets for which a reader stored what a drop had overtaken
    trusted,   \* ghost: the last rebuild was alone, whole, and after the last change
    everMet    \* ghost: a rebuild has been disturbed

counts == <<changes, auditLog, imports, hints, reads, failed>>
graphs == <<cached, snapped, reader, overtaken>>
index == <<assigned, entities, graphs>>
ghosts == <<trusted, everMet>>
curatedVars == <<catalog, born, index, request, counts, hinting, ghosts>>

Writers == Admins \cup Importers
Idle == [step |-> "idle"]
Busy(a) == request[a].step # "idle"

(* buildCuratedEntityIndex goes through the lists in order and passes over those without an
   entity, of which a list's oldest counts, or without a wallet. *)
EntityRows(list) == {n \in DOMAIN list.items : list.items[n].item = "entity"}
NamedEntity(list) ==
    list.items[CHOOSE n \in EntityRows(list) : \A m \in EntityRows(list) : n <= m]
Whole(list) ==
    EntityRows(list) # {} /\ \E n \in DOMAIN list.items : list.items[n].item = "wallet"

(* A later list's definition of an entity replaces an earlier one's. *)
Define(defs, list) ==
    LET e == NamedEntity(list)
    IN  IF Whole(list)
        THEN [k \in DOMAIN defs \cup {e.key} |-> IF k = e.key THEN e.type ELSE defs[k]]
        ELSE defs

Definitions(ls) == FoldLeft(Define, NoEntities, ls)

(* A wallet is assigned where it is seen first. *)
AssignItem(found, item, key) ==
    IF item.item # "wallet" \/ \E n \in DOMAIN found : found[n].wallet = item.wallet
    THEN found ELSE Append(found, [wallet |-> item.wallet, key |-> key])

Assign(found, list) ==
    IF Whole(list)
    THEN FoldLeft(LAMBDA as, item : AssignItem(as, item, NamedEntity(list).key), found, list.items)
    ELSE found

Assignments(ls) == FoldLeft(Assign, <<>>, ls)

CuratedInit ==
    /\ catalog \in FirstLists /\ born = Len(catalog)
    /\ entities = Definitions(catalog)
    /\ assigned = [w \in Wallets |->
                      LET rows == Assignments(catalog)
                          of == {n \in DOMAIN rows : rows[n].wallet = w}
                      IN  IF of = {} THEN NoKey ELSE rows[CHOOSE n \in of : TRUE].key]
    /\ cached = [e \in Wallets \X Hops |-> NoGraph] /\ snapped = [w \in Wallets |-> NoGraph]
    /\ reader = [g \in Readers |-> NoRead] /\ overtaken = {}
    /\ request = [a \in Writers |-> Idle]
    /\ changes = 0 /\ auditLog = 0 /\ imports = 0 /\ hints = 0 /\ reads = 0 /\ failed = 0
    /\ hinting = {} /\ trusted = TRUE /\ everMet = FALSE

(* Where a request goes next; a change or a rebuild disturbs the rebuilds under way. *)
Turns(a, r) == request' = [request EXCEPT ![a] = r]
Rebuilding(b) == request[b].step \notin {"idle", "seeds"}
Rebuild(a) ==
    [step |-> "items", alone |-> \A b \in Writers \ {a} : ~Rebuilding(b),
     defs |-> NoEntities, todo |-> <<>>, refs |-> {}]
Disturbing(a, r) ==
    /\ trusted' = FALSE
    /\ everMet' = (everMet \/ \E b \in Writers \ {a} : Rebuilding(b))
    /\ request' = [b \in Writers |-> IF b = a THEN r
                                    ELSE IF Rebuilding(b) THEN [request[b] EXCEPT !.alone = FALSE]
                                    ELSE request[b]]
------------------------------------------------------------------------------
(* Changes of the lists, each one statement. *)
CreateList(ls, category) == <<[id |-> born + 1, category |-> category, items |-> <<>>]>> \o ls
AddItem(ls, n, i) == [ls EXCEPT ![n].items = Append(@, i)]
DeleteList(ls, n) == RemoveAt(ls, n)
DeleteItem(ls, n, i) == [ls EXCEPT ![n].items = RemoveAt(@, i)]

ChangeLists(a) ==
    /\ ~Busy(a) /\ changes < MaxListChanges
    /\ \/ Len(catalog) < MaxLists /\ catalog' = CreateList(catalog, NoCategory) /\ born' = born + 1
       \/ \E n \in DOMAIN catalog :
             /\ \/ catalog' = DeleteList(catalog, n)
                \/ Len(catalog[n].items) < MaxListItems
                     /\ \E i \in CuratedItems : catalog' = AddItem(catalog, n, i)
                \/ \E i \in DOMAIN catalog[n].items : catalog' = DeleteItem(catalog, n, i)
             /\ UNCHANGED born
    /\ changes' = changes + 1
    /\ Disturbing(a, Rebuild(a))
    /\ UNCHANGED <<index, auditLog, imports, hints, reads, failed, hinting>>

(* RunImport reads the lists, then goes through the seeds by what it read. *)
StartImport(a) ==
    /\ ~Busy(a) /\ imports < MaxImports
    /\ imports' = imports + 1
    /\ Turns(a, [step |-> "seeds", at |-> 1, changed |-> FALSE, saw |-> catalog])
    /\ UNCHANGED <<catalog, born, index, changes, auditLog, hints, reads, failed, hinting, ghosts>>

(* The oldest list of a category is the one the import uses; 0 for none. *)
ListOf(ls, c) ==
    LET of == {n \in DOMAIN ls : ls[n].category = c}
    IN  IF of = {} THEN 0 ELSE CHOOSE n \in of : \A m \in of : m <= n

ImportSeed(a) ==
    /\ request[a].step = "seeds" /\ request[a].at <= Len(Seeds)
    /\ LET seed == Seeds[request[a].at]
           saw == request[a].saw
           item == WalletItem(seed.wallet)
           n == ListOf(saw, seed.category)
       IN  \/ /\ n = 0 /\ Len(catalog) < MaxLists
              /\ catalog' = CreateList(catalog, seed.category) /\ born' = born + 1
              /\ Disturbing(a, [request[a] EXCEPT !.changed = TRUE,
                                                  !.saw = CreateList(@, seed.category)])
           \/ /\ n # 0 /\ item \in ToSet(saw[n].items)
              /\ Turns(a, [request[a] EXCEPT !.at = @ + 1])
              /\ UNCHANGED <<catalog, born, ghosts>>
           \/ /\ n # 0 /\ item \notin ToSet(saw[n].items)
              /\ \E m \in DOMAIN catalog :
                    /\ catalog[m].id = saw[n].id
                    /\ catalog' = AddItem(catalog, m, item)
              /\ Disturbing(a, [request[a] EXCEPT !.at = @ + 1, !.changed = TRUE,
                                                  !.saw = AddItem(@, n, item)])
              /\ UNCHANGED born
           \/ /\ n # 0 /\ item \notin ToSet(saw[n].items)
              /\ \A m \in DOMAIN catalog : catalog[m].id # saw[n].id
              /\ Turns(a, Idle)
              /\ UNCHANGED <<catalog, born, ghosts>>
    /\ UNCHANGED <<index, counts, hinting>>

(* The index is rebuilt only if this run of the import changed the lists. *)
SeedsDone(a) ==
    /\ request[a].step = "seeds" /\ request[a].at > Len(Seeds)
    /\ IF request[a].changed THEN Disturbing(a, Rebuild(a))
       ELSE Turns(a, Idle) /\ UNCHANGED ghosts
    /\ UNCHANGED <<catalog, born, index, counts, hinting>>
------------------------------------------------------------------------------
(* SyncAdminCuratedEntityIndex, a statement at a time. *)
Curated(w) == assigned[w] > NoKey

(* The loops over entities and assignments end where nothing is left. *)
Then(r) ==
    IF r.step = "entities" /\ r.defs = NoEntities
    THEN [r EXCEPT !.step = IF r.todo = <<>> THEN "graphs" ELSE "assignments"]
    ELSE IF r.step = "assignments" /\ r.todo = <<>> THEN [r EXCEPT !.step = "graphs"] ELSE r

ReadItems(a) ==
    /\ request[a].step = "items"
    /\ Turns(a, [request[a] EXCEPT !.step = "previous", !.defs = Definitions(catalog),
                                   !.todo = Assignments(catalog)])
    /\ UNCHANGED <<catalog, born, index, counts, hinting, ghosts>>

ReadPreviousLate(a) ==
    /\ request[a].step = "previous"
    /\ Turns(a, [request[a] EXCEPT !.step = "clear"])
    /\ UNCHANGED <<catalog, born, index, counts, hinting, ghosts>>

ReadPrevious(a) ==
    /\ request[a].step = "previous"
    /\ Turns(a, [request[a] EXCEPT !.step = "clear", !.refs = {w \in Wallets : Curated(w)}])
    /\ UNCHANGED <<catalog, born, index, counts, hinting, ghosts>>

ClearAssignments(a) ==
    /\ request[a].step = "clear"
    /\ assigned' = [w \in Wallets |-> IF Curated(w) THEN NoKey ELSE assigned[w]]
    /\ Turns(a, [request[a] EXCEPT !.step = "delete"])
    /\ UNCHANGED <<catalog, born, entities, graphs, counts, hinting, ghosts>>

DeleteEntities(a) ==
    /\ request[a].step = "delete"
    /\ entities' = NoEntities
    /\ Turns(a, Then([request[a] EXCEPT !.step = "entities"]))
    /\ UNCHANGED <<catalog, born, assigned, graphs, counts, hinting, ghosts>>

UpsertEntity(a) ==
    /\ request[a].step = "entities"
    /\ LET defs == request[a].defs
           k == CHOOSE k \in DOMAIN defs : \A j \in DOMAIN defs : k <= j
       IN  /\ entities' = [j \in DOMAIN entities \cup {k} |->
                              IF j = k THEN defs[k] ELSE entities[j]]
           /\ Turns(a, Then([request[a] EXCEPT !.defs = Restrict(@, DOMAIN defs \ {k})]))
    /\ UNCHANGED <<catalog, born, assigned, graphs, counts, hinting, ghosts>>

UpsertAssignment(a) ==
    /\ request[a].step = "assignments"
    /\ LET it == Head(request[a].todo)
       IN  /\ assigned' = [assigned EXCEPT ![it.wallet] = it.key]
           /\ Turns(a, Then([request[a] EXCEPT !.todo = Tail(@), !.refs = @ \cup {it.wallet}]))
    /\ UNCHANGED <<catalog, born, entities, graphs, counts, hinting, ghosts>>

(* InvalidateWalletGraphSnapshot: the key of one hop and the snapshot; what readers of
   these wallets have in hand is overtaken. *)
Drop(ws) ==
    /\ cached' = [e \in Wallets \X Hops |-> IF e[1] \in ws /\ e[2] = 1 THEN NoGraph ELSE cached[e]]
    /\ snapped' = [w \in Wallets |-> IF w \in ws THEN NoGraph ELSE snapped[w]]
    /\ reader' = [g \in Readers |-> IF reader[g] # NoRead /\ reader[g].wallet \in ws
                                    THEN [reader[g] EXCEPT !.late = TRUE] ELSE reader[g]]
    /\ overtaken' = overtaken \ ws

(* The graphs of the wallets assigned before and now are dropped, and the request
   answered; an admin's is put into the audit log. *)
InvalidateGraphs(a) ==
    /\ request[a].step = "graphs"
    /\ Drop(request[a].refs)
    /\ trusted' = request[a].alone /\ UNCHANGED everMet
    /\ auditLog' = IF a \in Admins THEN auditLog + 1 ELSE auditLog
    /\ Turns(a, Idle)
    /\ UNCHANGED <<catalog, born, assigned, entities, changes, imports, hints, reads, failed, hinting>>

Sync(a) ==
    ReadItems(a) \/ ReadPrevious(a) \/ ClearAssignments(a) \/ DeleteEntities(a)
        \/ UpsertEntity(a) \/ UpsertAssignment(a) \/ InvalidateGraphs(a)

(* Any statement may fail: the request ends where it is. *)
Abort(a) ==
    /\ Busy(a) /\ failed < MaxCuratedFailures
    /\ failed' = failed + 1
    /\ Turns(a, Idle)
    /\ UNCHANGED <<catalog, born, index, changes, auditLog, imports, hints, reads, hinting, ghosts>>
------------------------------------------------------------------------------
(* UpsertHeuristicEntityAssignments: a wallet without entity, or with a heuristic one. *)
Hint(w) ==
    /\ hints < MaxHints /\ w \notin hinting
    /\ hints' = hints + 1
    /\ assigned' = [assigned EXCEPT ![w] = IF Curated(w) THEN @ ELSE Heuristic]
    /\ hinting' = hinting \cup {w}
    /\ UNCHANGED <<catalog, born, entities, graphs, request, changes, auditLog, imports, reads,
                   failed, ghosts>>

HintInvalidates(w) ==
    /\ w \in hinting
    /\ hinting' = hinting \ {w}
    /\ Drop({w})
    /\ UNCHANGED <<catalog, born, assigned, entities, request, counts, ghosts>>

(* The wallet's row and the entities there are, as one query gives them. *)
Shows(w) ==
    CASE ~Curated(w) -> [key |-> assigned[w], type |-> "none"]
      [] assigned[w] \in DOMAIN entities -> [key |-> assigned[w], type |-> entities[assigned[w]]]
      [] OTHER -> [key |-> assigned[w], type |-> "unknown"]

(* CachedWalletGraphReader: a reader that misses takes the snapshot, or else loads, *)
ReadGraph(g, w, h) ==
    /\ reader[g] = NoRead /\ cached[<<w, h>>] = NoGraph /\ reads < MaxReads
    /\ reads' = reads + 1
    /\ LET loads == snapped[w] = NoGraph
       IN  reader' = [reader EXCEPT ![g] =
                         [wallet |-> w, hops |-> h, graph |-> IF loads THEN Shows(w) ELSE snapped[w],
                          loaded |-> loads, late |-> FALSE]]
    /\ UNCHANGED <<catalog, born, assigned, entities, cached, snapped, overtaken, request,
                   changes, auditLog, imports, hints, failed, hinting, ghosts>>

(* and stores what it has, a graph it loaded as the snapshot, too. *)
StoreGraph(g) ==
    LET got == reader[g]
    IN
    /\ got # NoRead
    /\ cached' = [cached EXCEPT ![<<got.wallet, got.hops>>] = got.graph]
    /\ snapped' = IF got.loaded THEN [snapped EXCEPT ![got.wallet] = got.graph] ELSE snapped
    /\ overtaken' = IF got.late /\ (got.loaded \/ got.hops = 1)
                    THEN overtaken \cup {got.wallet} ELSE overtaken
    /\ reader' = [reader EXCEPT ![g] = NoRead]
    /\ UNCHANGED <<catalog, born, assigned, entities, request, counts, hinting, ghosts>>

CuratedNext ==
    \/ \E a \in Admins : ChangeLists(a)
    \/ \E a \in Importers : StartImport(a) \/ ImportSeed(a) \/ SeedsDone(a)
    \/ \E a \in Writers : Sync(a) \/ Abort(a)
    \/ \E w \in Recognized : Hint(w) \/ HintInvalidates(w)
    \/ \E g \in Readers : StoreGraph(g) \/ \E w \in Wallets, h \in Hops : ReadGraph(g, w, h)

CuratedSpec == CuratedInit /\ [][CuratedNext]_curatedVars
------------------------------------------------------------------------------
(* The variables keep their types. *)
CuratedTypeOK ==
    /\ \A n \in DOMAIN catalog :
          /\ catalog[n].id \in 1..born /\ catalog[n].category \in Categories
          /\ \A i \in ToSet(catalog[n].items) : i.key \in EntityKeys \/ i.wallet \in Wallets
    /\ assigned \in [Wallets -> EntityKeys \cup {NoKey, Heuristic}]
    /\ DOMAIN entities \subseteq EntityKeys
    /\ hinting \subseteq Wallets /\ overtaken \subseteq Wallets
    /\ \A g \in Readers : reader[g] # NoRead => reader[g].wallet \in Wallets /\ reader[g].hops \in Hops
    /\ trusted \in BOOLEAN /\ everMet \in BOOLEAN
    /\ \A a \in Writers :
          request[a].step \in {"idle", "seeds", "items", "previous", "clear", "delete",
                               "entities", "assignments", "graphs"}

(* The entity the lists give a wallet: that of the newest list that has the wallet and an
   entity, the oldest of its entities; an entity's type is that of the oldest such list. *)
First(list) == list.items[CHOOSE i \in DOMAIN list.items :
                             /\ list.items[i].item = "entity"
                             /\ \A j \in 1..(i - 1) : list.items[j].item # "entity"]
Has(list, kinds) == \E i \in DOMAIN list.items : list.items[i] \in kinds
Naming(kinds) ==
    {n \in DOMAIN catalog : Has(catalog[n], kinds)
                               /\ \E i \in ToSet(catalog[n].items) : i.item = "entity"}
AnyWallet == {WalletItem(w) : w \in Wallets}
KeyInLists(w) ==
    LET of == Naming({WalletItem(w)})
    IN  IF of = {} THEN NoKey ELSE First(catalog[CHOOSE n \in of : \A m \in of : n <= m]).key
TypesInLists ==
    LET of(k) == {n \in Naming(AnyWallet) : First(catalog[n]).key = k}
    IN  [k \in {k \in EntityKeys : of(k) # {}} |->
            First(catalog[CHOOSE n \in of(k) : \A m \in of(k) : m <= n]).type]

(* After a rebuild of the index that ran alone and to its end, and until the next change,
   the wallets with a curated entity are those of the lists, whatever the heuristics wrote
   meanwhile and whatever earlier rebuilds left.  Unless a rebuild has ever failed or met
   another, what a request for one hop is served, under its key or from the snapshot, shows
   the entity its wallet has, but for a wallet one of whose readers got its graph, for one
   hop or two, before the last drop and stored it afterwards.  An admin's change misses in
   the audit log only for a statement that failed. *)
IndexFollowsLists ==
    /\ trusted =>
         /\ \A w \in Wallets : (IF Curated(w) THEN assigned[w] ELSE NoKey) = KeyInLists(w)
         /\ entities = TypesInLists
         /\ failed = 0 /\ ~everMet =>
               \A w \in Wallets \ (hinting \cup overtaken) :
                   {cached[<<w, 1>>], snapped[w]} \subseteq {NoGraph, Shows(w)}
    /\ changes <= auditLog + failed + Cardinality(Admins \cap {a \in Writers : Rebuilding(a)})
=============================================================================
