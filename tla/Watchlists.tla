----------------------------- MODULE Watchlists -----------------------------
(***************************************************************************)
(* The watchlists of one owner: requests of the API read them, decide, and *)
(* write back (service/watchlist.go), into Postgres in production and into *)
(* memory otherwise (repository/watchlist.go).  Alert rules are created in *)
(* the same way, up to a limit of their own.                               *)
(*                                                                         *)
(* An item is replaced together with its whole list: the service changes   *)
(* the list it has read and hands it to the repository.                    *)
(***************************************************************************)
EXTENDS Naturals, FiniteSets

CONSTANTS
    Names,                  \* names of lists
    ItemKeys,               \* wallets: chain and address
    Clients,                \* requests under way
    MaxWatchlists, MaxItems,        \* limitsForTier
    MaxWatchRequests        \* bound: requests

ASSUME LimitsAssumption == MaxWatchlists \in Nat \ {0} /\ MaxItems \in Nat \ {0}
ASSUME ClientsAssumption == IsFiniteSet(Clients) /\ MaxWatchRequests \in Nat

VARIABLES
    driver,                 \* the repository in use
    lists, created,         \* the owner's lists: name and items, by identifier; how many were made
    client,                 \* each request: its next call, its arguments, the list it read
    watchRequests,          \* bounded counter
    promised,               \* history: items answered as added, with their last note
    overlapped              \* history: two requests were under way together

watchVars == <<driver, lists, created, client, watchRequests, promised, overlapped>>

(* An item: its wallet, and whether its note and tags are the first or changed ones. *)
Items == [key : ItemKeys, changed : BOOLEAN]
NoList == [name |-> "none", items |-> {}]

NoClientRequest == [at |-> "idle", list |-> 0, item |-> "none", name |-> "none", read |-> NoList]

WatchInit ==
    /\ driver \in {"postgres", "memory"}
    /\ lists = [l \in {} |-> NoList] /\ created = 0
    /\ client = [c \in Clients |-> NoClientRequest]
    /\ watchRequests = 0
    /\ promised = {} /\ overlapped = FALSE

Total == Cardinality({p \in (DOMAIN lists) \X Items : p[2] \in lists[p[1]].items})

Reached(count, limit) == count >= limit

(* The repositories' UpdateWatchlist: Postgres writes a changed name and nothing else, *)
(* memory replaces the list.                                                           *)
UpdateWatchlist(l, w) ==
    lists' = IF driver = "postgres" THEN [lists EXCEPT ![l].name = w.name]
                                    ELSE [lists EXCEPT ![l] = w]
-----------------------------------------------------------------------------
Begin(c, request) ==
    /\ client[c].at = "idle" /\ watchRequests < MaxWatchRequests
    /\ client' = [client EXCEPT ![c] = request]
    /\ watchRequests' = watchRequests + 1
    /\ overlapped' = (overlapped \/ \E d \in Clients : client[d].at # "idle")
    /\ UNCHANGED <<driver, lists, created>>

(* A change or a deletion of an item is no longer promised what it was. *)
CreateWatchlist(c, n) ==
    Begin(c, [NoClientRequest EXCEPT !.at = "count", !.name = n]) /\ UNCHANGED promised

OnList(c, call, l, n) ==
    Begin(c, [NoClientRequest EXCEPT !.at = call, !.list = l, !.name = n]) /\ UNCHANGED promised

OnItem(c, call, l, k) ==
    /\ Begin(c, [NoClientRequest EXCEPT !.at = call, !.list = l, !.item = k])
    /\ promised' = IF call = "add" THEN promised
                   ELSE {p \in promised : p[1] # l \/ p[2].key # k}

Answered(c) == client' = [client EXCEPT ![c] = NoClientRequest]
Continues(c, label, w) == client' = [client EXCEPT ![c].at = label, ![c].read = w]

(* CreateWatchlist counts the lists and creates one more later. *)
CountWatchlists(c) ==
    /\ client[c].at = "count"
    /\ IF Reached(Cardinality(DOMAIN lists), MaxWatchlists)
       THEN Answered(c) ELSE Continues(c, "create", NoList)
    /\ UNCHANGED <<driver, lists, created, watchRequests, promised, overlapped>>

InsertWatchlist(c) ==
    /\ client[c].at = "create"
    /\ lists' = [l \in DOMAIN lists \cup {created + 1} |->
                    IF l = created + 1 THEN [name |-> client[c].name, items |-> {}] ELSE lists[l]]
    /\ created' = created + 1
    /\ Answered(c)
    /\ UNCHANGED <<driver, watchRequests, promised, overlapped>>

DeleteWatchlist(c) ==
    LET l == client[c].list
    IN
    /\ client[c].at = "delete"
    /\ lists' = [m \in (DOMAIN lists) \ {l} |-> lists[m]]
    /\ promised' = {p \in promised : p[1] # l}
    /\ Answered(c)
    /\ UNCHANGED <<driver, created, watchRequests, overlapped>>

(* FindWatchlist, and what the request makes of the list: another name, or an item more, *)
(* changed, or less.  An item that is there already, or is not, is an error.             *)
FindWatchlist(c) ==
    LET l == client[c].list
        k == client[c].item
        w == lists[l]
        others == {i \in w.items : i.key # k}
        known == others # w.items
        call == client[c].at
    IN
    /\ call \in {"rename", "add", "change", "remove"}
    /\ IF l \notin DOMAIN lists THEN Answered(c)
       ELSE IF call = "rename" THEN Continues(c, "write", [w EXCEPT !.name = client[c].name])
       ELSE IF known = (call = "add") THEN Answered(c)
       ELSE IF call = "add"
            THEN Continues(c, "total", [w EXCEPT !.items = others \cup {[key |-> k, changed |-> FALSE]}])
       ELSE IF call = "change"
            THEN Continues(c, "write", [w EXCEPT !.items = others \cup {[key |-> k, changed |-> TRUE]}])
       ELSE Continues(c, "write", [w EXCEPT !.items = others])
    /\ UNCHANGED <<driver, lists, created, watchRequests, promised, overlapped>>

TotalItems(c) ==
    /\ client[c].at = "total"
    /\ IF Reached(Total, MaxItems) THEN Answered(c) ELSE Continues(c, "write", client[c].read)
    /\ UNCHANGED <<driver, lists, created, watchRequests, promised, overlapped>>

(* The answer is 404 when the list has gone, and else the item is as the request had it. *)
WriteWatchlist(c) ==
    LET l == client[c].list
        w == client[c].read
    IN
    /\ client[c].at = "write"
    /\ IF l \in DOMAIN lists
       THEN /\ UpdateWatchlist(l, w)
            /\ promised' = promised \cup
                  {p \in {l} \X w.items : p[2].key = client[c].item}
       ELSE UNCHANGED <<lists, promised>>
    /\ Answered(c)
    /\ UNCHANGED <<driver, created, watchRequests, overlapped>>
-----------------------------------------------------------------------------
ClientStep(c) ==
    \/ CountWatchlists(c) \/ InsertWatchlist(c) \/ DeleteWatchlist(c)
    \/ FindWatchlist(c) \/ TotalItems(c) \/ WriteWatchlist(c)

WatchNext ==
    \E c \in Clients :
       \/ \E n \in Names : CreateWatchlist(c, n)
       \/ \E l \in DOMAIN lists :
             \/ \E n \in Names : OnList(c, "rename", l, n)
             \/ OnList(c, "delete", l, "none")
             \/ \E call \in {"add", "change", "remove"}, k \in ItemKeys : OnItem(c, call, l, k)
       \/ ClientStep(c)

WatchSpec == WatchInit /\ [][WatchNext]_watchVars
-----------------------------------------------------------------------------
WatchTypeOK ==
    /\ driver \in {"postgres", "memory"}
    /\ created \in 0..MaxWatchRequests /\ DOMAIN lists \subseteq 1..created
    /\ \A l \in DOMAIN lists : lists[l].name \in Names /\ lists[l].items \subseteq Items
    /\ \A c \in Clients :
          /\ client[c].at \in {"idle", "count", "create", "delete", "rename", "add", "change",
                               "remove", "total", "write"}
          /\ client[c].read.items \subseteq Items
    /\ watchRequests \in 0..MaxWatchRequests
    /\ promised \subseteq (1..created) \X Items /\ overlapped \in BOOLEAN

(* The limits are read before a list or an item is written: only requests that    *)
(* overlap exceed them, the lists never by as many as there are requests at once. *)
WithinPlanLimits ==
    /\ Cardinality(DOMAIN lists) < MaxWatchlists + Cardinality(Clients)
    /\ ~overlapped => Cardinality(DOMAIN lists) <= MaxWatchlists /\ Total <= MaxItems

(* service/watchlist_test.go:47-69, server/watchlist_test.go:70-130: an item that *)
(* was added or changed is in its list afterwards.  Requests that overlap may     *)
(* overwrite each other.                                                          *)
AddedIsListed ==
    overlapped \/ \A p \in promised : p[1] \in DOMAIN lists /\ p[2] \in lists[p[1]].items
=============================================================================
