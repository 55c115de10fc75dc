----------------------------- MODULE AlertRules -----------------------------
(***************************************************************************)
(* The alert rules of one owner, as the browser makes and changes them     *)
(* over the API (web/lib/api-boundary.ts, service/alert_rule.go).  To      *)
(* track a wallet is a series of requests: the list "Tracked wallets" is   *)
(* found or created, the wallet added unless it is there, and the list's   *)
(* rule found or created.  To mute or snooze a rule is to read it and      *)
(* write it back changed.  Nothing keeps two tabs apart.                   *)
(*                                                                         *)
(* Time is counted in the 24 hours of a snooze; 0 is no snooze.  Lists and *)
(* items of other names, texts and tags are left out; the steps of one     *)
(* watchlist request are in Watchlists, what a rule does in AlertDelivery. *)
(***************************************************************************)
EXTENDS Naturals, Sequences, FiniteSets

CONSTANTS
    Tabs,                   \* open pages of the owner
    Trackable,              \* wallets
    RuleLimit,              \* alertRuleLimitForTier
    MaxDay,                 \* bound: time
    MaxTabRequests,         \* bound: wallets tracked, rules changed or deleted
    MaxTabFailures          \* bound: requests that fail

ASSUME RuleLimitAssumption == RuleLimit \in Nat \ {0}
ASSUME TabBoundsAssumption == MaxDay \in Nat \ {0} /\ {MaxTabRequests, MaxTabFailures} \subseteq Nat

VARIABLES
    storesItems,            \* the repository in use stores the items it answers (Watchlists)
    day,
    tracked,                \* the lists "Tracked wallets": the wallets of each
    ruleRows,               \* alert_rules, in the order of creation
    page,                   \* each tab: the rules its alert center shows
    tab,                    \* each tab: its next request and what it has read
    tabRequests, tabFailures,       \* bounded counters
    crossed,                \* history: two tabs had requests under way together
    active,                 \* history: what "Wallet tracking is active." was said of
    saidEnabled, saidSnooze \* history: what was last said of each rule

ruleVars == <<storesItems, day, tracked, ruleRows, page, tab, tabRequests, tabFailures, crossed,
              active, saidEnabled, saidSnooze>>

RuleRows == [list : Nat, live : BOOLEAN, enabled : BOOLEAN, snooze : Nat]
NoRow == [list |-> 0, live |-> FALSE, enabled |-> FALSE, snooze |-> 0]
NoTab == [at |-> "idle", wallet |-> "none", list |-> 0, items |-> {}, rule |-> 0, what |-> "none",
          row |-> NoRow]

Live == {r \in DOMAIN ruleRows : ruleRows[r].live}
RulesOf(l) == {r \in Live : ruleRows[r].list = l}

RulesInit ==
    /\ storesItems \in BOOLEAN
    /\ day = 1
    /\ tracked = <<>> /\ ruleRows = <<>>
    /\ page = [b \in Tabs |-> <<>>]
    /\ tab = [b \in Tabs |-> NoTab]
    /\ tabRequests = 0 /\ tabFailures = 0
    /\ crossed = FALSE
    /\ active = {} /\ saidEnabled = {} /\ saidSnooze = {}

tabFrame == <<storesItems, day, tabRequests, tabFailures, crossed>>
said == <<active, saidEnabled, saidSnooze>>

BeginTab(b, request) ==
    /\ tab[b].at = "idle" /\ tabRequests < MaxTabRequests
    /\ tab' = [tab EXCEPT ![b] = request]
    /\ tabRequests' = tabRequests + 1
    /\ crossed' = (crossed \/ \E c \in Tabs : tab[c].at # "idle")
    /\ UNCHANGED <<storesItems, day, tracked, ruleRows, page, tabFailures>>

TabProceeds(b, label) == tab' = [tab EXCEPT ![b].at = label]
TabEnds(b) == tab' = [tab EXCEPT ![b] = NoTab]
-----------------------------------------------------------------------------
(* trackWalletAlertRule *)
Track(b, w) ==
    /\ BeginTab(b, [NoTab EXCEPT !.at = "lists", !.wallet = w])
    /\ UNCHANGED said

(* Of several lists of the name the one that changed last comes first: any. *)
FindTrackedList(b) ==
    /\ tab[b].at = "lists"
    /\ IF tracked = <<>> THEN TabProceeds(b, "new list")
       ELSE \E l \in DOMAIN tracked : tab' = [tab EXCEPT ![b].at = "detail", ![b].list = l]
    /\ UNCHANGED <<tabFrame, tracked, ruleRows, page, said>>

InsertTrackedList == tracked' = Append(tracked, {})

CreateTrackedList(b) ==
    /\ tab[b].at = "new list"
    /\ InsertTrackedList
    /\ tab' = [tab EXCEPT ![b].at = "detail", ![b].list = Len(tracked')]
    /\ UNCHANGED <<tabFrame, ruleRows, page, said>>

ReadTrackedList(b) ==
    /\ tab[b].at = "detail"
    /\ TabProceeds(b, IF tab[b].wallet \in tracked[tab[b].list] THEN "rules" ELSE "add")
    /\ UNCHANGED <<tabFrame, tracked, ruleRows, page, said>>

(* AddWatchlistItem finds the list; 409, the wallet is there by now, is as good as an
   answer. *)
AddTrackedItem(b) ==
    LET l == tab[b].list
        w == tab[b].wallet
    IN
    /\ tab[b].at = "add"
    /\ tab' = IF w \in tracked[l] THEN [tab EXCEPT ![b].at = "rules"]
              ELSE [tab EXCEPT ![b].at = "write", ![b].items = tracked[l] \cup {w}]
    /\ UNCHANGED <<tabFrame, tracked, ruleRows, page, said>>

(* UpdateWatchlist: the list is replaced by the one found, with the item. *)
InsertItem(b) ==
    tracked' = IF storesItems THEN [tracked EXCEPT ![tab[b].list] = tab[b].items] ELSE tracked

WriteTrackedList(b) ==
    /\ tab[b].at = "write"
    /\ InsertItem(b)
    /\ TabProceeds(b, "rules")
    /\ UNCHANGED <<tabFrame, ruleRows, page, said>>

SaidActive(b, r) == active' = active \cup {<<tab[b].wallet, tab[b].list, r>>}

(* Mutant of MatchingRules: any rule will do. *)
MatchingRulesAny(l) == Live

(* A rule of the list, whether or not it is muted. *)
MatchingRules(l) == RulesOf(l)

FindTrackedRule(b) ==
    /\ tab[b].at = "rules"
    /\ LET found == MatchingRules(tab[b].list)
       IN  IF found = {} THEN TabProceeds(b, "count") /\ UNCHANGED active
           ELSE TabEnds(b) /\ \E r \in found : SaidActive(b, r)
    /\ UNCHANGED <<tabFrame, tracked, ruleRows, page, saidEnabled, saidSnooze>>

(* CreateAlertRule counts the owner's rules and inserts one more later. *)
CountRules(b) ==
    /\ tab[b].at = "count"
    /\ IF Cardinality(Live) >= RuleLimit THEN TabEnds(b) ELSE TabProceeds(b, "new rule")
    /\ UNCHANGED <<tabFrame, tracked, ruleRows, page, said>>

InsertRule(b) ==
    ruleRows' = Append(ruleRows, [list |-> tab[b].list, live |-> TRUE, enabled |-> TRUE, snooze |-> 0])

CreateTrackedRule(b) ==
    /\ tab[b].at = "new rule"
    /\ InsertRule(b)
    /\ SaidActive(b, Len(ruleRows'))
    /\ TabEnds(b)
    /\ UNCHANGED <<tabFrame, tracked, page, saidEnabled, saidSnooze>>
-----------------------------------------------------------------------------
(* loadAlertCenterPreview; a page that cannot be loaded shows no rules. *)
OpenAlerts(b) ==
    /\ tab[b].at = "idle"
    /\ page' = [page EXCEPT ![b] = ruleRows]
    /\ page' # page
    /\ UNCHANGED <<tabFrame, tab, tracked, ruleRows, said>>

(* updateAlertRuleMutation, of a rule that the page shows.  What it will change is no
   longer what was said. *)
Toggle(b, r, what) ==
    /\ r \in DOMAIN page[b] /\ page[b][r].live
    /\ BeginTab(b, [NoTab EXCEPT !.at = "read", !.rule = r, !.what = what])
    /\ saidEnabled' = IF what = "enabled" THEN {s \in saidEnabled : s[1] # r} ELSE saidEnabled
    /\ saidSnooze' = IF what = "snooze" THEN {s \in saidSnooze : s[1] # r} ELSE saidSnooze
    /\ UNCHANGED active

(* Mutant of Changed: what is written back is what the page shows, changed. *)
ChangedFromPage(what, row, shown) ==
    IF what = "enabled" THEN [shown EXCEPT !.enabled = ~shown.enabled]
    ELSE [shown EXCEPT !.snooze = IF shown.snooze > day THEN 0 ELSE day + 1]

(* The row that is there, with the opposite of what the page shows: enabled or not; a
   snooze that has not passed is cleared, else one of 24 hours set. *)
Changed(what, row, shown) ==
    IF what = "enabled" THEN [row EXCEPT !.enabled = ~shown.enabled]
    ELSE [row EXCEPT !.snooze = IF shown.snooze > day THEN 0 ELSE day + 1]

ReadRule(b) ==
    LET r == tab[b].rule
    IN
    /\ tab[b].at = "read"
    /\ IF r \in Live
       THEN tab' = [tab EXCEPT ![b].at = "patch",
                               ![b].row = Changed(tab[b].what, ruleRows[r], page[b][r])]
       ELSE TabEnds(b)
    /\ UNCHANGED <<tabFrame, tracked, ruleRows, page, said>>

(* UpdateAlertRule writes the whole row; of what it reads first it keeps what no request
   changes. *)
UpdateRule(b) ==
    ruleRows' = [ruleRows EXCEPT ![tab[b].rule].enabled = tab[b].row.enabled,
                                 ![tab[b].rule].snooze = tab[b].row.snooze]

(* The answer replaces the rule on the page. *)
PatchRule(b) ==
    LET r == tab[b].rule
        row == tab[b].row
        SaidOf(told, what, value) ==
            IF tab[b].what = what THEN {s \in told : s[1] # r} \cup {<<r, value>>} ELSE told
    IN
    /\ tab[b].at = "patch"
    /\ IF r \in Live
       THEN /\ UpdateRule(b)
            /\ page' = [page EXCEPT ![b][r] = ruleRows'[r]]
            /\ saidEnabled' = SaidOf(saidEnabled, "enabled", row.enabled)
            /\ saidSnooze' = SaidOf(saidSnooze, "snooze", row.snooze)
       ELSE UNCHANGED <<ruleRows, page, saidEnabled, saidSnooze>>
    /\ TabEnds(b)
    /\ UNCHANGED <<tabFrame, tracked, active>>

(* DeleteAlertRule, of another client of the API. *)
DeleteRule(r) ==
    /\ r \in Live /\ tabRequests < MaxTabRequests
    /\ tabRequests' = tabRequests + 1
    /\ ruleRows' = [ruleRows EXCEPT ![r].live = FALSE]
    /\ UNCHANGED <<storesItems, day, tracked, page, tab, tabFailures, crossed, said>>
-----------------------------------------------------------------------------
(* A request fails, before or after its effect; the tab says so and stops. *)
TabFails(b) ==
    /\ tab[b].at # "idle" /\ tabFailures < MaxTabFailures
    /\ tabFailures' = tabFailures + 1
    /\ TabEnds(b)
    /\ \/ UNCHANGED <<tracked, ruleRows>>
       \/ tab[b].at = "new list" /\ InsertTrackedList /\ UNCHANGED ruleRows
       \/ tab[b].at = "write" /\ InsertItem(b) /\ UNCHANGED ruleRows
       \/ tab[b].at = "new rule" /\ InsertRule(b) /\ UNCHANGED tracked
       \/ tab[b].at = "patch" /\ tab[b].rule \in Live /\ UpdateRule(b) /\ UNCHANGED tracked
    /\ saidEnabled' = {s \in saidEnabled : s[1] # tab[b].rule}
    /\ saidSnooze' = {s \in saidSnooze : s[1] # tab[b].rule}
    /\ UNCHANGED <<storesItems, day, page, tabRequests, crossed, active>>

DayPasses ==
    /\ day < MaxDay
    /\ day' = day + 1
    /\ UNCHANGED <<storesItems, tracked, ruleRows, page, tab, tabRequests, tabFailures, crossed, said>>
-----------------------------------------------------------------------------
TabStep(b) ==
    \/ FindTrackedList(b) \/ CreateTrackedList(b) \/ ReadTrackedList(b)
    \/ AddTrackedItem(b) \/ WriteTrackedList(b) \/ FindTrackedRule(b) \/ CountRules(b) \/ CreateTrackedRule(b)
    \/ ReadRule(b) \/ PatchRule(b)

RulesNext ==
    \/ \E b \in Tabs :
          \/ \E w \in Trackable : Track(b, w)
          \/ OpenAlerts(b)
          \/ \E r \in DOMAIN ruleRows, what \in {"enabled", "snooze"} : Toggle(b, r, what)
          \/ TabStep(b) \/ TabFails(b)
    \/ \E r \in DOMAIN ruleRows : DeleteRule(r)
    \/ DayPasses

RulesSpec == RulesInit /\ [][RulesNext]_ruleVars
-----------------------------------------------------------------------------
RulesTypeOK ==
    /\ storesItems \in BOOLEAN /\ day \in 1..MaxDay
    /\ tracked \in Seq(SUBSET Trackable)
    /\ ruleRows \in Seq(RuleRows) /\ \A r \in DOMAIN ruleRows : ruleRows[r].list \in DOMAIN tracked
    /\ \A b \in Tabs :
          /\ page[b] \in Seq(RuleRows)
          /\ tab[b].at \in {"idle", "lists", "new list", "detail", "add", "write", "rules", "count",
                            "new rule", "read", "patch"}
          /\ tab[b].items \subseteq Trackable
          /\ tab[b].what \in {"none", "enabled", "snooze"}
          /\ tab[b].at = "patch" => tab[b].row \in RuleRows
    /\ tabRequests \in 0..MaxTabRequests /\ tabFailures \in 0..MaxTabFailures

(* Requests that fail half way and are made again find what they left: only tabs that
   overlap make a second list, a second rule for it, or more rules than the limit. *)
TrackedOnce ==
    crossed \/ /\ Len(tracked) <= 1
               /\ \A l \in DOMAIN tracked : Cardinality(RulesOf(l)) <= 1
               /\ Cardinality(Live) <= RuleLimit

(* The rule a wallet is said to be tracked by is one of the very list it was put in, unless
   the rule was deleted.  Unless two tabs overlapped, the wallet stays in that list, a
   repository that stores nothing aside, whatever is tracked after it and whatever request
   failed half way; and what a tab was told it made of a rule stays so until the same is
   asked again, however old the pages other changes are made from.  Tabs that overlap may
   write a list back without the other's wallet. *)
SaidIsSo ==
    /\ \A a \in active : ruleRows[a[3]].list = a[2]
    /\ crossed \/ /\ storesItems => \A a \in active : a[1] \in tracked[a[2]]
                  /\ \A s \in saidEnabled : ruleRows[s[1]].enabled = s[2]
                  /\ \A s \in saidSnooze : ruleRows[s[1]].snooze = s[2]
=============================================================================
