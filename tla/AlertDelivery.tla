--------------------------- MODULE AlertDelivery ---------------------------
(***************************************************************************)
(* Alerts about one wallet: signal workers record an event for each rule   *)
(* that watches it (alerts.go, DispatchWalletSignal) and send it through   *)
(* the owner's channels (delivery.go, DeliverAlertEvent); a batch worker   *)
(* sends again what failed (delivery_retry.go, RunBatch).                  *)
(*                                                                         *)
(* A rule's cooldown is read before its event is inserted, and an attempt  *)
(* is written before and after its message is sent.                        *)
(***************************************************************************)
EXTENDS Naturals, Sequences, FiniteSets

CONSTANTS
    Rules, Channels,        \* rules of one signal type; channels of their owners
    ChannelsOf,             \* the channels of the owner of each rule
    Definition,             \* each rule: cooldown, renotify, minimum, snoozeUntil
    Dispatchers,            \* workers that score the wallet
    Times, Severities,      \* what a signal may carry: numbers
    RetryLimit,             \* QORVI_ALERT_DELIVERY_RETRY_LIMIT
    MaxSignals,             \* bound: signals dispatched
    MaxToggles,             \* bound: channels switched, rules deleted
    MaxAlertFailures        \* bound: workers that stop half way, messages reported failed that arrived

ASSUME RetryLimitAssumption == RetryLimit \in Nat \ {0}
ASSUME NumbersAssumption == Times \subseteq Nat /\ Severities \subseteq Nat
ASSUME DefinitionAssumption == \A r \in Rules : Definition[r].cooldown \in Nat
ASSUME AlertsAssumption == IsFiniteSet(Rules) /\ {MaxSignals, MaxToggles, MaxAlertFailures} \subseteq Nat

VARIABLES
    live, enabled,          \* rules that exist; channels with is_enabled
    events,                 \* alert_events of each rule, in the order of creation
    attempts,               \* alert_delivery_attempts, by delivery key
    dispatch,               \* each dispatcher: its next call and its local variables
    retry,                  \* the retry batch: the same
    signals, toggles, alertFailures,    \* bounded counters
    served,                 \* history: signals whose dispatch ended without an error
    switched                \* history: channels that have been switched off or on

alertVars == <<live, enabled, events, attempts, dispatch, retry, signals, toggles,
               alertFailures, served, switched>>

(* A row: status, retry_count, retry_exhausted, whether next_retry_at has come; and *)
(* (history) how many messages have gone out for it.                                *)
Queued == [status |-> "queued", tries |-> 0, exhausted |-> FALSE, due |-> FALSE, messages |-> 0]

(* A delivery key is an event (its rule and number) and a channel. *)
Key(d) == <<dispatch[d].rule, dispatch[d].event, dispatch[d].channel>>

Idle == [at |-> "idle", signal |-> <<0, 0>>, rules |-> {}, rule |-> "none", event |-> 0,
         channels |-> {}, channel |-> "none", ok |-> FALSE]
NoBatch == [at |-> "idle", left |-> {}, key |-> <<>>, ok |-> FALSE]

AlertInit ==
    /\ live \in SUBSET Rules /\ enabled \in SUBSET Channels
    /\ events = [r \in Rules |-> <<>>]
    /\ attempts = [k \in {} |-> Queued]
    /\ dispatch = [d \in Dispatchers |-> Idle]
    /\ retry = NoBatch
    /\ signals \in 0..MaxSignals /\ toggles \in 0..MaxToggles
    /\ alertFailures = 0
    /\ served = {} /\ switched = {}

Severity(s) == s[2]
ObservedAt(s) == s[1]
-----------------------------------------------------------------------------
(* The window of a rule in seconds: time without a cooldown counts by the second. *)
Window(r) == IF Definition[r].cooldown > 0 THEN Definition[r].cooldown ELSE 1

(* Mutant of DedupKey: the severity is left out. *)
DedupWithoutSeverity(r, s) == <<ObservedAt(s) \div Window(r), 0>>

(* Events of a rule are unique by the window their time falls in and their severity. *)
DedupKey(r, s) == <<ObservedAt(s) \div Window(r), Severity(s)>>

(* FindLatestAlertEvent: the last by time, then by creation. *)
IsLatest(r, i) ==
    \A j \in DOMAIN events[r] :
       \/ ObservedAt(events[r][j]) < ObservedAt(events[r][i])
       \/ ObservedAt(events[r][j]) = ObservedAt(events[r][i]) /\ j <= i

(* Rules snoozed at the signal's time, or that want worse ones, are not asked further. *)
Wanted(r, s) ==
    /\ ObservedAt(s) >= Definition[r].snoozeUntil
    /\ Severity(s) >= Definition[r].minimum

(* The latest event is too near, and not less severe if the rule tells of increases. *)
Cooling(r, s) ==
    \E i \in DOMAIN events[r] :
       /\ IsLatest(r, i)
       /\ Definition[r].cooldown > 0
       /\ ObservedAt(s) < ObservedAt(events[r][i]) + Definition[r].cooldown
       /\ Definition[r].renotify => Severity(s) <= Severity(events[r][i])
-----------------------------------------------------------------------------
Goes(d, work) == dispatch' = [dispatch EXCEPT ![d] = work]

(* A worker has a score: it asks for the rules whose watchlist holds the wallet. *)
Signal(d, s) ==
    /\ dispatch[d].at = "idle" /\ signals < MaxSignals
    /\ signals' = signals + 1
    /\ Goes(d, [Idle EXCEPT !.at = "rule", !.signal = s, !.rules = live])
    /\ UNCHANGED <<live, enabled, events, attempts, retry, toggles, alertFailures, served, switched>>

(* The next rule: passed over, or to have an event. *)
FindLatest(d, r) ==
    LET w == dispatch[d]
        left == [w EXCEPT !.rules = @ \ {r}]
    IN
    /\ w.at = "rule" /\ r \in w.rules
    /\ Goes(d, IF Wanted(r, w.signal) /\ ~Cooling(r, w.signal)
               THEN [left EXCEPT !.at = "record", !.rule = r]
               ELSE left)
    /\ UNCHANGED <<live, enabled, events, attempts, retry, signals, toggles, alertFailures, served, switched>>

(* No rule is left: the dispatch has succeeded. *)
Finish(d) ==
    /\ dispatch[d].at = "rule" /\ dispatch[d].rules = {}
    /\ Goes(d, Idle)
    /\ served' = served \cup {dispatch[d].signal}
    /\ UNCHANGED <<live, enabled, events, attempts, retry, signals, toggles, alertFailures, switched>>

(* RecordAlertEvent: a rule that is gone ends the dispatch for all; a known key is skipped. *)
Record(d) ==
    LET w == dispatch[d]
        known == \E i \in DOMAIN events[w.rule] :
                    DedupKey(w.rule, events[w.rule][i]) = DedupKey(w.rule, w.signal)
        next == [w EXCEPT !.at = "rule", !.rule = "none"]
    IN
    /\ w.at = "record"
    /\ \/ w.rule \notin live /\ Goes(d, Idle) /\ UNCHANGED events
       \/ w.rule \in live /\ known /\ Goes(d, next) /\ UNCHANGED events
       \/ /\ w.rule \in live /\ ~known
          /\ events' = [events EXCEPT ![w.rule] = Append(@, w.signal)]
          /\ Goes(d, [w EXCEPT !.at = "channels", !.event = Len(events[w.rule]) + 1])
    /\ UNCHANGED <<live, enabled, attempts, retry, signals, toggles, alertFailures, served, switched>>

ListChannels(d) ==
    LET w == dispatch[d] IN
    /\ w.at = "channels"
    /\ Goes(d, [w EXCEPT !.at = "create", !.channels = enabled \cap ChannelsOf[w.rule]])
    /\ UNCHANGED <<live, enabled, events, attempts, retry, signals, toggles, alertFailures, served, switched>>

(* Every channel has been dealt with: the next rule. *)
ChannelsDone(d) ==
    LET w == dispatch[d] IN
    /\ w.at = "create" /\ w.channels = {}
    /\ Goes(d, [w EXCEPT !.at = "rule", !.rule = "none", !.event = 0, !.channel = "none"])
    /\ UNCHANGED <<live, enabled, events, attempts, retry, signals, toggles, alertFailures, served, switched>>

(* Mutant of NewAttempt: the row starts as one that may be sent again. *)
NewAttemptFailed == [Queued EXCEPT !.status = "failed", !.due = TRUE]

(* CreateAlertDeliveryAttempt: the row is there, as queued, before the message is sent. *)
NewAttempt == Queued

CreateAttempt(d, c) ==
    LET w == dispatch[d]
        k == <<w.rule, w.event, c>>
    IN
    /\ w.at = "create" /\ c \in w.channels
    /\ IF w.rule \notin live
       THEN Goes(d, Idle) /\ UNCHANGED attempts
       ELSE /\ attempts' = [j \in DOMAIN attempts \cup {k} |->
                               IF j = k THEN NewAttempt ELSE attempts[j]]
            /\ Goes(d, [w EXCEPT !.at = "send", !.channels = @ \ {c}, !.channel = c])
    /\ UNCHANGED <<live, enabled, events, retry, signals, toggles, alertFailures, served, switched>>

(* deliverThroughChannel: a message may arrive although the call reports an error. *)
Sent(k, arrives, ok) ==
    /\ ok => arrives
    /\ attempts' = IF k \in DOMAIN attempts /\ arrives
                   THEN [attempts EXCEPT ![k].messages = @ + 1] ELSE attempts
    /\ IF arrives /\ ~ok
       THEN alertFailures < MaxAlertFailures /\ alertFailures' = alertFailures + 1
       ELSE UNCHANGED alertFailures

Send(d) ==
    /\ dispatch[d].at = "send"
    /\ \E arrives, ok \in BOOLEAN :
          /\ Sent(Key(d), arrives, ok)
          /\ Goes(d, [dispatch[d] EXCEPT !.at = "update", !.ok = ok])
    /\ UNCHANGED <<live, enabled, events, retry, signals, toggles, served, switched>>

(* Mutant of Updated: failures are not counted. *)
UpdatedUncounted(row, tries, ok) ==
    [row EXCEPT !.status = IF ok THEN "delivered" ELSE "failed", !.exhausted = FALSE, !.due = FALSE]

(* Mutant of Updated: one try too many. *)
UpdatedLate(row, tries, ok) ==
    IF ok
    THEN [row EXCEPT !.status = "delivered", !.tries = tries, !.exhausted = FALSE, !.due = FALSE]
    ELSE [row EXCEPT !.status = "failed", !.tries = tries + 1,
                     !.exhausted = tries >= RetryLimit, !.due = FALSE]

(* buildAlertDeliveryAttemptUpdate: the row from the tries of the copy that was read. *)
Updated(row, tries, ok) ==
    IF ok
    THEN [row EXCEPT !.status = "delivered", !.tries = tries, !.exhausted = FALSE, !.due = FALSE]
    ELSE [row EXCEPT !.status = "failed", !.tries = tries + 1,
                     !.exhausted = tries + 1 >= RetryLimit, !.due = FALSE]

(* UpdateAlertDeliveryAttempt: a row that is gone ends the dispatch. *)
UpdateAttempt(d) ==
    LET w == dispatch[d] IN
    /\ w.at = "update"
    /\ IF Key(d) \in DOMAIN attempts
       THEN /\ attempts' = [attempts EXCEPT ![Key(d)] = Updated(@, 0, w.ok)]
            /\ Goes(d, [w EXCEPT !.at = "create", !.channel = "none", !.ok = FALSE])
       ELSE Goes(d, Idle) /\ UNCHANGED attempts
    /\ UNCHANGED <<live, enabled, events, retry, signals, toggles, alertFailures, served, switched>>

(* A failed call or a dead worker: what has been written stays, nobody resumes it. *)
StopDispatch(d) ==
    /\ dispatch[d].at # "idle" /\ alertFailures < MaxAlertFailures
    /\ alertFailures' = alertFailures + 1
    /\ Goes(d, Idle)
    /\ UNCHANGED <<live, enabled, events, attempts, retry, signals, toggles, served, switched>>
-----------------------------------------------------------------------------
(* ListRetryableAlertDeliveryAttempts *)
Retryable(k) ==
    /\ attempts[k].status = "failed" /\ attempts[k].due
    /\ ~attempts[k].exhausted
    /\ k[3] \in enabled

(* A run of the retry batch reads copies of the rows that are due. *)
ListRetryable ==
    LET rows == {[key |-> k, tries |-> attempts[k].tries] :
                    k \in {k \in DOMAIN attempts : Retryable(k)}}
    IN
    /\ retry.at = "idle" /\ rows # {}
    /\ retry' = [NoBatch EXCEPT !.at = "send", !.left = rows]
    /\ UNCHANGED <<live, enabled, events, attempts, dispatch, signals, toggles, alertFailures, served, switched>>

(* The first of the batch is sent again, as the copy says. *)
Resend ==
    /\ retry.at = "send"
    /\ \E row \in retry.left, arrives, ok \in BOOLEAN :
          /\ Sent(row.key, arrives, ok)
          /\ retry' = [retry EXCEPT !.at = "update", !.key = row.key, !.ok = ok]
    /\ UNCHANGED <<live, enabled, events, dispatch, signals, toggles, served, switched>>

(* Its row is written; one that is gone ends the run. *)
UpdateRetried ==
    \E row \in retry.left :
       LET left == retry.left \ {row} IN
       /\ retry.at = "update" /\ retry.key = row.key
       /\ IF row.key \in DOMAIN attempts
          THEN /\ attempts' = [attempts EXCEPT ![row.key] = Updated(@, row.tries, retry.ok)]
               /\ retry' = IF left = {} THEN NoBatch ELSE [NoBatch EXCEPT !.at = "send", !.left = left]
          ELSE retry' = NoBatch /\ UNCHANGED attempts
       /\ UNCHANGED <<live, enabled, events, dispatch, signals, toggles, alertFailures, served, switched>>

StopRetry ==
    /\ retry # NoBatch /\ alertFailures < MaxAlertFailures
    /\ alertFailures' = alertFailures + 1
    /\ retry' = NoBatch
    /\ UNCHANGED <<live, enabled, events, attempts, dispatch, signals, toggles, served, switched>>

(* The next_retry_at of a failed row comes. *)
BackoffEnds(k) ==
    /\ k \in DOMAIN attempts /\ attempts[k].status = "failed"
    /\ ~attempts[k].exhausted /\ ~attempts[k].due
    /\ attempts' = [attempts EXCEPT ![k].due = TRUE]
    /\ UNCHANGED <<live, enabled, events, dispatch, retry, signals, toggles, alertFailures, served, switched>>
-----------------------------------------------------------------------------
(* The owner switches a channel off or on, or deletes a rule with its events and attempts. *)
ToggleChannel(c) ==
    /\ toggles < MaxToggles /\ toggles' = toggles + 1
    /\ enabled' = IF c \in enabled THEN enabled \ {c} ELSE enabled \cup {c}
    /\ switched' = switched \cup {c}
    /\ UNCHANGED <<live, events, attempts, dispatch, retry, signals, alertFailures, served>>

DeleteRule(r) ==
    /\ r \in live /\ toggles < MaxToggles /\ toggles' = toggles + 1
    /\ live' = live \ {r}
    /\ events' = [events EXCEPT ![r] = <<>>]
    /\ attempts' = [k \in {k \in DOMAIN attempts : k[1] # r} |-> attempts[k]]
    /\ UNCHANGED <<enabled, dispatch, retry, signals, alertFailures, served, switched>>
-----------------------------------------------------------------------------
DispatchStep(d) ==
    \/ \E r \in Rules : FindLatest(d, r)
    \/ Finish(d) \/ Record(d) \/ ListChannels(d) \/ ChannelsDone(d)
    \/ \E c \in Channels : CreateAttempt(d, c)
    \/ Send(d) \/ UpdateAttempt(d)

RetryStep == ListRetryable \/ Resend \/ UpdateRetried

AlertNext ==
    \/ \E d \in Dispatchers :
          (\E s \in Times \X Severities : Signal(d, s)) \/ DispatchStep(d) \/ StopDispatch(d)
    \/ RetryStep \/ StopRetry
    \/ \E k \in DOMAIN attempts : BackoffEnds(k)
    \/ \E c \in Channels : ToggleChannel(c)
    \/ \E r \in Rules : DeleteRule(r)

AlertSpec == AlertInit /\ [][AlertNext]_alertVars

(* Workers go on, the retry batch is run again and again, time passes. *)
AlertFairness ==
    /\ \A d \in Dispatchers : WF_alertVars(DispatchStep(d))
    /\ WF_alertVars(RetryStep)
    /\ WF_alertVars(\E k \in DOMAIN attempts : BackoffEnds(k))

AlertFairSpec == AlertSpec /\ AlertFairness
-----------------------------------------------------------------------------
AlertTypeOK ==
    /\ live \subseteq Rules /\ enabled \subseteq Channels
    /\ events \in [Rules -> Seq(Times \X Severities)]
    /\ DOMAIN attempts \subseteq Rules \X (1..MaxSignals) \X Channels
    /\ \A k \in DOMAIN attempts :
          /\ attempts[k].status \in {"queued", "delivered", "failed"}
          /\ attempts[k].tries \in 0..RetryLimit
          /\ attempts[k].exhausted => attempts[k].tries = RetryLimit
          /\ k[2] \in DOMAIN events[k[1]]
    /\ \A d \in Dispatchers :
          dispatch[d].at \in {"idle", "rule", "record", "channels", "create", "send", "update"}
    /\ \A row \in retry.left : row.tries < RetryLimit
    /\ signals \in 0..MaxSignals /\ toggles \in 0..MaxToggles
    /\ alertFailures \in 0..MaxAlertFailures /\ served \subseteq Times \X Severities
    /\ switched \subseteq Channels

(* Suppression and deduplication, whatever other workers record meanwhile, never  *)
(* silence a signal for which the owner has not been told something recent: when  *)
(* a dispatch ends without an error, each rule that wants the signal has an event *)
(* of its window or later, at least as severe if the rule tells of increases.     *)
CoveredSignals ==
    \A s \in served : \A r \in live :
       Wanted(r, s) =>
          \E i \in DOMAIN events[r] :
             /\ ObservedAt(s) < ObservedAt(events[r][i]) + Window(r)
             /\ Definition[r].renotify => Severity(events[r][i]) >= Severity(s)

(* The cooldown is read before the insertion, so workers may all find it over: *)
(* still no window sees more than two events of a severity, the two buckets it *)
(* can touch.                                                                  *)
AtMostTwoPerWindow ==
    \A r \in Rules : \A s \in Times \X Severities :
       Cardinality({i \in DOMAIN events[r] :
                       /\ Severity(events[r][i]) = Severity(s)
                       /\ ObservedAt(events[r][i]) \in ObservedAt(s)..(ObservedAt(s) + Window(r) - 1)}) <= 2

(* Cooldown, suppression and deduplication together tell enough and not too much. *)
CooldownKept == CoveredSignals /\ AtMostTwoPerWindow

(* A message that goes out again costs a failure: the dispatcher that sends and the *)
(* batch never both take charge of a row, and what was delivered is left alone.     *)
MessagesPerFailure ==
    \A k \in DOMAIN attempts : attempts[k].messages <= 1 + alertFailures

(* An event leaves a channel that was on all the time without an outcome, forever  *)
(* queued or never tried, only when its dispatcher stopped half way.               *)
Unanswered(r, i) ==
    /\ \E c \in (ChannelsOf[r] \cap enabled) \ switched :
          <<r, i, c>> \in DOMAIN attempts => attempts[<<r, i, c>>].status = "queued"
    /\ ~\E d \in Dispatchers : dispatch[d].rule = r /\ dispatch[d].event = i

SilentPerFailure ==
    Cardinality({e \in Rules \X (1..MaxSignals) :
                    e[2] \in DOMAIN events[e[1]] /\ Unanswered(e[1], e[2])}) <= alertFailures

(* What is sent in vain and what is not sent at all are both paid for by failures. *)
DeliveredPerFailure == MessagesPerFailure /\ SilentPerFailure

(* Every message that failed is delivered or given up after RetryLimit tries, *)
(* unless its channel stays off or its rule goes.                             *)
FailuresSettle ==
    <>[](\A k \in DOMAIN attempts :
            attempts[k].status = "failed" => attempts[k].exhausted \/ k[3] \notin enabled)
=============================================================================
