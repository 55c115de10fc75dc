CONSTANTS
    Owners = {o1, o2}
    PaidTiers = {"pro"}
    Hooks = {h1, h2}
    SyncLimit = 1
    MaxChanges = 3
    MaxRepeats = 1
    MaxBillingFailures = 1
    r1 = r1
    r2 = r2
    c1 = c1
    c2 = c2
    Rules = {r1, r2}
    Channels = {c1, c2}
    ChannelsOf <- ChannelsShared
    Definition <- DefinitionShared
    Dispatchers = {d1, d2}
    Times = {1, 2, 3}
    Severities = {1, 2}
    RetryLimit = 2
    MaxSignals = 4
    MaxToggles = 1
    MaxAlertFailures = 1
    Readers = {q1}
    Refreshers = {p1, p2}
    MaxWrites = 2
    MaxCacheFailures = 1

SPECIFICATION ServicesSpec
INVARIANTS
    ServicesTypeOK
    CooldownKept
    DeliveredPerFailure
    FreshUnlessRaced
PROPERTIES
    ServicesSettle
    AccountsFollowStripe
CHECK_DEADLOCK FALSE
