CONSTANTS
    a = a
    b = b
    r1 = r1
    r2 = r2
    r3 = r3
    Wallets = {a, b}
    Workers = {w1, w2}
    Requests = {r1, r2, r3}
    RequestOf <- RequestsShared
    Neighbors <- NeighborsShared
    Evidence <- EvidenceShared
    RetryBase = 1
    RetryMax = 2
    MaxFailures = 1
    JobIds = {1, 2, 3, 4}
    Addresses = {a, b}
    Syncs = {s1, s2}
    Limit = 2
    Setups = {"none", "webhook", "callback"}
    MaxSyncFailures = 1

SPECIFICATION WorkersSpec
INVARIANTS
    WorkersTypeOK
    EveryJobAccounted
    NothingPassedOver
    DoneIsTracked
    ExpansionPerFailure
    ActiveUnlessNamed
PROPERTIES
    ImplementsBacklog
    WorkersSettle
CHECK_DEADLOCK FALSE
