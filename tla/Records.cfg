CONSTANTS
    Prompts = {y1}
    Explainers = {e1, e2}
    DailyLimit = 1
    MaxExplains = 4
    MaxExplainFailures = 1
    Names = {"n1", "n2"}
    ItemKeys = {"k1", "k2"}
    Clients = {s1, s2}
    MaxWatchlists = 1
    MaxItems = 1
    MaxWatchRequests = 3
    Counterparties = {x1, x2}
    Runners = {n1, n2}
    DayLength = 2
    Persistence = 1
    Maturity = 3
    MaxTime = 5
    MaxTransfers = 4
    MaxRuns = 2
    MaxLate = 1
    t1 = t1
    v1 = v1
    t2 = t2
    Transfers = {t1, t2}
    SentAt <- SentAtShared
    Tables = {"bridge links", "exchange paths"}
    TableOf <- TableOfShared
    Unfinished = {"bridge links"}
    ShadowRuns = {v1, v2}
    Lookback = 1
    MaxMoment = 2
    MaxSnapshots = 3
    MaxFound = 1
    Snapshots = {v1, v2}
    Moments = {"m1", "m2"}
    NoType = NoType
    NoWriter = NoWriter
    MaxSnapshotFailures = 1
    MaxObserved = 4
    Peers = {1, 2, 3}
    ActiveDays = {1, 5}
    Hubs = {"aggregator", "treasury"}
    EntityOf <- EntityShared
    WalletEntity = "e2"
    NoEntity = NoEntity
    PeerLimit = 2
    MaxInteractions = 3
    MaxLabels = 1
    Receivers = {"binance", "stargate", "bridge", "wormhole", "treasury", "router", "market maker", "anyone"}
    ClassesOf <- ClassesShared
    FlowDays = {1, 2}
    Onwards = {"nothing", "exchange", "bridge"}
    Roots <- RootsShared
    MaxFlows = 4
    Admins = {d1}
    Importers = {i1}
    Wallets = {"w1", "w2"}
    Recognized = {"w1"}
    EntityKeys = {1, 2}
    CuratedItems <- CuratedItemsShared
    Seeds <- SeedsShared
    FirstLists <- FirstListsShared
    MaxLists = 2
    MaxListItems = 3
    MaxListChanges = 1
    MaxImports = 1
    MaxHints = 1
    Readers = {g1}
    MaxReads = 2
    MaxCuratedFailures = 1
    Tabs = {b1, b2}
    Trackable = {"w1", "w2"}
    RuleLimit = 1
    MaxDay = 2
    MaxTabRequests = 3
    MaxTabFailures = 1

SPECIFICATION RecordsSpec
INVARIANTS
    RecordsTypeOK
    WithinLimits
    AnswersHold
    SustainedIsEarned
    
    SignalsArrive
    EvidenceCounts
PROPERTIES
    OutcomesStay
    ScoresFollowEvidence
CHECK_DEADLOCK FALSE
