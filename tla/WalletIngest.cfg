CONSTANTS
    tx1 = tx1
    tx2 = tx2
    hook1 = hook1
    hook2 = hook2
    job1 = job1
    Txs = {tx1, tx2}
    Webhooks = {hook1, hook2}
    Jobs = {job1}
    Items <- ItemsShared
    Failures = {"step", "redis", "cancel", "crash"}
    MaxFailures = 2
    MaxRedeliveries = 1
    Kinds = {"evm", "solana", "web"}
    Arrivals <- ArrivalsShared
    ReadLimit = 3
    PageSize = 2
    PageLimit = 3
    FirstDay = 2
    LastDay = 2
    MaxChain = 3
    MaxReadFailures = 1
    Enrichers = {m1, m2}
    Facts = {"net worth", "holdings"}
    NoEnrichment = NoEnrichment
    Uncached = Uncached
    MaxVersion = 2
    MaxEnrichments = 3
    MaxEnrichFailures = 1

SPECIFICATION ComingSpec
INVARIANTS
    ExclusiveClaim
    ClaimedIsKept
    ComesInWhole
    CountedPerFailure
    ComingTypeOK
PROPERTY EventuallyIngested
CHECK_DEADLOCK FALSE
