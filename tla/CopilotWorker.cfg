CONSTANTS
    p1 = p1
    p2 = p2
    c1 = c1
    c2 = c2
    w1 = w1
    w2 = w2
    Procs = {p1, p2}
    Creators = {c1, c2}
    Workers = {w1, w2}
    Home <- HomeWorker
    Keys = {k1}
    Modes = {"worker"}
    Chunks = 2
    BatchLimit = 2
    QuotaLimit = 1
    MaxJobs = 3
    MaxRequests = 2
    MaxDisturbances = 1

SPECIFICATION Spec

INVARIANTS
    TypeOK
    ExclusiveJob
    SuccessIsAnswerable
    FreshJobsWithinQuota
PROPERTY ImplementsLifecycle
CHECK_DEADLOCK FALSE
