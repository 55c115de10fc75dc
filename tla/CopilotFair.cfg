CONSTANTS
    p1 = p1
    p2 = p2
    c1 = c1
    c2 = c2
    w1 = w1
    w2 = w2
    Procs = {p1}
    Creators = {c1, c2}
    Workers = {w1, w2}
    Home <- HomeFair
    Keys = {k1}
    Modes = {"worker", "inline"}
    Chunks = 3
    BatchLimit = 1
    QuotaLimit = 2
    MaxJobs = 5
    MaxRequests = 2
    MaxDisturbances = 1

SPECIFICATION FairBoth
INVARIANT BegunOnce
PROPERTIES
    QueuedJobsEnd
    HistoryEventuallyIndexed
CHECK_DEADLOCK FALSE
