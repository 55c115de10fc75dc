CONSTANTS
    Analyses = {a1, a2}
    ChunkSize = 2
    RowLimit = 1
    WindowSize = 1
    Deferral = {FALSE, TRUE}
    Histories <- HistoriesBoth
    FirstHead = 10
    MaxHead = 11
    MaxStarts = 2
    MaxDisturbances = 1

SPECIFICATION FairSpec
INVARIANTS
    ClaimedIsStored
    CompleteFromFirst
PROPERTY BackfillConverges
CHECK_DEADLOCK FALSE
