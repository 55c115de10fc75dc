CONSTANTS
    Analyses = {a1, a2}
    ChunkSize = 2
    RowLimit = 2
    WindowSize = 1
    Deferral = {FALSE}
    Histories <- HistoriesBusy
    FirstHead = 3
    MaxHead = 3
    MaxStarts = 2
    MaxDisturbances = 0

SPECIFICATION Spec
INVARIANT CompletePerformanceHasReceipts
CHECK_DEADLOCK FALSE
