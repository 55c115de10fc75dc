CONSTANTS
    Analyses = {a1}
    ChunkSize = 2
    RowLimit = 2
    WindowSize = 1
    Deferral = {FALSE}
    Histories <- HistoriesLate
    FirstHead = 11
    MaxHead = 11
    MaxStarts = 2
    MaxDisturbances = 1

SPECIFICATION Spec
PROPERTY HistoryLeftIsQueued
CHECK_DEADLOCK FALSE
