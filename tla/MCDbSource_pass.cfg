SPECIFICATION FairSpec
CONSTANTS
    NStreams = 2
    Ids <- MCIds
    MaxTime = 3
    INDEX_PAGE = 2
    Recordings <- DistinctRecordings
    CutShort = TRUE
INVARIANTS EveryRowRead
PROPERTIES InMergeOrder PassEnds ImplementsMergedReplay
CHECK_DEADLOCK FALSE
