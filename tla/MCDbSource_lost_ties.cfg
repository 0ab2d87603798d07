SPECIFICATION Spec
CONSTANTS
    NStreams = 2
    Ids <- MCIds
    MaxTime = 3
    INDEX_PAGE = 2
    Recordings <- TiedRecordings
    CutShort = FALSE
INVARIANTS EveryRowRead
