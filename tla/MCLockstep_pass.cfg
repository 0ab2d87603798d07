SPECIFICATION FairSpec
CONSTANTS
    MaxGates = 3
    MaxReplies = 2
    TfGate = TRUE
INVARIANTS FreshAnswer OwnAnswer
PROPERTIES SilentTimeout WaitEnds
CHECK_DEADLOCK FALSE
