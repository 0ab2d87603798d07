SPECIFICATION FairSpec
CONSTANTS
    MaxGates = 2
    MaxReplies = 1
    TfGate = FALSE
PROPERTIES TimeoutMeansUnanswered
CHECK_DEADLOCK FALSE
