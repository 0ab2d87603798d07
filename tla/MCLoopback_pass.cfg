SPECIFICATION Spec
CONSTANTS
    Keys = {k1, k2}
    TTL = 3
    MaxTransit = 2
    MaxTime = 7
INVARIANT SeenMatchesOrder
PROPERTIES OnlyRenewedRecorded OnlyEchoesDropped NothingStaleKept
SYMMETRY KeySymmetry
CHECK_DEADLOCK FALSE
