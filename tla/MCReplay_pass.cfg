SPECIFICATION FairSpec
CONSTANTS
    Inputs <- MCInputs
    Realtime = 2
    Paces = {1, 3}
    MaxWall = 4
    MaxCount = 4
INVARIANTS StampsTrackEmission WindowExact TotalsTrue
PROPERTIES StampsForward SpacingKept InterruptEnds
CHECK_DEADLOCK FALSE
