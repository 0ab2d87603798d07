SPECIFICATION FairSpec
CONSTANTS
    Inputs <- MCInputs
    MaxMessages = 4
    CodecFlag = "none"
    Overrides <- DepthAsLcm
INVARIANTS ChannelTellsTheTruth Accounted DeliveryOrder DefectsReported
PROPERTIES StopsFinalized
CHECK_DEADLOCK FALSE
