SPECIFICATION Spec
CONSTANTS
    Inputs <- MCInputs
    Streams = {"imu", "lidar"}
    Frames = {"a", "b", "c", "d"}
    Tolerance = 1
    WARN_EVERY = 2
    MaxPasses = 2
    MaxTime = 3
INVARIANTS WarningsAddUp  ReportRight TransformsAccounted
PROPERTIES SplitOutlivesWindow
CHECK_DEADLOCK FALSE
