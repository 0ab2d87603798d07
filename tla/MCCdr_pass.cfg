SPECIFICATION CdrSpec
CONSTANTS
    ASKED <- MCKinds
    STRS = {0, 1, 2, 3, 4, 5, 6, 7}
    OTHERS = {0, 3}
    LENS = {0, 3}
    LISTS = {0, 2}
    IMAGES <- MCImages
    CUTS = {0, 1, 5, 12}
INVARIANTS CdrTypeOK RoundTrip ViewerAgrees SupportedMeansTranscoded
CHECK_DEADLOCK FALSE
