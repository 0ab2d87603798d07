SPECIFICATION Spec
CONSTANTS
    Fragments <- MCFragments
    Producers <- MCProducers
    Bags <- MCBags
    Namespaces <- MCNamespaces
    CdrTypes <- MCCdrTypes
    StampedTypes <- MCStampedTypes
    Include <- MCInclude
    Exclude <- MCExclude
    DefaultCodec = "cdr"
    Overrides <- MCOverrides
    Patterns <- MCPatterns
    Renames <- MCRenames
    Starts = {1}
    Latency = 1
    SameClock = 3
    Epoch = 5
    MaxMessages = 3
    MaxPasses = 2
INVARIANTS NamesSurvive WholeRecording OnlyLatePassedOver
CHECK_DEADLOCK FALSE
