SPECIFICATION Spec
CONSTANTS
    NANOS = 3
    MAXSEC = 9
    SAMECLOCK = 5
    KINDS <- MCKinds
    PARTS <- MCParts
    ARRIVALS = {0, 5, 10}
    MODES = {"scaled", "shifted", "original"}
    WALLS = {2, 12, 26}
    RATES <- MCRates
    LENGTHS = {0, 1, 2}
INVARIANTS RestUntouched TimesExact OrderKept TrustedAgain
CHECK_DEADLOCK FALSE
