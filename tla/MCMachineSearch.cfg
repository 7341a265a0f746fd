SPECIFICATION Spec
CONSTANTS
    Hardware <- MCHardware
    KB = 2
    ROM = 2
    MAX_NCPU = 2
    Bsp = 0
INVARIANT
    FoundWhereDocumented
CHECK_DEADLOCK FALSE
