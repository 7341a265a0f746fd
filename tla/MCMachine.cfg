SPECIFICATION Spec
CONSTANTS
    Hardware <- MCHardware
    KB = 2
    ROM = 2
    MAX_NCPU = 2
    Bsp = 0
INVARIANTS
    TypeOK
    CpusFound
    InterruptsLand
CHECK_DEADLOCK FALSE
