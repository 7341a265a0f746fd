CONSTANTS
    NCpu = 3
    Bsp = 1
    p1 = p1
    p2 = p2
    p3 = p3
    p4 = p4
    h1 = h1
    h2 = h2
    h3 = h3
    h4 = h4
    h5 = h5
    KvmPages = 2
    LowPages <- MCLowPages
    HighPages <- MCHighPages
    NoPage = NoPage
SPECIFICATION FairSpec
INVARIANTS
    TypeOK
    DistinctStacks
    ReadyForInterrupts
    OnlyTodoPanics
    DispatchedOnce
PROPERTIES
    AllStarted
    InitDispatched
\* The system stops when init's CPU has panicked and the others spin.
CHECK_DEADLOCK FALSE
