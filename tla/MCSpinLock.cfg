CONSTANTS
    ptable = ptable
    kheap = kheap
    Cpus <- MCCpus
    Bsp = 0
    Locks <- MCLocks
    Nesting <- MCNesting
SPECIFICATION FairSpec
INVARIANTS
    TypeOK
    LockInv
    MutualExclusion
    NoPanic
    NestingDepth
    InterruptsRestored
PROPERTIES
    ImplementsMutex
    LockProgress
