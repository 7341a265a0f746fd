SPECIFICATION FairSpec
CONSTANTS
    Irqs <- MCIrqs
    ErrVectors <- MCErrVectors
    Exceptions = {0}
INVARIANTS
    TypeOK
    FrameAsDeclared
    AcksMatch
PROPERTIES
    RunsIntact
    TimerServed
CHECK_DEADLOCK FALSE
