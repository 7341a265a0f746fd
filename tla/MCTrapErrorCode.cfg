SPECIFICATION Spec
CONSTANTS
    Irqs <- MCIrqs
    ErrVectors <- MCErrVectors
    Exceptions = {14}
INVARIANTS
    FrameAsDeclared
CHECK_DEADLOCK FALSE
