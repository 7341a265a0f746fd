CONSTANTS
    PAGE_SIZE = 2
    NPDENTRIES = 8
    NPTENTRIES = 8
    KERNBASE = 64
    EXTMEM = 2
    PHYSTOP = 44
    DEVSPACE = 118
    DataSymbols <- MCDataSymbols
    HeapPages <- MCHeapPages
SPECIFICATION FairSpec
INVARIANTS
    TypeOK
    TranslatesAsIntended
    TablesPrivate
PROPERTIES
    Completes
\* The last page mapped ends the behaviour.
CHECK_DEADLOCK FALSE
