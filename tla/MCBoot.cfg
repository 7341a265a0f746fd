SPECIFICATION FairSpec
CONSTANTS
    SECTOR_SIZE = 2
    PAGE_SIZE = 8
    MemSize = 40
    FileSize = 45
    LoaderAt = 4
    ElfAt = 8
    e_phoff = 2
    Layouts <- MCLayouts
INVARIANTS
    TypeOK
    LoadedExactly
    LoaderIntact
PROPERTIES
    Boots
CHECK_DEADLOCK FALSE
