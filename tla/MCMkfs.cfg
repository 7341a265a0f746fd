CONSTANTS
    BlkSize = 3
    NDirect = 2
    NIndirect = 2
    InodesPerBlock = 2
    BitsPerBlock = 32
    DirSize = 3
    FsSize = 17
    NInodes = 5
    NLog = 1
    OldBlocks = 3
    MaxFiles = 3
    FileLens <- MCFileLens
    NameLens <- MCNameLens
SPECIFICATION FairSpec
INVARIANTS
    TypeOK
    ReadsBack
    BlocksExclusive
    BitmapExact
PROPERTIES
    Terminates
\* mkfs ends.
CHECK_DEADLOCK FALSE
