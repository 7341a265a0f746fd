CONSTANTS
    BlkSize = 8
    NDirect = 1
    NIndirect = 2
    InodesPerBlock = 2
    BitsPerBlock = 16
    DirSize = 3
    FsSize = 13
    NInodes = 3
    NLog = 1
    OldBlocks = 0
    MaxFiles = 4
    FileLens <- EmptyFiles
    NameLens <- ShortNames
SPECIFICATION Spec
INVARIANTS
    InodesInInodeBlocks
CHECK_DEADLOCK FALSE
