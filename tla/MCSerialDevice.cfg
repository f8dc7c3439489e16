SPECIFICATION Spec
CONSTANTS
    ByteBase = 3
    SYN = 2
    ExitBytes <- MCExitBytes
    CHUNK_SIZE = 2
    KERNEL_LOAD_ADDR = 4
    DTB_LOAD_ADDR = 1
    MEMORY_END = 7
    MAX_DTB_SIZE = 4
    PowerOn <- MCPowerOn
    DtbMagic <- MCMagic
    Trees <- MCTrees
    MaxUpdated = 1
    StackBytes <- AnyStackByte
    SyncPolls = 2
    RxDepth = 1
    TxDepth = 2
INVARIANTS TypeOK RegionsHold
PROPERTY ImplementsBootAttempt
