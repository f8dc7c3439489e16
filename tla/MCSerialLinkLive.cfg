SPECIFICATION FairSpec
CONSTANTS
    ByteBase = 4
    SYN = 3
    ExitBytes <- MCExitBytes
    CHUNK_SIZE = 3
    KERNEL_LOAD_ADDR = 5
    DTB_LOAD_ADDR = 1
    MEMORY_END = 10
    MAX_DTB_SIZE = 3
    PowerOn <- MCPowerOn
    DtbMagic <- MCMagic
    Trees <- MCTrees
    MaxUpdated = 1
    Keys <- MCKeys
    StackBytes <- CleanStack
    SyncPolls = 2
    RxDepth = 2
    TxDepth = 3
    Kernels <- AnyKernels
    Dtbs <- AnyDtbs
    Overruns = FALSE
    Prompt = TRUE
    MaxRuns = 2
    MaxInterrupts = 0
    MaxTyped = 0
PROPERTIES GoodFilesBoot BadFilesReturn
CHECK_DEADLOCK FALSE
