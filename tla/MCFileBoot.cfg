SPECIFICATION Spec
CONSTANTS
    WordSpace = 20
    Align = 2
    End = 0
    MMIO_BASE = 13
    KERNEL_LOAD_ADDR = 9
    DTB_LOAD_ADDR = 6
    DirSize = 1
    TestSize = 1
    Padding = 2
    KernelSizes <- MCKernelSizes
    DtbSizes <- MCDtbSizes
    TextSizes <- MCTextSizes
INVARIANTS SpillsOnlyASector BootsWhatItLoaded
CHECK_DEADLOCK FALSE
