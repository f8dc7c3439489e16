SPECIFICATION FdtSpec
CONSTANTS
    W = 2
    MemoryName <- MCMemoryName
    RegName <- MCRegName
    BootargsName <- MCBootargsName
    Magic <- MCMagic
    SearchLimit = 100
    MemorySize = 15360
    Cmdlines <- MCCmdlines
    Trees <- MCTrees
INVARIANTS OnlyValuesChange MemoryIsSet ArgsAreSet
CHECK_DEADLOCK FALSE
