SPECIFICATION DirFairSpec
CONSTANTS
    SectorBytes = 2
    EntriesPerSector = 4
    WordSpace = 16
    BadCluster = 14
    EndOfChain = 15
    Cards <- MCCards
    ForeignEntries <- MCForeignEntries
    BaseLen = 2
    ExtLen = 1
    Piece = 2
    LfnCells = 6
    MaxOrder = 3
    EntriesPerCluster = 3
    UpperOf <- MCUpperOf
    FileNames <- MCFileNames
    ForeignDirs <- MCForeignDirs
INVARIANTS DirTypeOK FindsTheFile ListsTheDirectory
PROPERTY WalksEnd
