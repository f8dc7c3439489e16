SPECIFICATION FairSpec
CONSTANTS
    SectorBytes = 2
    EntriesPerSector = 4
    WordSpace = 32
    BadCluster = 14
    EndOfChain = 15
    Cards <- MCCards
    ForeignEntries <- MCForeign
    RunSectors = 4
    Firsts <- MCFirsts
    Sizes <- MCSizes
    Span = 14
INVARIANTS PartitionIsSound CacheIsCoherent ExposesTheFile ShortOnlyAtTheEnd StaysInLastSector
PROPERTY CallsEnd
