SPECIFICATION FairSpec
CONSTANTS
    MaxLines = 2
    MaxFiles = 2
    NumGoroutine = 0
    Concurrent = TRUE
    Once = TRUE
    Fallback = TRUE
    ElfExpand = TRUE
    FileExpand = FALSE
    GlobExpand = TRUE
    MaskLines <- NoLines
    ClearLines <- NoLines
    EntryLines <- OnceEntryLines
    ElfLines <- OnceElfLines
    NoMask = NoMask
    NoOwn = NoOwn
    NoFile = NoFile
    NoLib = "nolib"
    DefaultOwn = "0"
    Masks <- MCMasks
    MaskDef <- MCMaskDef
    InPrefix <- MCInPrefix
    TrimSrc <- MCTrimSrc
    CleanDst <- MCCleanDst
    Expansion <- MCExpansion
    Follow <- MCFollow
    Stat <- MCStat
    Walk <- MCWalk
    Matches <- MCMatches
    FindLib <- MCFindLib
    PathFiles <- MCPathFiles
    Result <- MCResult
INVARIANTS
    NoResultLost
    WorkersBounded
    LaterLineWins
    FileMerged
PROPERTIES
    ImplementsLoadSpec
    ResolvedOnce
    Terminates
