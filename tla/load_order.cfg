SPECIFICATION Spec
CONSTANTS
    MaxLines = 2
    MaxFiles = 1
    NumGoroutine = 2
    Concurrent = TRUE
    Once = FALSE
    Fallback = FALSE
    ElfExpand = TRUE
    FileExpand = TRUE
    GlobExpand = TRUE
    MaskLines <- NoLines
    ClearLines <- NoLines
    EntryLines <- ElfEntryLines
    ElfLines <- ElfElfLines
    NoMask = NoMask
    NoOwn = NoOwn
    NoFile = NoFile
    NoLib = "nolib"
    DefaultOwn = "0"
    Masks <- MCMasks
    MaskDef <- MCMaskDef
    InPrefix <- MCInPrefix
    TrimSrc <- MCTrimSrc
    CleanDst <- MCCleanDst
    Expansion <- MCExpansion
    Follow <- MCFollow
    Stat <- MCStat
    Walk <- MCWalk
    Matches <- MCMatches
    FindLib <- MCFindLib
    PathFiles <- MCPathFiles
    Result <- MCResult
INVARIANTS
    LaterLineWins
