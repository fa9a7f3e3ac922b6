SPECIFICATION Spec
CONSTANTS
    MaxLines = 3
    MaxFiles = 1
    NumGoroutine = 2
    Concurrent = FALSE
    Once = FALSE
    Fallback = TRUE
    ElfExpand = TRUE
    FileExpand = TRUE
    GlobExpand = TRUE
    MaskLines <- AllMaskLines
    ClearLines <- AllClearLines
    EntryLines <- AllEntryLines
    ElfLines <- AllElfLines
    NoMask = NoMask
    NoOwn = NoOwn
    NoFile = NoFile
    NoLib = "nolib"
    DefaultOwn = "0"
    Masks <- AllMasks
    MaskDef <- MCMaskDef
    InPrefix <- MCInPrefix
    TrimSrc <- MCTrimSrc
    CleanDst <- MCCleanDst
    Expansion <- MCExpansion
    Follow <- MCFollow
    Stat <- MCStat
    Walk <- MCWalk
    Matches <- MCMatches
    FindLib <- MCFindLib
    PathFiles <- MCPathFiles
    Result <- MCResult
PROPERTIES
    ImplementsLoadSpec
    
    OptionalHonoured
