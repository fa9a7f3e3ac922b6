SPECIFICATION FairSpec
CONSTANTS
    Prefix <- MCPrefix
    Width <- MCWidth
    LinkMax = 3
    FileSystems <- MCFileSystems
    Lines <- MCLines
    OmitDst <- MCOmit
INVARIANTS
    TypeOK
    ExpandsRight
    FindsMatches
    Reachable
PROPERTIES
    Terminates
