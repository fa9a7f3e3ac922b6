SPECIFICATION Spec
CONSTANTS
    Prefix <- MCPrefix
    Width <- MCWidth
    LinkMax = 3
    FileSystems <- MCFileSystems
    Lines <- MCLines
    OmitDst <- MCOmit
INVARIANTS
    AllResolved
