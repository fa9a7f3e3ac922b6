SPECIFICATION Spec
CONSTANTS
    Prefix <- MCPrefix
    Width <- MCWidth
    LinkMax = 3
    LdSoConf <- MCLdSoConf
    MaxOpen = 5
    Worlds <- MCWorlds
    DefaultLibs <- MCDefaultLibs
    LibcSo <- MCLibcSo
    ElfFiles <- MCElfFiles
    Truncated <- MCTruncated
INVARIANTS
    ReadFromRootfs
