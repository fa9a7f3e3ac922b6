SPECIFICATION Spec
CONSTANTS
    Configs <- MCConfigs
    Names <- MCNames
    B64 = TRUE
INVARIANTS
    TypeOK
    ParentsFirst
    EntriesKept
    OrderKeepsEntries
    SameButTimes
