SPECIFICATION Spec
CONSTANTS
    MaxMembers = 2
    NameLens <- MCNameLens
    Sizes <- MCSizes
    Drifts <- MCDrifts
    Times <- MCTimes
    MAX = 20000
INVARIANTS
    TypeOK
    InStep
    ClosedWhole
