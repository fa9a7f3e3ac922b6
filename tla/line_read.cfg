SPECIFICATION Spec
CONSTANTS
    Inputs <- MCInputs
    Flags <- MCFlags
    MaxDepth = 4
INVARIANTS
    TypeOK
    LinesRight
    ExpandedRight
PROPERTIES
    VariablesKept
