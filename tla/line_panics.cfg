SPECIFICATION Spec
CONSTANTS
    Inputs <- MCInputs
    Flags <- MCFlags
    MaxDepth = 4
INVARIANTS
    LineReported
