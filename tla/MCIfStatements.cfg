CONSTANTS
    Bodies = {"for", "function", "case"}
    Forms = {}
    MaxNodes = 5
    MaxNesting = 4
    MaxScopes = 7
CHECK_DEADLOCK FALSE
SPECIFICATION IfSpec
INVARIANTS
    IfTypeOK
    NoSpuriousError
    BranchBelongs
    ChainInOrder
