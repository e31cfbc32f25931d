CONSTANTS
    Bodies = {}
    Forms = {"IfInBranch"}
    MaxNodes = 4
    MaxNesting = 4
    MaxScopes = 5
CHECK_DEADLOCK FALSE
SPECIFICATION IfSpec
INVARIANTS
    NoSpuriousError
