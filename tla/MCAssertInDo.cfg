\* The same form of program: the assertions of the productions.
SPECIFICATION Spec
CONSTANTS
    ContextTypes <- MCContextTypes
    Kinds <- LoopKinds
    Forms = {"BracesInDo"}
    AssertionsEnabled = TRUE
    ExitOnError = TRUE
    MaxIndex = 5
    MaxDepth = 1
    MaxNesting = 4
    MaxBraces = 2
INVARIANTS
    AssertionsHold
