\* Pulse constructs that are not nested; a defcal may call another.
SPECIFICATION PulseSpec
CONSTANTS
    ContextTypes <- MCContextTypes
    Kinds <- MCKinds
    Forms = {}
    AssertionsEnabled = FALSE
    ExitOnError = TRUE
    MaxIndex = 4
    MaxDepth = 2
    MaxNesting = 4
    MaxBraces = 2
INVARIANTS
    CalibrationNamesKept
