\* Gates, functions, defcals, externs, cal blocks and ifs, nested four deep.
SPECIFICATION PulseSpec
CONSTANTS
    ContextTypes <- MCContextTypes
    Kinds <- MCKinds
    Forms = {"NestedPulse"}
    AssertionsEnabled = FALSE
    ExitOnError = TRUE
    MaxIndex = 4
    MaxDepth = 5
    MaxNesting = 4
    MaxBraces = 2
INVARIANTS
    PulseTypeOK
    FlagsOnlyInside
    PulseAccepted
    CalibrationNamesUsable
    ScopeMatchesConstruct
    CalibrationKeepsType
