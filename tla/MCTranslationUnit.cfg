CONSTANTS
    Limits = {1, 2, 3}
    Handlers = {"default", "returns"}
    Units <- MCUnits
    MaxUnits = 2
    MaxDiagnostics = 2
SPECIFICATION UnitSpec
CHECK_DEADLOCK FALSE
INVARIANTS
    UnitTypeOK
    FirstErrorShown
    WithheldBeyondLimit
    DefaultHandlerStops
    RootMeansNoError
    DeclaredVersionTaken
    GuessedVersionTaken
PROPERTIES
    EveryUnitReturns
