CONSTANTS
    Files = {"a", "b"}
    Main = "main"
    Missing = Missing
    Units <- MCUnits
    Texts <- MCTexts
    Readings <- MCReadings
    MaxUnits = 1
    MaxPasses = 5
    OpenFails = FALSE
    KeepTemps = FALSE
    ExitOnError = TRUE
SPECIFICATION PPFairSpec
CHECK_DEADLOCK FALSE
INVARIANTS
    PPTypeOK
    EachFileOnce
    IncludesHandled
    ResultIsExpansion
    FreshStart
    PassesBounded
PROPERTIES
    Terminates
    ImplementsExpansion
    ExpansionGoesOn
