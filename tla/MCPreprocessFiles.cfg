CONSTANTS
    Files = {"a"}
    Main = "main"
    Missing = Missing
    Units <- MCUnits
    Texts <- MCTexts
    Readings <- MCReadings
    MaxUnits = 2
    MaxPasses = 5
    OpenFails = TRUE
    KeepTemps = FALSE
    ExitOnError = FALSE
SPECIFICATION PPSpec
CHECK_DEADLOCK FALSE
INVARIANTS
    PassIsLastStream
    NoTempLeft
    ResultExists
