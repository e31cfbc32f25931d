SPECIFICATION ListsSpec
CONSTANTS
    StaticKinds = {"box", "function"}
    Forms = {}
    MaxStatements = 6
    MaxNesting = 4
CHECK_DEADLOCK FALSE
INVARIANTS
    ListsTypeOK
PROPERTIES
    BodiesAsWritten
