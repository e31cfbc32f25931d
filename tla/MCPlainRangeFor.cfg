SPECIFICATION ListsSpec
CONSTANTS
    StaticKinds = {"box", "function"}
    Forms = {"PlainRangeFor"}
    MaxStatements = 6
    MaxNesting = 4
CHECK_DEADLOCK FALSE
INVARIANTS
    NothingLost
