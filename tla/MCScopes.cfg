\* Loops, switch, stray braces and pulse constructs, nested four deep, under a
\* diagnostic handler that returns: parsing goes on after errors.
SPECIFICATION Spec
CONSTANTS
    ContextTypes <- MCContextTypes
    Kinds <- LoopAndPulseKinds
    Forms = {"NestedPulse"}
    AssertionsEnabled = TRUE
    ExitOnError = FALSE
    MaxIndex = 4
    MaxDepth = 3
    MaxNesting = 4
    MaxBraces = 2
INVARIANTS
    TypeOK
    WhileOwnsScope
    AssertionsHold
    ScopesInStep
    StackChain
    AliveIffOpen
PROPERTIES
    BreakKeepsScopes
    ScopesArePermanent
