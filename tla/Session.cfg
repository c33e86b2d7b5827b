SPECIFICATION Spec
CONSTANTS
    ArgBufLen = 2
    MaxDepth = 6
    Programs <- MCPrograms
    Endless <- MCEndless
    InitialGlobals <- MCGlobals
INVARIANTS
    TypeOK
    CompiledMeansSource
    ProperTailCalls
CHECK_DEADLOCK FALSE
