SPECIFICATION Spec
CONSTANTS
    fa = fa
    fb = fb
    fc = fc
    Func <- Funcs
    Site <- Sites
    MaxDepth = 2
    Sources <- AllSources
INVARIANTS
    TypeOK
    OpsAreExecuted
    SettledIsExact
    NothingIsLost
PROPERTY OpsOnlyGrow
CHECK_DEADLOCK FALSE
