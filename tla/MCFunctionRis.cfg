SPECIFICATION FSpec
CONSTANTS
    Programs <- OneWayOut
    Params = {"p", "q", "x"}
    Env <- Values
    LoopCap = 2
INVARIANTS
    RisIsSource
    VariantsCover
    CfgIsFlow
CHECK_DEADLOCK FALSE
