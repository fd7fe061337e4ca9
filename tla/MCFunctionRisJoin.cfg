SPECIFICATION FSpec
CONSTANTS
    Programs <- TwoWaysOut
    Params = {"p", "q", "x"}
    Env <- Values
    LoopCap = 2
INVARIANT JoinsMerge
CHECK_DEADLOCK FALSE
