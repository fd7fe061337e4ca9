SPECIFICATION FSpec
CONSTANTS
    Programs <- MovedTwice
    Params = {"p", "q", "x"}
    Env <- Values
    LoopCap = 2
INVARIANT CountsAreProved
CHECK_DEADLOCK FALSE
