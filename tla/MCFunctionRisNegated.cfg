SPECIFICATION FSpec
CONSTANTS
    Programs <- NegatedFirst
    Params = {"p", "q", "x"}
    Env <- Values
    LoopCap = 2
INVARIANT GuardsDominate
CHECK_DEADLOCK FALSE
