SPECIFICATION Spec
CONSTANTS
    Access <- McAccess
    Name <- McName
    IrqNames = {"ack"}
    Requests <- McRequests
INVARIANTS
    MatchIsExact
    OkMeansRealised
    FailMeansMissing
PROPERTY Terminates
CHECK_DEADLOCK FALSE
