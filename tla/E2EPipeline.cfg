SPECIFICATION Spec
CONSTANTS
    MaxCompile = 2
    MaxQemu = 2
    MaxTrace = 2
    MaxRuns = 2
INVARIANTS
    TypeOK
    AcceptedDriver
    UntracedMeansMismatch
PROPERTIES
    Termination
    Certifies
CHECK_DEADLOCK FALSE
