SPECIFICATION VmSpec
CONSTANTS
    Caller = {drv}
    Profile <- AllProfiles
CONSTANT drv = drv
INVARIANT VerdictIsTrue
PROPERTY Terminates
CHECK_DEADLOCK FALSE
