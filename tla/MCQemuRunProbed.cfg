SPECIFICATION VmSpec
CONSTANTS
    Caller = {drv}
    Profile <- AllProfiles
CONSTANT drv = drv
INVARIANT SuccessMeansBound
CHECK_DEADLOCK FALSE
