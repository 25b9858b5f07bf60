SPECIFICATION Spec
CONSTANTS
    MaxMessages = 3
    MaxDirect = 0
INVARIANT ThrowStallsNothing
CHECK_DEADLOCK FALSE
