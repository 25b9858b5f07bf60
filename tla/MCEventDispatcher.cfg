SPECIFICATION Spec
CONSTANTS
    MaxMessages = 4
    MaxDirect = 2
INVARIANTS
    TypeOK
    NoLostWakeup
    OneDrain
    NothingLost
    DirectOvertakesNothingQueued
PROPERTY
    OrderedPath
CHECK_DEADLOCK FALSE
