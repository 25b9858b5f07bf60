SPECIFICATION Spec
CONSTANTS
    MaxOps = 1
    MaxEvents = 3
    SameProcess = TRUE
INVARIANTS
    TypeOK
    SettledStateIsRight
PROPERTIES
    StaysConnected
    ConnectsInTheEnd
\* A closed connection with nothing left to run stops.
CHECK_DEADLOCK FALSE
