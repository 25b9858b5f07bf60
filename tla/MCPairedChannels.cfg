SPECIFICATION Spec
CONSTANTS
    MaxSends = 2
    MaxOps = 1
    MaxCloses = 1
    Empty = {1}
INVARIANTS
    TypeOK
    AnnouncedOnce
    CloseOvertakesNothing
PROPERTY AnnouncedInTheEnd
\* A closed channel with nothing left to run stops.
CHECK_DEADLOCK FALSE
