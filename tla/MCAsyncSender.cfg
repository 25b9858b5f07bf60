SPECIFICATION Spec
CONSTANTS
    a = a
    b = b
    main = main
    other = other
    Channels = {a, b}
    Threads = {main, other}
    ThreadOf <- MCThreadOf
    MaxQueue = 2
    MaxFailures = 1
    MaxSends = 3
INVARIANTS
    TypeOK
    NoLostWakeup
    OpenChannelsLoseNothing
PROPERTY
    OrderedPath
CHECK_DEADLOCK FALSE
