SPECIFICATION Spec
CONSTANTS
    a = a
    b = b
    main = main
    other = other
    Channels = {a, b}
    Threads = {main, other}
    ThreadOf <- MCThreadOf
    MaxQueue = 2
    MaxFailures = 1
    MaxSends = 2
INVARIANT ChannelInOrder
CHECK_DEADLOCK FALSE
