\* Two channels of each side: an announcement before and one during the
\* shutdown, and a local channel in AddChannel together with a remote one.
CONSTANTS
    LocalChannels = {l1, l2}
    RemoteChannels = {r1, r2}
SPECIFICATION PTFairSpec
INVARIANTS
    PTTypeOK
    HandOverComplete
    ClosedUnregistered
PROPERTIES
    ShutdownCompletes
\* The run ends when the peer connection is released.
CHECK_DEADLOCK FALSE
