SPECIFICATION Spec
CONSTANTS
    MaxMessages = 1
    MaxOperations = 1
    MaxIceEvents = 1
    HandlerMayThrow = FALSE
    ConnectionMayEnd = FALSE
    GraceSuffices = TRUE
PROPERTIES
    RemoteCloseCompletes
    ChannelSettles
CHECK_DEADLOCK FALSE
