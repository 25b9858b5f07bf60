SPECIFICATION Spec
CONSTANTS
    MaxMessages = 3
    MaxOperations = 0
    MaxIceEvents = 0
    HandlerMayThrow = TRUE
    ConnectionMayEnd = TRUE
    GraceSuffices = TRUE
INVARIANTS
    TypeOK
    MessagesInOrder
    EventsInOrder
    RemoteCloseLosesNothing
CHECK_DEADLOCK FALSE
