SPECIFICATION Spec
CONSTANTS
    Kinds = {"string", "binary", "blob"}
    Bytes <- MCBytes
    MaxQueue = 1
    MaxSends = 3
INVARIANTS
    TypeOK
    AccountingExact
    HandedInOrder
    CloseTruncatesNothing
PROPERTIES
    BufferSettles
    CloseCompletes
CHECK_DEADLOCK FALSE
