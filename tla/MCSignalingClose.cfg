SPECIFICATION MCSpec
CONSTANTS
    MaxCalls = 4
    Chained = TRUE
    Unhurried = FALSE
    Cautious = TRUE
    Remotes <- MCRemotes
CHECK_DEADLOCK FALSE
INVARIANT NoNativeUseAfterClose
