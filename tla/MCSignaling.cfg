SPECIFICATION MCSpec
CONSTANTS
    MaxCalls = 5
    Chained = TRUE
    Unhurried = FALSE
    Cautious = TRUE
    Remotes <- MCRemotes
CHECK_DEADLOCK FALSE
INVARIANTS
    TypeOK
    StateMatchesDescriptions
    StateAnnounced
    SettledMeansApplied
    DeferredCandidatesSettle
PROPERTY UnhurriedExchange
