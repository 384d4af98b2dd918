SPECIFICATION FairSpec
CONSTANTS
    Operations = {a, b}
    None = None
    MaxJoinAttempts = 2
    MaxReconnects = 1
    MaxCatchups = 2
    MaxGeneration = 4
INVARIANTS
    CleanFailureIsTrue
    RunIsAlone
    IdentityIsItsOwn
PROPERTIES
    OnlyTheClockEndsTheOwner
    OperationsProgress
CHECK_DEADLOCK FALSE
