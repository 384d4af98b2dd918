CONSTANTS
    Nodes = {1, 2, 3}
    MaxInc = 1
    MaxCounter = 1
    MaxMembers = 3
    MaxTombstones = 3
    Founders = {1, 2}
    Suspectable = {3}
    Crashable = {3}
    Leavers = {3}
    Operators = {1}
    Lockers = {}
    Removable = {2, 3}
SPECIFICATION Spec
INVARIANTS
    IncarnationAuthority
    FailureHasOrigin
    FenceHolds
    DeadlineMeansSuspected
PROPERTIES
    DeathIsTerminal
CHECK_DEADLOCK FALSE
