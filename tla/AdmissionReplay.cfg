SPECIFICATION FairSpec
CONSTANTS
    Certs = {a}
    Ids = {1, 2, 3}
    Lines = {1, 2}
    Bodies = {x, y}
    Capacity = 3
    SnapshotLimit = 3
    LedgerCapacity = 2
    MaxTries = 2
    MaxChanges = 2
INVARIANTS
    AttemptAssignsOneId
PROPERTIES
    AcceptancesAreStanding
    LostAcceptanceIsRecovered
CHECK_DEADLOCK FALSE
