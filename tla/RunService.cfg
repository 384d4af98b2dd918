SPECIFICATION FairSpec
CONSTANTS
    LoadRequests <- MCLoads
    RunCommands <- MCCommands
    MaxReceipts = 2
    MaxTroubles = 1
INVARIANTS
    OneRuntime
    PublishedIsCommitted
    OneStepPerBoundary
PROPERTIES
    ReceiptsAreHonest
    CommandsEnd
    RevokedSlotIsReleased
CHECK_DEADLOCK FALSE
