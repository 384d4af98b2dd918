SPECIFICATION Spec
CONSTANTS
    LoadOps <- MCLoads
    CommandOps <- MCCommands
    Works = {"w", "v"}
    MaxTroubles = 2
INVARIANTS
    LedgerCanBeTrusted
    UnresolvedLoadHasBytes
    WindowIsCurrent
CHECK_DEADLOCK FALSE
