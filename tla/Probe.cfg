SPECIFICATION Spec
CONSTANTS
    Nodes = {1, 2, 3, 4}
    MaxInc = 1
    MaxCounter = 0
    MaxMembers = 4
    MaxTombstones = 1
    Self = 1
    MaxPending = 2
    HelperCount = 2
    LastStart = 1
    Probed = {2, 3}
    Relayed = {2}
    Subjects = {2}
    Fences = {"Cleared"}
INVARIANTS
    TypeOK
    NothingWaitsForever
PROPERTIES
    VerdictsRestOnEvidence
CHECK_DEADLOCK FALSE
