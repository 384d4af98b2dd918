SPECIFICATION Spec
CONSTANTS
    Certs = {a, b}
    Ids = {1, 2, 3, 4, 5}
    Local = 1
    Established = {}
    Lines = {p, q}
    Capacity = 3
    MaxMembers = 4
    SnapshotLimit = 4
    MaxPendingJoins = 2
    MaxAttempts = 2
    MaxTries = 1
    MaxHandled = 2
    MaxChanges = 2
    Minted = {3, 4, 5}
    News <- FewNews
INVARIANTS
    TypeOK
    AdoptedIdentityIsOnRecord
    OneAdmissionPerCertificate
PROPERTIES
    AdmissionRestsOnNewestEvidence
    InsertionPassesEveryGate
SYMMETRY Symmetry
CHECK_DEADLOCK FALSE
