SPECIFICATION Spec
CONSTANTS
    Keys = {1, 2, 3}
    MaxQueue = 2
    Batch = 2
    HopLimits = {1, 2}
    MaxVersion = 2
    MaxChanges = 6
    MaxTakes = 3
INVARIANTS
    TypeOK
    QueueIsCurrent
    DisseminatedAsAsked
CHECK_DEADLOCK FALSE
