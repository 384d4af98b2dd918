CONSTANTS
    Nodes = {1, 2, 3}
    MaxInc = 0
    MaxCounter = 2
    MaxMembers = 3
    MaxTombstones = 3
    Founders = {1, 2, 3}
    Suspectable = {}
    Crashable = {}
    Leavers = {}
    Operators = {1}
    Lockers = {1, 2}
    Removable = {3}
SPECIFICATION FairSpec
PROPERTIES
    DecisionsAreRegisters
    DecisionsConverge
CHECK_DEADLOCK FALSE
