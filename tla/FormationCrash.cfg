CONSTANTS
    Nodes = {1, 2, 3}
    MaxInc = 1
    MaxCounter = 2
    MaxMembers = 3
    MaxTombstones = 3
    Founders = {1, 2, 3}
    Suspectable = {1, 3}
    Crashable = {1, 3}
    Leavers = {}
    Operators = {}
    Lockers = {}
    Removable = {}
SPECIFICATION FairSpec
PROPERTIES
    CrashIsDetected
CHECK_DEADLOCK FALSE
