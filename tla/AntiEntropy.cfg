SPECIFICATION FairPullSpec
CONSTANTS
    Leaves = {1, 2, 3}
    BucketSize = 2
    Page = 1
    MaxExchanges = 3
    MaxLeafVersion = 2
    MaxRounds = 2
    MaxEdits = 1
PROPERTIES
    CompleteRoundCatchesUp
    RoundEnds
CHECK_DEADLOCK FALSE
