CONSTANTS
    Width = 3
    MaxSeq = 6
    MaxSends = 4
SPECIFICATION WindowSpec
INVARIANTS
    HandledAtMostOnce
PROPERTIES
    ReorderedStreamsSurvive
