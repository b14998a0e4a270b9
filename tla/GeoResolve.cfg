SPECIFICATION FairSpec
CONSTANTS
    Places = {p1}
    MaxNodes = 50
    Found = {0, 1, 50}
    Versions = {v1, v2}
    Unreadable = unreadable
    Rounds = 1
INVARIANTS
    DistinctCells
    SmallestSquare
PROPERTIES
    OutputIsWhole
    OutputRefreshed
