SPECIFICATION FairSpec
CONSTANTS
    Last = 7
    First = 4
    MaxKeys = 3
    MaxPages = 16
INVARIANTS
    NoDuplicates
    NoneMissed
    EndsWithoutGap
PROPERTY
    GapOrEnd
CHECK_DEADLOCK FALSE
