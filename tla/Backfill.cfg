SPECIFICATION FairSpec
CONSTANTS
    None = None
    old = old
    recent = recent
    Objects = {old, recent}
    StoreOf <- MCStoreOf
    Legacy <- MCLegacy
    Unselected = {}
    Passes <- MCPasses
    Options <- MCOptions
    BatchSize = 2
    MaxWrites = 1
INVARIANTS
    Repaired
    CountsAddUp
    StopsAtMaxFailures
    LimitRespected
PROPERTY
    EveryRunEnds
\* A finished run stays finished.
CHECK_DEADLOCK FALSE
