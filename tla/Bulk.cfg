SPECIFICATION FairSpec
CONSTANTS
    d1 = d1
    d2 = d2
    d3 = d3
    big = big
    config = config
    Docs <- MCDocs
    NotIndexed <- MCNotIndexed
    Oversized <- MCOversized
    MaxAttempts = 2
INVARIANTS
    EachDocumentOnce
PROPERTIES
    EveryCallEnds
    ImplementsContract
\* A finished call stays finished.
CHECK_DEADLOCK FALSE
