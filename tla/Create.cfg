SPECIFICATION FairSpec
CONSTANTS
    r1 = r1
    r2 = r2
    r3 = r3
    Requests = {r1, r2}
    Suffixes = {"a", "b"}
    Classes = {"OpenquakeHazardConfig", "InversionSolution"}
    StoreOf <- MCStoreOf
    NotIndexed = {"OpenquakeHazardConfig"}
    FirstId = 1
    MaxAttempts = 3
    Seeded = FALSE
    StaleReads = TRUE
    ReadOnly = FALSE
INVARIANTS
    TypeOK
    OneObjectPerRequest
    AcknowledgedIsStored
    DerivedDataBacked
PROPERTIES
    UploadsSurvive
    ImplementsRegister
    EveryCreateEnds
CHECK_DEADLOCK FALSE
