SPECIFICATION Spec
CONSTANTS
    r1 = r1
    Requests = {r1}
    ListChoices <- MCListChoices
    ArgumentChoices <- MCArgumentChoices
    MaxUpdates = 2
    StaleReads = TRUE
INVARIANTS
    StoredTasksMatchedParent
    RefusedForItsReason
CHECK_DEADLOCK FALSE
