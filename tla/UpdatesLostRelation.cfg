SPECIFICATION Spec
CONSTANTS
    task = task
    subtask = subtask
    config = config
    solution = solution
    r1 = r1
    r2 = r2
    Things = {task, subtask}
    Files = {solution}
    Requests = {r1, r2}
    Kinds = {"fileRelation"}
    Clazz <- MCClazz
    InS3 = {}
    Absent = {}
    NotIndexed <- MCNotIndexed
    Limit = 1
    MaxActive = 2
    StaleReads = FALSE
    Faults = FALSE
    ReadOnly = FALSE
INVARIANT AcknowledgedOnBothRecords
CHECK_DEADLOCK FALSE
