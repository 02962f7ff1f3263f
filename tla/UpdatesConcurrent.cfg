SPECIFICATION Spec
CONSTANTS
    task = task
    subtask = subtask
    config = config
    solution = solution
    r1 = r1
    r2 = r2
    Things = {task, subtask, config}
    Files = {solution}
    Requests = {r1, r2}
    Kinds = {"update", "fileRelation", "taskRelation", "appendTables", "reindex"}
    Clazz <- MCClazz
    InS3 = {subtask}
    Absent = {}
    NotIndexed <- MCNotIndexed
    Limit = 1
    MaxActive = 2
    StaleReads = TRUE
    Faults = TRUE
    ReadOnly = FALSE
SYMMETRY RequestSymmetry
INVARIANTS
    RaceFreeOnBothRecords
    SecondSideBacked
    IndexBacked
PROPERTY ImplementsAppends
CHECK_DEADLOCK FALSE
