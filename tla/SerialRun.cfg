SPECIFICATION FairSpec
CONSTANTS
    t1 = t1
    t2 = t2
    t3 = t3
    ghost = ghost
    User = User
    NoTask = NoTask
    Task <- Tasks
    Graphs <- AnyGraph
    Parallel = FALSE
    Rollback = TRUE
    Replan = FALSE
    Persist = TRUE
    Repository = "existing"
    Commits = {TRUE}
    GitFails = TRUE
    MaxWorkers = 0
    Stops = {"cancel", "budget"}
    StartStatus = {"PENDING", "BLOCKED"}
INVARIANTS TypeOK AtMostOnce DependenciesFirst RecordsAgree VerdictSound ReportSound
           FailureLeavesNothing FailurePropagates
PROPERTIES RunEnds
