SPECIFICATION Spec
CONSTANTS
    t1 = t1
    t2 = t2
    t3 = t3
    ghost = ghost
    User = User
    NoTask = NoTask
    Task <- Tasks
    Graphs <- SomeGraphs
    Parallel = TRUE
    Rollback = FALSE
    Replan = FALSE
    Persist = FALSE
    Repository = "fresh"
    Commits = {TRUE}
    GitFails = FALSE
    MaxWorkers = 0
    Stops = {}
    StartStatus = {"PENDING"}
INVARIANTS NoWorktreeLeft
