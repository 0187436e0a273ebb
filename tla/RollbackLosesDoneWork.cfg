SPECIFICATION Spec
CONSTANTS
    t1 = t1
    t2 = t2
    t3 = t3
    ghost = ghost
    User = User
    NoTask = NoTask
    Task <- Tasks
    Graphs <- SomeGraphs
    Parallel = FALSE
    Rollback = TRUE
    Replan = FALSE
    Persist = FALSE
    Repository = "existing"
    Commits = {FALSE}
    GitFails = FALSE
    MaxWorkers = 0
    Stops = {}
    StartStatus = {"PENDING"}
INVARIANTS DoneWorkSurvives
