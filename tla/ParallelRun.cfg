SPECIFICATION FairSpec
CONSTANTS
    t1 = t1
    t2 = t2
    t3 = t3
    ghost = ghost
    User = User
    NoTask = NoTask
    Task <- Tasks
    Graphs <- EveryShape
    Parallel = TRUE
    Rollback = TRUE
    Replan = TRUE
    Persist = TRUE
    Repository = "fresh"
    Commits = {TRUE}
    GitFails = TRUE
    MaxWorkers = 2
    Stops = {"cancel"}
    StartStatus = {"PENDING"}
INVARIANTS IInv DoneSawEveryMerge DoneWorkSurvives OnlyStuckWorktreesStay FailuresAreProposed FileFollowsRun
PROPERTIES StopEndsDispatch RunEnds ImplementsDagRun
