SPECIFICATION Spec
CONSTANTS
    t1 = t1
    t2 = t2
    u1 = u1
    u2 = u2
    NoTask = NoTask
    Task <- Tasks
    Planned <- Chain
    Contracts <- TwoContracts
    Modes <- BothModes
    CommitOutcomes = {"same", "advanced"}
    Works = {"inside", "outside"}
    Endings = {"FAILED", "ERROR"}
    Rollback = TRUE
    GitFails = FALSE
    MaxIterations = 2
    MaxRetries = 2
    Users = {u1}
    MaxRuns = 2
    MaxProposals = 2
ACTION_CONSTRAINT UsersBetweenRuns
INVARIANT DoneIsNotRedone
CHECK_DEADLOCK FALSE
