SPECIFICATION Spec
CONSTANTS
    t1 = t1
    t2 = t2
    u1 = u1
    u2 = u2
    NoTask = NoTask
    Task <- Tasks
    Planned <- Chain
    Contracts <- TwoContracts
    Modes <- BothModes
    CommitOutcomes = {"same", "advanced"}
    Works = {"inside", "outside"}
    Endings = {"FAILED"}
    Rollback = TRUE
    GitFails = TRUE
    MaxIterations = 2
    MaxRetries = 2
    Users = {u1, u2}
    MaxRuns = 2
    MaxProposals = 2
SYMMETRY UserSymmetry
ACTION_CONSTRAINTS UsersBetweenRuns OneCallAcrossRuns
INVARIANTS TypeOK DoneIsVerified ObservingIsNeutral BlocksWereApproved AppliedBlockStands
CHECK_DEADLOCK FALSE
