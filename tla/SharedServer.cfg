SPECIFICATION Spec
CONSTANTS
    h1 = h1
    h2 = h2
    p1 = p1
    p2 = p2
    NoRun = NoRun
    Procs <- OneProcess
    Handlers <- Threads
    ProcOf <- Together
    MayCall <- SharedServer
    Runs = {r1, r2}
    Tasks = 2
    Outcomes <- Outcome
    MaxCalls <- ThreeEach
    MaxCrashes = 1
SYMMETRY Interchangeable
INVARIANTS TypeOK RunsFollowApproval OneActiveRunUntilCrash
PROPERTIES EndedStaysEnded CancelStopsWork
CHECK_DEADLOCK FALSE
