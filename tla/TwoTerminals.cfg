SPECIFICATION Spec
CONSTANTS
    h1 = h1
    h2 = h2
    p1 = p1
    p2 = p2
    NoRun = NoRun
    Procs <- TwoProcesses
    Handlers <- Threads
    ProcOf <- Apart
    MayCall <- TwoTerminals
    Runs = {r1, r2}
    Tasks = 1
    Outcomes <- Outcome
    MaxCalls <- ThreeEach
    MaxCrashes = 0
INVARIANT OneActiveRun
CHECK_DEADLOCK FALSE
