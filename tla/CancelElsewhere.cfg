SPECIFICATION Spec
CONSTANTS
    h1 = h1
    h2 = h2
    p1 = p1
    p2 = p2
    NoRun = NoRun
    Procs <- TwoProcesses
    Handlers <- Threads
    ProcOf <- Apart
    MayCall <- OneDriver
    Runs = {r1, r2}
    Tasks = 1
    Outcomes <- Outcome
    MaxCalls <- ThreeEach
    MaxCrashes = 0
PROPERTY CancelStopsWork
CHECK_DEADLOCK FALSE
