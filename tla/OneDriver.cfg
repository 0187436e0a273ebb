SPECIFICATION FairSpec
CONSTANTS
    h1 = h1
    h2 = h2
    p1 = p1
    p2 = p2
    NoRun = NoRun
    Procs <- OneProcess
    Handlers <- Threads
    ProcOf <- Together
    MayCall <- OneDriver
    Runs = {r1, r2}
    Tasks = 2
    Outcomes <- Outcome
    MaxCalls <- EightAndOne
    MaxCrashes = 1
INVARIANTS CompletedWasEarned
PROPERTIES FinalIsFinal RunSettles
CHECK_DEADLOCK FALSE
