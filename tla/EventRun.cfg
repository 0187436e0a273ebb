SPECIFICATION Spec
CONSTANTS
    server = server
    cli = cli
    request = request
    worker = worker
    command = command
    e1 = e1
    e2 = e2
    e3 = e3
    NoEvent = NoEvent
    reader = reader
    Event <- Events
    Store <- Stores
    Thread <- Threads
    StoreOf <- ThreadStore
    Home <- EventHome
    Rotating = {server}
    MaxLines = 1
    Reader = {reader}
    MaxTorn = 2
    MaxLog = 2
    Garbled = Garbled
    Separated = {e3}
SYMMETRY Alike
INVARIANTS LossIsBounded ReadsAreComplete
PROPERTIES ImplementsEventLog
CHECK_DEADLOCK FALSE
