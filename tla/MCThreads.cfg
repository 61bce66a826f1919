SPECIFICATION PSpec
CONSTANTS
    IoThread = io
    GenThread = gen
    Threads = {io, gen}
    NoThread = NoThread
    Ids = {o1, o2, o3}
    NoId = NoId
    Prices = {0, 1, 2}
    Inputs <- AllInputs
    ClientInputs <- FromClients
    GeneratorInputs <- FromGenerator
    Clients = {c1}
    MaxTracked = 1
    MaxLevels = 1
    WordSize = 3
CHECK_DEADLOCK FALSE
INVARIANTS
    TradesDelivered
    ReportsOwed
    SnapshotUncrossed
    GeneratedAccounted
    ExitClean
PROPERTIES
    SnapshotComplete
    CallsReturnUnlessStopped
    StopsWhenFree
