SPECIFICATION SvSpec
CONSTANTS
    Threads = {io, gen}
    IoThread = io
    NoThread = NoThread
    Ids = {o1, o2, o3}
    NoId = NoId
    Clients = {c1, c2}
    NoClient = NoClient
    Prices = {0, 1}
    Inputs <- RequestInputs
SYMMETRY Symmetry
INVARIANTS
    ClientInformed
    OwnTradesHeard
    LiveOwned
    CanceledOnRequest
    CleanedUp
