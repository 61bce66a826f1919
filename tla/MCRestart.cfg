SPECIFICATION PSpec
CONSTANTS
    Threads = {io, gen}
    IoThread = io
    NoThread = NoThread
    Ids = {o1, o2, o3}
    NoId = NoId
    Prices = {0, 1, 2}
    Inputs <- StoreInputs
    MaxCrashes = 1
SYMMETRY Symmetry
PROPERTIES
    RestartComplete
