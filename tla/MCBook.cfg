SPECIFICATION Spec
CONSTANTS
    Threads = {t1}
    NoThread = NoThread
    Ids = {o1, o2, o3, o4, o5}
    NoId = NoId
    Prices = {0, 1, 2}
    Inputs <- BookInputs
SYMMETRY Symmetry
INVARIANTS
    TypeOK
    MapsSound
    Uncrossed
    Conservation
PROPERTIES
    StopsJustified
    StopsExhausted
    ImplementsExchange
