SPECIFICATION SFairSpec
CONSTANTS
    IoThread = io
    GenThread = gen
    MaxSends = 4
    MaxFrames = 2
INVARIANTS
    WireInOrder
    PopsItsMessage
    RemovedOnce
PROPERTIES
    QueueDrains
CHECK_DEADLOCK FALSE
