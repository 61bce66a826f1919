SPECIFICATION CSpec
CONSTANTS
    Channels <- Connected
    Sendable <- Messages
    LongText = "long"
    MaxSize = 20
    Base = 3
    MaxUint = 3
    Second = 10
    Hour = 100
    SummerTimes = {24}
    MaxSent = 2
CHECK_DEADLOCK FALSE
INVARIANTS
    Understood
    InStep
