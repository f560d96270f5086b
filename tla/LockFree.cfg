SPECIFICATION LockFreeSpec
CONSTANTS
    Users = {u1, u2, u3}
    Count = 3
    PageSize = 4
    Size = 2
    Frames = {1, 2, 5}
    None = None
    Scripts <- MCScripts
    Maker = "a"
    CAPACITY = 2
    MaxPos = 3
INVARIANTS BuffersAreAccounted ExactlyOnce OneSenderIsFifo OneSenderWakes
CHECK_DEADLOCK FALSE
