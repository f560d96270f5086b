SPECIFICATION MemoryFairSpec
CONSTANTS
    Tasks = {t1, t2, t3}
    Strays = {t3}
    Null = Null
    MemMaps <- MCMemMaps
    ByteSize = 4
    PageBytes = 2
    KheapPages = 1
    StackPages = 1
    Threads = {p1, p2}
    Kernel = kernel
    RunLengths = {2}
    MaxQueue = 2
INVARIANTS
    MutualExclusion
    ListIsSound
    FramesAreAccounted
    SearchesAreComplete
PROPERTIES
    ImplementsFifoMutex
    ListedWaiterIsWoken
    DroppedIsFreed
CHECK_DEADLOCK FALSE
