SPECIFICATION DiskFairSpec
CONSTANTS
    GroupCount = 2
    GroupBlocks = 8
    CountMod = 16
    MaxFaults = 1
    Direct = 2
    Addrs = 12
    BlockSize = 2
    DirCap = 2
    InodesPerGroup = 3
    MkfsInodes = {1, 2}
    Root = 1
    LongNames = {}
    Prealloc = 0
    Clients = {c1, c2}
    OpenRequests <- MCOpenRequests
    Lengths = {1, 7}
    Offsets <- MCOffsets
    MkfsBits <- MCMkfsBits
    MkfsTable <- MCMkfsTable
    MkfsEntries <- MCMkfsEntries
    MaxOps = 4
    None = None
    u1 = u1
    u2 = u2
    Users <- MCUsers
    Uses <- MCUses
    NumSlots = 2
    Lba48 = TRUE
    MaxQueue = 2
    Nobody = Nobody
    Controllers <- MCControllers
    MaxPorts = 2
INVARIANTS
    BlocksAreAccounted
    NamesAreUnique
    ExclCreatesOnce
    EngineIsCoherent
    OkMeansExecuted
    OperationsAreAccounted
    PortsUpAreReady
PROPERTIES
    Answered
    NoticedIsAnswered
    BasesWrittenStopped
    SetupEnds
CHECK_DEADLOCK FALSE
