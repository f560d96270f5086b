SPECIFICATION Spec
CONSTANTS
    GroupCount = 2
    GroupBlocks = 8
    CountMod = 16
    MaxFaults = 0
    Direct = 2
    Addrs = 12
    BlockSize = 2
    DirCap = 2
    InodesPerGroup = 3
    MkfsInodes = {1, 2}
    Root = 1
    LongNames = {}
    Prealloc = 0
    Clients = {c1, c2}
    OpenRequests <- MCOpenRequests
    Lengths = {1, 7}
    Offsets <- MCOffsets
    MkfsBits <- MCMkfsBits
    MkfsTable <- MCMkfsTable
    MkfsEntries <- MCMkfsEntries
    MaxOps = 4
    None = None
INVARIANT
    NoBlockIsShared
CHECK_DEADLOCK FALSE
