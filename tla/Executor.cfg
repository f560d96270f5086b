SPECIFICATION FairSpec
CONSTANTS
    NCpus = 2
    Bsp = 0
    Futures = {main, f1, f2}
    Main = main
    NoFuture = none
    U64Max = 1
    MaxQueue = 1
INVARIANTS PollsAreSound NoBootPanic
PROPERTIES QueuedTaskIsPolled
