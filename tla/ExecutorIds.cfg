SPECIFICATION Spec
CONSTANTS
    NCpus = 2
    Bsp = 0
    Futures = {main, f1, f2, f3}
    Main = main
    NoFuture = none
    U64Max = 4
    MaxQueue = 1
INVARIANTS TaskIDsAreUnique
