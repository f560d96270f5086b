SPECIFICATION Spec
CONSTANTS
    Tasks = {t1, t2, t3}
    Strays = {t3}
    Null = Null
INVARIANTS NoFreedNodeIsUsed
