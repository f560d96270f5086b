SPECIFICATION Spec
CONSTANTS
    Tasks = {t1, t2, t3}
    Strays = {}
    Null = Null
INVARIANTS ParkedWaiterIsListed
