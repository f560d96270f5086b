SPECIFICATION Spec
CONSTANTS
    NCpus = 2
    Paths = {"pop", "spawn", "wait", "drop_guard", "set"}
    Nobody = Nobody
INVARIANTS NoSelfDeadlock
