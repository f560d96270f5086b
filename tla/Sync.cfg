SPECIFICATION SyncFairSpec
CONSTANTS
    NCpus = 2
    Paths = {"pop", "compare", "spawn", "wait", "drop_guard", "register", "recv", "set", "send", "yield"}
    Nobody = Nobody
    Handles = {h1, h2}
    First = h1
    Messages = {a, b}
    MaxSent = 3
    MaxWakers = 2
INVARIANTS MaskedPathsAreSafe DeliveryIsSound NoLostWakeup
PROPERTIES SpinningEnds SentIsReceived
CHECK_DEADLOCK FALSE
