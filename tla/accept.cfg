CONSTANTS
    Worker = {w1, w2}
    Shared = {ls}
    Nobody = nobody
    OWN = TRUE
    MULTI = TRUE
    CONN = 16
    RESERVED = 12
    FILES = 3
    ENFILE = TRUE
    MAX_PENDING = 1
    MAX_KILLS = 0
SYMMETRY WorkerSymmetry
SPECIFICATION Spec
INVARIANTS OneListener
CHECK_DEADLOCK FALSE
