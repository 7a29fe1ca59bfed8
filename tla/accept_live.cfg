CONSTANTS
    Worker = {w1, w2}
    Shared = {ls}
    Nobody = nobody
    OWN = FALSE
    MULTI = FALSE
    CONN = 16
    RESERVED = 13
    FILES = 2
    ENFILE = TRUE
    MAX_PENDING = 1
    MAX_KILLS = 1
SPECIFICATION FairSpec
INVARIANTS OwnedInRound HolderListens
PROPERTY Accepted
CHECK_DEADLOCK FALSE
