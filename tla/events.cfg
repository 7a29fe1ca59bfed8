CONSTANTS
    CONNECTIONS = 3
    Sock = {ls, s1, s2, s3}
    LISTEN = ls
    NONE = none
    BATCH = 2
SYMMETRY SockSymmetry
SPECIFICATION Spec
INVARIANTS FreeExact ReusableOpen NothingLeftBehind NoMisdelivery NoLostEvent
