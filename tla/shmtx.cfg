CONSTANTS
    Proc = {p1, p2, p3}
    Master = master
    Free = free
    SPIN = 1
SPECIFICATION FairSpec
INVARIANTS Exclusion Conservation SurplusBounded NoLostWakeup
PROPERTIES ImplementsMutex Progress DeadOwnerReleased
CHECK_DEADLOCK FALSE
