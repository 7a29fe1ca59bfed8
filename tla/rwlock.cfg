CONSTANTS
    Proc = {p1, p2, p3}
    WLOCK = 4
SPECIFICATION FairSpec
INVARIANTS Exclusion WordCounts
PROPERTIES ImplementsRWLock Progress
CHECK_DEADLOCK FALSE
