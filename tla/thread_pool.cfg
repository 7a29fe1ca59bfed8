CONSTANTS
    Thread = {h1, h2}
    Task = {t1, t2, t3}
    Exit = exit
    NULL = null
    MAX_QUEUE = 1
SPECIFICATION FairSpec
INVARIANTS OnePlace WaitingExact NoSleepOverQueue DestroyedQuietly
PROPERTIES ImplementsService Completed Destroyed
CHECK_DEADLOCK FALSE
