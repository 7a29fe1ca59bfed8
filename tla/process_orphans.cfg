CONSTANTS
    Conf <- MCWorkers
    NGX_MAX_PROCESSES = 5
    RELOAD_IN_UPGRADE = TRUE
    KILL_AFTER = 50
    MAX_SIGNALS = 4
    MAX_FAULTS = 0
SPECIFICATION MasterSpec
INVARIANT NoOrphans
CHECK_DEADLOCK FALSE
