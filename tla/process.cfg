CONSTANTS
    Conf <- MCCache
    NGX_MAX_PROCESSES = 4
    RELOAD_IN_UPGRADE = FALSE
    KILL_AFTER = 50
    MAX_SIGNALS = 3
    MAX_FAULTS = 1
SPECIFICATION FairMasterSpec
INVARIANTS NoOrphans Staffed
PROPERTIES Stops Retired
CHECK_DEADLOCK FALSE
