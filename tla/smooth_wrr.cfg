CONSTANTS
    N = 5
    MAX_WEIGHT = 6
SPECIFICATION Spec
INVARIANTS NeverAhead CycleExact
CHECK_DEADLOCK FALSE
