CONSTANTS
    Worker = {w1,w2}
    NP = 1
    NB = 1
    Conf <- MCConf
    Weight <- MCWeight
    MaxConns <- MCUnlimited
    MaxFails <- MCMaxFails
    FailTimeout <- MCFailTimeout
    Down = {2}
    NEXT_TRIES = 0
    SKEW = 1
    MaxTime <- MCMaxTime
    MAX_FAILED = 2
SYMMETRY WorkerSymmetry
SPECIFICATION PSpec
PROPERTY LiveIfCheckPassed
CHECK_DEADLOCK FALSE
