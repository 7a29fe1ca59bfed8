CONSTANTS
    Worker = {w1, w2}
    NP = 2
    NB = 1
    Conf <- MCConf
    Weight <- MCWeight
    MaxConns <- MCMaxConns
    MaxFails <- MCMaxFails
    FailTimeout <- MCFailTimeout
    Down = {}
    NEXT_TRIES = 2
    SKEW = 1
    MaxTime <- MCMaxTime
    MAX_FAILED = 1
SPECIFICATION FairSpec
INVARIANTS TypeOK ConnsCount MaxConnsRespected WeightsBalance AskedOnce
PROPERTY Progress
CHECK_DEADLOCK FALSE
