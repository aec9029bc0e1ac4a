\* Two workers that share a pool of two connections.
SPECIFICATION Spec
CONSTANTS
    Workers = {w1, w2}
    Conns = {c1, c2}
    Fds = {f1, f2}
    NoConn = NoConn
    NoFd = NoFd
    InitConns = 1
    MaxConns = 2
    RetryTimes = 1
    IdMod = 16
    MaxCalls = 4
SYMMETRY CallSymmetry
INVARIANTS TypeOK OwnAnswerIfIdsDiffer RetryOnCleanWire
CHECK_DEADLOCK FALSE
