\* Three workers for two connections, with an address and a descriptor more than the pool can
\* use, a clock that moves both ways and can pass the idle limit.  The destroying thread is
\* fair; without symmetry, which a liveness property does not allow.
SPECIFICATION FairSpec
CONSTANTS
    Workers = {w1, w2, w3}
    Conns = {c1, c2, c3}
    Fds = {f1, f2, f3}
    NoConn = NoConn
    NoFd = NoFd
    InitConns = 1
    MinConns = 1
    MaxConns = 2
    IdleLimit = 1
    UIntMod = 8
    MaxClock = 2
    ClockMayStepBack = TRUE
    DestroyTries = 2
INVARIANTS ExclusiveUse SizeBound DescriptorsExclusive OldestFirst
PROPERTY EmptiesUnused ClosesOnlyLongIdle RetirementEnds
CHECK_DEADLOCK FALSE
