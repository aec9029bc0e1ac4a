\* Two services that may share two nodes, one address more than needed for each table so
\* that a freed address is used again, two threads that apply changes.  An array of up to four
\* strings, and a counter of eight values, which three does not divide.
SPECIFICATION SpecEither
CONSTANTS
    Services = {s1, s2}
    Keys = {k1, k2}
    Items = {i1, i2}
    Nodes = {n1, n2}
    Workers = {w1, w2}
    Writers = {t1, t2}
    Nil = Nil
    Strings = {a1, a2, a3, a4}
    CounterRange = 8
    MaxPicks = 9
SYMMETRY TableSymmetry
INVARIANTS ListedHavePools ServicesNonEmpty NoOrphanPools UniqueEntries NodesInUseAlive Balanced
CHECK_DEADLOCK FALSE
