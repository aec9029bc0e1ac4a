\* Two services that may share two nodes, one address more than needed for each table so
\* that a freed address is used again, two threads that apply changes.
SPECIFICATION Spec
CONSTANTS
    Services = {s1, s2}
    Keys = {k1, k2}
    Items = {i1, i2}
    Nodes = {n1, n2, n3}
    Workers = {w1}
    Writers = {t1, t2}
    Nil = Nil
SYMMETRY TableSymmetry
INVARIANT KeyCopiedInTime
CHECK_DEADLOCK FALSE
