\* Two connections, one of which is corrected under its key, two handlers.
CONSTANTS
    a1 = a1
    a2 = a2
    b = b
    ka = ka
    kb = kb
    None = None
    Configs <- TwoConnections
    Keys <- TwoKeys
    KeyOf <- KeyOfTwo
    Reachable <- ReachableOfTwo
    Workers = {w1, w2}
    Sizes = {1, 2}
    Pools = {p1, p2, p3}
SPECIFICATION Spec
SYMMETRY Symmetry
INVARIANTS WithinPoolSize RegisteredPoolsOpen FailedPoolStaysOut
PROPERTIES SweepSparesCheckedOut
