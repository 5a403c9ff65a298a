\* More handlers than sessions: two handlers on pools of one session.
CONSTANTS
    a1 = a1
    a2 = a2
    b = b
    ka = ka
    kb = kb
    None = None
    Configs <- OneConnection
    Keys <- OneKey
    KeyOf <- KeyOfOne
    Reachable <- ReachableOfOne
    Workers = {w1, w2}
    Sizes = {1}
    Pools = {p1, p2}
SPECIFICATION FairSpec
PROPERTIES WaitersServed UnusedPoolsEvicted
