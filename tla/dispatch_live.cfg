\* The host reads stdout; one of the two workers may get a handler that hangs.
CONSTANTS
    Requests = {r1, r2, r3, slow}
    Slow = {slow}
    Workers = {w1, w2}
    ReqCap = 1
    RespCap = 1
    StdoutMayFail = FALSE
    None = None
SPECIFICATION FairSpec
CHECK_DEADLOCK FALSE
PROPERTIES ImplementsService Responsive ExitsAfterEof
