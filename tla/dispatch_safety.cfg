\* One more request than the dispatcher can hold, and a stdout that may break.
\* The system stops after run() returned, and when the reader blocks for ever
\* behind a full request channel that no worker drains.
CONSTANTS
    Requests = {r1, r2, r3, r4, r5, r6, r7}
    Slow = {}
    Workers = {w1, w2}
    ReqCap = 1
    RespCap = 1
    StdoutMayFail = TRUE
    None = None
SPECIFICATION Spec
SYMMETRY Symmetry
CHECK_DEADLOCK FALSE
INVARIANTS TypeOK PayloadBound ExactlyOnce DrainedBeforeExit
