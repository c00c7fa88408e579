SPECIFICATION Spec
CONSTANTS
    Threads = {t1}
    Messages = {m1, m2}
    MsgLen = 2
    FileSize = 2
    MaxFiles = 1
    MaxInbound = 1
    MaxTasks = 2
CHECK_DEADLOCK FALSE
SYMMETRY Symmetry
INVARIANTS StreamIntact SendsKept OutputArmed DtorAssertion
PROPERTIES FinAfterData ClosesOnce
