\* The life of a loop thread: an owner, one more user, two tasks.
SPECIFICATION ThreadFairSpec
CONSTANTS
    o = o
    w = w
    t1 = t1
    t2 = t2
    Owner = o
    Threads = {o, w}
    Tasks = {t1, t2}
    MaxWakeups = 5
INVARIANTS
    StartedLoopUsable
PROPERTIES
    DtorJoins
CHECK_DEADLOCK FALSE
