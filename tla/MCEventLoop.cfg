\* Two foreign threads and three tasks: one in the batch, one pushed around the
\* swap, one queued by a running task.
SPECIFICATION FairSpec
CONSTANTS
    p1 = p1
    p2 = p2
    t1 = t1
    t2 = t2
    t3 = t3
    Threads = {p1, p2}
    Tasks = {t1, t2, t3}
    MaxWakeups = 2
INVARIANTS
    NoLostWakeup
    QuitNotMissed
PROPERTIES
    TaskRuns
    QuitStops
    ImplementsTaskQueue
CHECK_DEADLOCK FALSE
