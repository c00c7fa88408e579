\* Two threads that race with the loop, each with its own shutdown() or
\* forceClose(), and two queued tasks.
SPECIFICATION Spec
CONSTANTS
    Threads = {t1, t2}
    MaxTasks = 2
INVARIANTS HandedOver ClosedOnce ToldInOrder DiesClosed
CHECK_DEADLOCK FALSE
SYMMETRY Symmetry
