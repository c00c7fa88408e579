\* starLoop() may sleep forever.
SPECIFICATION ThreadFairSpec
CONSTANTS
    o = o
    t1 = t1
    Owner = o
    Threads = {o}
    Tasks = {t1}
    MaxWakeups = 2
PROPERTIES
    StarLoopReturns
CHECK_DEADLOCK FALSE
