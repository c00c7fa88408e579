\* Three connections on the base loop, on a pool of one and on a pool of two.
SPECIFICATION FairSpec
CONSTANTS
    Conns = {c1, c2, c3}
    PoolSizes = {0, 1, 2}
INVARIANTS OpenIsHeld RoundRobin
PROPERTY ClosedIsErased
CHECK_DEADLOCK FALSE
