\* Three addresses, one-shot and periodic timers.
SPECIFICATION Spec
CONSTANTS
    Timers = {1, 2, 3}
    Intervals = {0, 1}
    MaxTime = 3
INVARIANTS TimerfdCovers OneOwner
PROPERTY CanceledNeverRuns
CHECK_DEADLOCK FALSE
