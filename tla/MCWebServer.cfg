\* Up to three requests, each for any kind of path.
SPECIFICATION FairSpec
CONSTANTS
    Paths = {"file", "empty", "locked", "plain", "missing", "none", "dir", "bare"}
    Stat <- MCStat
    Indexes <- MCIndexes
    Requests <- MCRequests
CHECK_DEADLOCK FALSE
INVARIANTS ResponsesFramed FilesClosed
PROPERTY ResponsesCompleted
