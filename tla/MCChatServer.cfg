\* Two users that say the shortest, the longest and a too long message, and one
\* that listens; headers of two bytes, so that a chunk can end in one.
SPECIFICATION ChatFairSpec
CONSTANTS
    empty = empty
    full = full
    huge = huge
    Users = {u1, u2, u3}
    Speakers = {u1, u2}
    Messages = {empty, full, huge}
    Length <- MCLength
    kHeaderLen = 2
    MaxLen = 1
CHECK_DEADLOCK FALSE
INVARIANTS MessagesFramed HeardInOrder
PROPERTY AllHeard
