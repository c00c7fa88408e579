---------------------------- MODULE MCChatServer ----------------------------
EXTENDS ChatServer

CONSTANTS empty, full, huge

\* The lengths at the limits.
MCLength == [m \in Messages |-> CASE m = empty -> 0
                                  [] m = full -> MaxLen
                                  [] m = huge -> MaxLen + 1]
=============================================================================
