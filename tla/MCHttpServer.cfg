\* Lines in every chunking, from a client that waits or does not, and any target
\* of up to five characters.
SPECIFICATION FairSpec
CONSTANTS
    Inputs <- MCInputs
    MaxPath = 5
CHECK_DEADLOCK FALSE
INVARIANTS ResponsesInOrder ParserTerminates RequestExact
PROPERTY AllAnswered
