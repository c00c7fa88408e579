\* A vector of 2 + 2 bytes, an extrabuf of 2, and chunks that overrun both.
SPECIFICATION Spec
CONSTANTS
    Byte = {0, 1}
    Zero = 0
    MaxChunk = 4
    Chunks <- AllChunks
    kCheapPrepend = 2
    kInitialSize = 2
    ExtraSize = 2
    MaxReadable = 5
INVARIANTS TypeOK CallsAreExact
PROPERTY ImplementsByteQueue
