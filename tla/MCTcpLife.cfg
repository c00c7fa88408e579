\* One message that a write takes or leaves, one file, unread data; the foreign
\* thread sends and shuts down (its forceClose() is in MCTcpStream.cfg).
SPECIFICATION FairSpec
CONSTANTS
    Threads = {t1}
    Messages = {m1}
    MsgLen = 1
    FileSize = 1
    MaxFiles = 1
    MaxInbound = 1
    MaxTasks = 0
CHECK_DEADLOCK FALSE
PROPERTIES PeerGoneSeen ShutdownCompletes ClosedIsReleased
