SPECIFICATION FairSpec
CONSTANTS
    Default = Default
    HasPwd = FALSE
    Joins = 1
    RetryCount = 1
    MessageCap = 50
    CommandCap = 200
    MaxConn = 3
    MaxChat = 2
    MaxBurst = 2
    MaxLines = 1
CHECK_DEADLOCK FALSE
INVARIANTS TypeOK OneSender CleanLogin ChatLinesInSequence
PROPERTIES NoWriteAfterStop CancelledLoopReconnects
