SPECIFICATION FairSpec
CONSTANTS
    Default = Default
    HasPwd = FALSE
    Joins = 0
    RetryCount = 1
    MessageCap = 50
    CommandCap = 200
    MaxConn = 2
    MaxChat = 1
    MaxBurst = 1
    MaxLines = 0
CHECK_DEADLOCK FALSE
PROPERTY ReadErrorCausesRelogin
