SPECIFICATION FairSpec
CONSTANTS
    Default = 0
    MaxConn = 3
    MaxGiven = 7
    MaxReplies = 3
INVARIANTS
    StanzasKept
PROPERTIES
    CoroutineYieldsToSender
    LostConnectionRestarts
CHECK_DEADLOCK FALSE
