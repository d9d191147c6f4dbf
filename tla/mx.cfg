SPECIFICATION FairSpec
CONSTANTS
    MaxMails = 3
    MaxLosses = 2
    MaxFlips = 3
    Channels = {"a", "b"}
    Tos <- MCTos
    RetryLimit = 0
    MaxRecorders = 2
INVARIANTS
    TypeOK
    ReportIsTrue
PROPERTIES
    RemovedWasHandedOver
    MailboxDrained
    EveryMailReportedOnce
CHECK_DEADLOCK FALSE
