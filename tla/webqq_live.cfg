SPECIFICATION FairSpec
CONSTANTS
    Default = Default
    Groups = 1
    MessageCap = 20
    MaxMessages = 0
    MaxBatch = 2
    MaxDecoding = 0
    MaxReloads = 1
CHECK_DEADLOCK FALSE
INVARIANT OneRequestPerWait
PROPERTIES MemberWaitEnds LostSessionLeadsToCheck
