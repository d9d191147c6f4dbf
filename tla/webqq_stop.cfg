SPECIFICATION FairSpec
CONSTANTS
    Default = Default
    Groups = 0
    MessageCap = 20
    MaxMessages = 0
    MaxBatch = 1
    MaxDecoding = 0
    MaxReloads = 0
CHECK_DEADLOCK FALSE
PROPERTY StopEndsLoops
