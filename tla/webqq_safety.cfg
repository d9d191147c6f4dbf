SPECIFICATION Spec
CONSTANTS
    Default = Default
    Groups = 1
    MessageCap = 20
    MaxMessages = 2
    MaxBatch = 1
    MaxDecoding = 2
    MaxReloads = 0
CHECK_DEADLOCK FALSE
INVARIANTS GroupMessagesInOrder CheckedCodeIsUsed ThreeErrorsRelogin
