CONSTANTS
    Configs <- MCDisjoint
    Qqs <- MCQqs
    Rooms <- MCRooms
    Accounts <- MCAccounts
    RpcChannels <- MCRpcChannels
    MaxMessages = 2
    MaxRestarts = 1
SPECIFICATION FairSpec
INVARIANTS
    SameGroupOnly
    GroupGetsItOnce
    AnnouncedOnce
PROPERTIES
    RoomKeepsChannel
    AskerAnswered
CHECK_DEADLOCK FALSE
