CONSTANTS
    Configs <- MCDisjoint
    Qqs <- MCQqs
    Rooms <- MCRooms
    Accounts <- MCAccounts
    RpcChannels <- MCRpcChannels
    MaxMessages = 1
    MaxRestarts = 1
SPECIFICATION Spec
INVARIANTS
    FoundGroupHasChannel
CHECK_DEADLOCK FALSE
