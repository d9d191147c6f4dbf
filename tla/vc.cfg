SPECIFICATION FairSpec
CONSTANTS
    Default = ""
    Services <- MCServices
    TryLimit = 1
    MaxAsk = 2
INVARIANTS TypeOK NothingOutlivesItsChallenge WaiterHasTimeout
PROPERTIES EveryChallengeAnsweredOnce
