SPECIFICATION FairSpec
CONSTANTS
    Default = 0
    Clients = {c1, c2}
    Capacity = 2
    MaxMsg = 4
INVARIANTS OneContinuation NothingSkipped AnsweredBeforeNext
PROPERTY GoneClientReleased
CHECK_DEADLOCK FALSE
