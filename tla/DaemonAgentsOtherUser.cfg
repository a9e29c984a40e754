SPECIFICATION ChainSpec
CONSTANTS
    Null = Null
    EmptyId <- MCEmptyId
    Int32Span = 4
    Int64Span = 8
    Callers = {c1, c2}
    Keys <- MCKeys
    Preseeds <- MCPreseeds
    Skews = {0}
    MaxId = 2
    MaxTime = 2
    MaxSetBacks = 0
    Asks <- MCOtherUserAsks
    User = 1
    Unconfined <- MCUnconfined
    Camera <- MCCamera
    ListCamera = TRUE
INVARIANT
    OtherUsersAreRejected
