SPECIFICATION ChainSpec
CONSTANTS
    Null = Null
    EmptyId <- MCEmptyId
    Int32Span = 4
    Int64Span = 8
    Callers = {c1, c2}
    Keys <- MCKeys
    Preseeds <- MCPreseeds
    Skews = {0, 1}
    MaxId = 2
    MaxTime = 3
    MaxSetBacks = 0
    Asks <- MCAsks
    User = 1
    Unconfined <- MCUnconfined
    Camera <- MCCamera
    ListCamera = TRUE
SYMMETRY MCSymmetry
INVARIANTS
    TypeOK
    AnswersAreTheUsers
    RowsAreTheUsers
    KnownAnswerIsNotAskedFor
    StoreIsUpToDateOnReturn
    GrantedOnlyByUserOrList
    DecisionsOutliveUpgrades
PROPERTY
    MostRecentAnswerIsTaken
