SPECIFICATION Spec
CONSTANTS
    Ids = {"pkg_app", "pkg_app2"}
    Longer <- MCLonger
    Datas <- MCDatas
    Null = Null
    MaxPid = 4
INVARIANTS
    TypeOK
    CallbackContextIsAlive
    ProviderEndsWithCall
    
    ShownEntryIsTheApps
PROPERTY
    CallEnds
