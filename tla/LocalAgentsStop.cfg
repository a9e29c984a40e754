SPECIFICATION Spec
CONSTANTS
    Ids = {"pkg_app", "pkg_app2"}
    Longer <- MCLonger
    Datas <- MCDatas
    Null = Null
    MaxPid = 3
INVARIANT
    NoGrantAfterStop
