SPECIFICATION FairSpec
CHECK_DEADLOCK FALSE
CONSTANTS
    Null = Null
    u1 = u1
    u2 = u2
    d1 = d1
    d2 = d2
    Uids = {u1, u2}
    Daemons = {d1, d2}
    UserOf <- MCUserOf
    Leavers = {d1}
    Since <- MCSince
    Callers = {c1}
    MaxPaths = 3
    MaxRuns = 2
INVARIANTS
    TypeOK
    AnswerIsFromTheUsersDaemon
    RegisteredAgentIsExported
    WithdrawnAgentIsNotAsked
PROPERTIES
    DaemonIsReachedInTheEnd
