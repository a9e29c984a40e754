SPECIFICATION FairSpec
CONSTANTS
    Senders = {c1, c2}
    Uids = {u1, u2}
    Pids = {p1}
    Sessions = {s1, s2}
    MaxStart = 3
    Verify = {s2}
    Faults = {"agent", "credentials"}
    Serialized = TRUE
    Null = Null
INVARIANTS
    TypeOK
    AnswerIsAboutTheAsker
    SessionsLeadToTheirUser
    NothingIsLeftOver
PROPERTY
    SendEndsUnlessItsSkeletonThrew
