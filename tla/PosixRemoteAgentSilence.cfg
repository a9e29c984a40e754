SPECIFICATION FairSpec
CONSTANTS
    Senders = {c1}
    Uids = {u1}
    Pids = {p1}
    Sessions = {s1}
    MaxStart = 1
    Verify = {}
    Faults = {"agent"}
    Serialized = TRUE
    Null = Null
PROPERTY
    SendEnds
