SPECIFICATION Spec
CONSTANTS
    Senders = {c1, c2}
    Uids = {u1}
    Pids = {p1, p2}
    Sessions = {s1, s2}
    MaxStart = 2
    Verify = {}
    Faults = {"agent", "credentials"}
    Serialized = FALSE
    Null = Null
INVARIANT
    AnswerIsAboutTheAsker
