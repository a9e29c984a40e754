SPECIFICATION Spec
CONSTANTS
    Null = Null
    EmptyId = ""
    Int32Span = 4
    Int64Span = 8
    Requests <- MCRequests
    AppIds = {"a"}
    Features = {0}
    Intervals <- MCIntervals
    Queries = {q1}
    MaxId = 2
PROPERTY
    EraseRemovesCurrent
