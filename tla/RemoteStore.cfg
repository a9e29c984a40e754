SPECIFICATION Spec
CONSTANTS
    Null = Null
    Clients = {c1, c2}
    MaxQueries = 2
    MaxCalls = 2
    MaxRuns = 2
SYMMETRY MCSymmetry
INVARIANTS
    TypeOK
    QueryIsTheClientsOwn
    QueriesAreReleased
PROPERTIES
    SuccessIsReal
