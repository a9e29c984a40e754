SPECIFICATION Spec
CONSTANTS
    Pool = {w1, w2}
    TokenThread = token
    Null = Null
CHECK_DEADLOCK FALSE
INVARIANTS
    TypeOK
    OnePromptAtATime
PROPERTIES
    
    StartUpFailureIsReported
    HandlersAreRun
    ProcessEnds
