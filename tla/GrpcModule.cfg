SPECIFICATION FairSpec
CONSTANT
    MaxCalls = 2
INVARIANTS
    NothingOutlivesServe
    CloseAfterCalls
PROPERTIES
    ServeEnds
CHECK_DEADLOCK FALSE
