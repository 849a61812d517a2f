\* A callback's Response, another goroutine's, and the last one.
SPECIFICATION FairSpec
CONSTANT MaxResponses = 3
INVARIANTS
    AnswerWhole
PROPERTY CallEventReturns
CHECK_DEADLOCK FALSE
