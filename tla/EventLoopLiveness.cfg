\* A call without a deadline, a callback's call with one.
SPECIFICATION FairSpec
CONSTANTS
    c1 = c1
    l1 = l1
    n1 = n1
    Callers = {c1, l1}
    LoopCallers = {l1}
    Deadlined = {l1}
    Senders = {}
    Execs = {}
    Names = {n1}
    Refresh = Refresh
    Exit = Exit
    MaxChanges = 1
PROPERTIES
    ImplementsMailbox
    EventuallyServed
    CallsReturn
    WorkersStop
CHECK_DEADLOCK FALSE
