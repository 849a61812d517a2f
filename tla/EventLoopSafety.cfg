\* A sent event and a function run by Exec around two registrations.
SPECIFICATION Spec
CONSTANTS
    e1 = e1
    n1 = n1
    s1 = s1
    Callers = {}
    LoopCallers = {}
    Deadlined = {}
    Senders = {s1}
    Execs = {e1}
    Names = {n1}
    Refresh = Refresh
    Exit = Exit
    MaxChanges = 2
INVARIANTS
    TypeOK
    OneWorkerInBatch
    Conservation
    FreshDispatch
    OvertakenOnlyByRefresh
    DrainedOnExit
CHECK_DEADLOCK FALSE
