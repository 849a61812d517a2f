\* Two timers, one refresh.
SPECIFICATION Spec
CONSTANTS
    MaxTimers = 2
    Durations = {0, 1}
    MaxTime = 2
    MaxRefreshes = 1
    Refresh = Refresh
    Fire = Fire
INVARIANTS
    TypeOK
    TopIsArmed
    FireEventsBounded
    RunsOnSchedule
    CancelHolds
    SameDeadlineOrder
CHECK_DEADLOCK FALSE
