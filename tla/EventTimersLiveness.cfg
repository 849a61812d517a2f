\* Two timers, three ticks, one refresh: every deadline is met, also those an
\* interval is put back with, those handled late, and behind a refresh.
SPECIFICATION MCFairSpec
CONSTANTS
    MaxTimers = 2
    Durations = {0, 1}
    MaxTime = 3
    MaxRefreshes = 1
    Refresh = Refresh
    Fire = Fire
PROPERTIES
    DeadlinesMet
    HandlerReturns
CHECK_DEADLOCK FALSE
