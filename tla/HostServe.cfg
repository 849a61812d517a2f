SPECIFICATION FairSpec
CONSTANTS
    Modules = {m1, m2, m3}
    ErrorCap = 1
    MaxSignals = 2
INVARIANTS
    TypeOK
    SignalWaitsForPresent
    CrashNeedsLateModule
PROPERTIES
    ServeEnds
    ModulesEnd
CHECK_DEADLOCK FALSE
