\* A failed module, or a signal and a late module.
SPECIFICATION Spec
CONSTANTS
    Modules = {m1, m2}
    ErrorCap = 1
    MaxSignals = 1
INVARIANT
    WaitsForModules
CHECK_DEADLOCK FALSE
