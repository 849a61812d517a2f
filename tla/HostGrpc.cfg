SPECIFICATION SystemSpec
CONSTANTS
    Modules = {g, o}
    Grpc = g
    ErrorCap = 1
    MaxSignals = 1
    Kinds = {{"server", "closer"}}
    MaxCalls = 1
INVARIANTS
    SignalStopsServer
PROPERTIES
    ImplementsHost
CHECK_DEADLOCK FALSE
