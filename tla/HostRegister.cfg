SPECIFICATION FairSpec
CONSTANTS
    m1 = m1
    m2 = m2
    x = x
    y = y
    r = r
    s = s
    a = a
    b = b
    c = c
    ModuleNames = {m1, m2}
    ForkNames = {x, y}
    RoleNames = {r, s}
    Values = {a, b, c}
    Inputs <- MCInputs
    MaxProcesses = 2
INVARIANTS
    ServedAsConfigured
    BuildsAllOrNothing
    FoundWhileServing
PROPERTY
    AddressesLeave
CHECK_DEADLOCK FALSE
