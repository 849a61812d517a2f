SPECIFICATION FairSpec
CONSTANTS
    Addrs = {a, b}
    Fields = {f}
    Values = {v}
    MaxRev = 4
INVARIANTS
    TypeOK
    BalancerView
PROPERTY
    CatchesUp
CHECK_DEADLOCK FALSE
