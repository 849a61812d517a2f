\* Three calls for plain requests and for some whose keys meet.
SPECIFICATION FairSpec
CONSTANTS
    c1 = c1
    c2 = c2
    c3 = c3
    a = a
    b = b
    svc = svc
    Calls = {c1, c2, c3}
    Characters <- MCCharacters
    Metadata <- MCMetadata
    Requests <- MCRequests
INVARIANTS
    OneConnPerKey
    NoSharing
PROPERTIES
    CallsReturn
CHECK_DEADLOCK FALSE
