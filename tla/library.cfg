SPECIFICATION ShimFairSpec
CONSTANTS
    a = a
    b = b
    r = r
    s = s
    u = u
    v = v
    None = None
    Task = {a, b, r, s}
    Ref = {r, s}
    User = {u, v}
    Overlap = FALSE
    MaxOpens = 5
CHECK_DEADLOCK FALSE
INVARIANTS
    TypeOK
    UpForClients
    OneBusOrNone
    OpenKeepsBase
    ShimServed
    OneReference
PROPERTIES
    ImplementsSharedBus
    Returns
