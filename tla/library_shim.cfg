SPECIFICATION ShimSpec
CONSTANTS
    a = a
    r = r
    s = s
    u = u
    v = v
    None = None
    Task = {a, r, s}
    Ref = {r, s}
    User = {u, v}
    Overlap = TRUE
    MaxOpens = 3
CHECK_DEADLOCK FALSE
INVARIANT ShimServed
