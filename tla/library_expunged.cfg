SPECIFICATION Spec
CONSTANTS
    a = a
    b = b
    Task = {a, b}
    MaxOpens = 2
CHECK_DEADLOCK FALSE
INVARIANT WaiterKeepsBase
