SPECIFICATION Spec
CONSTANTS
    Fn = {"a", "b"}
    RootPort = {}
    Task = {"s", "t"}
    Kinds <- ReadAndSearch
    LinkMoves = FALSE
    NoFn = "no_fn"
    NoTask = "nobody"
INVARIANTS
    LockedOnTarget
