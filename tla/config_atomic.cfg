SPECIFICATION Spec
CONSTANTS
    Fn = {"root", "a", "b"}
    RootPort = {"root"}
    Task = {"s", "t"}
    Kinds <- Serial
    LinkMoves = TRUE
    NoFn = "no_fn"
    NoTask = "nobody"
CHECK_DEADLOCK FALSE
INVARIANTS
    LockedOnTarget
PROPERTIES
    ImplementsConfigSpace
    IntxKeepsOthers
