SPECIFICATION Spec
CONSTANTS
    Fn = {"a"}
    RootPort = {}
    Task = {"s", "t"}
    Kinds <- IntxAndMaster
    LinkMoves = FALSE
    NoFn = "no_fn"
    NoTask = "nobody"
PROPERTIES
    IntxKeepsOthers
