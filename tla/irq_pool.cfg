SPECIFICATION Spec
CONSTANTS
    Dev <- TwoDev
    Line <- OneLine
    NSlots = 4
    MsixSize <- PoolMsix
    MsiMax <- PoolMsi
    Maskable <- TwoMaskOpt
    DevLine <- TwoLine
    Request <- PoolReq
    Masker = {"t"}
    TaskCalls = {}
    FlrDev = {"x"}
    Raisers <- NoRaise
    NoDev = "nobody"
    NoLine = "no_line"
INVARIANTS
    PoolExact
    MsiBlocks
    IntxRegistered
PROPERTIES
    ImplementsPool
