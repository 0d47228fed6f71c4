SPECIFICATION Spec
CONSTANTS
    Dev <- TwoDev
    Line <- OneLine
    NSlots = 2
    MsixSize <- TwoMsix
    MsiMax <- TwoMsi
    Maskable <- TwoMaskable
    DevLine <- TwoNoLine
    Request <- OneEach
    Masker = {"t"}
    TaskCalls = {}
    FlrDev = {}
    Raisers <- RaiseAll
    NoDev = "nobody"
    NoLine = "no_line"
INVARIANTS
    NoStaleDispatch
