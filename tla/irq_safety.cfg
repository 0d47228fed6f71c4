SPECIFICATION Spec
CONSTANTS
    Dev <- TwoDev
    Line <- OneLine
    NSlots = 2
    MsixSize <- TwoMsix
    MsiMax <- TwoMsi
    Maskable <- TwoMaskable
    DevLine <- TwoNoLine
    Request <- OneOrBlock
    Masker = {"t"}
    TaskCalls = {"mask", "unmask"}
    FlrDev = {}
    Raisers <- RaiseAll
    NoDev = "nobody"
    NoLine = "no_line"
INVARIANTS
    CallConsistent
    TypeOK
    ServersOnHeldSlots
    OpenOnlyBound
    InflightHeld
    NoLostWork
