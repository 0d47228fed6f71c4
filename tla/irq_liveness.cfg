SPECIFICATION FairSpec
CONSTANTS
    Dev <- MDev
    Line <- OneLine
    NSlots = 2
    MsixSize <- MMsix
    MsiMax <- MMsi
    Maskable <- MMask
    DevLine <- MLine
    Request <- MTwoOrIntx
    Masker = {"t"}
    TaskCalls = {"intx"}
    FlrDev = {}
    Raisers <- MRaise
    NoDev = "nobody"
    NoLine = "no_line"
PROPERTIES
    Served
