CONSTANTS
    Topologies <- MCTopologies
    Regions <- MachineRegions
    Boards <- MCBoards
    Wrap = 64
    PhysWrap = 4096
    DmaEnd = 32
    Megabyte = 2
    Banks = 4
    OutWins = 4
    Granule <- MCGranule
    MinLower = 2
    Positions <- MCPositions
    FirstPos = 1
    AllOnes = 255
    Ttl = 2
    Nobody = "nobody"
    MaxReserved = 1
    PCI_CAP_ID_MAX = 16
    EaFirst = 1
    EaSpan = 16
SPECIFICATION BoardsSpec
INVARIANTS HwTypeOK OneRoute BarsInRegion BarsSeparate BarsReached LinksTrained
    CpuReaches DmaReaches RoundTrip EveryFunctionListed InterruptRouted
    HoldersKept SearchesComplete BarsReported ListingComplete CapabilitiesPrinted
CHECK_DEADLOCK FALSE
PROPERTIES QuietUnlessServed BringUpEnds
