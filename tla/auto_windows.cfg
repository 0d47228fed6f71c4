CONSTANTS
    Topologies <- MCSwitch
    Regions <- MCPiOnly
    Wrap = 64
    Granule <- MCGranule
    MinLower = 2
    Positions <- MCPositions
    FirstPos = 1
    AllOnes = 255
    Ttl = 2
SPECIFICATION Spec
INVARIANT WindowsFit
CHECK_DEADLOCK FALSE
