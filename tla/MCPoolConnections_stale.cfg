CONSTANTS
    Ports <- MCPorts
    Names <- MCNames
    MidTierNames <- MCMidTierNames
    MidNames <- MCMidNames
    PortName <- MCPortName
    PortDifficulty <- MCPortDifficulty
    PortVarDiffMin <- MCPortVarDiffMin
    Latencies <- MCOneLatency
    MaxProbes = 2
    FallbackRow = FallbackRow
    Host = Host
    NoId = NoId
    Null = Null
    Undefined = Undefined

SPECIFICATION Spec

INVARIANT LatestProbeWins
