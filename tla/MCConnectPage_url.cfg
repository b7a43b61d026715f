CONSTANTS
    PoolIds <- MCPoolIds
    Rank <- MCRank
    PortMaps <- MCPortMaps
    Requested <- MCRequested
    None = None
    NoMin = NoMin
    MaxSafeInteger = 9007199

SPECIFICATION Spec

INVARIANTS
    ManualPortSticky
