CONSTANTS
    PoolIds <- MCPoolIds
    Rank <- MCRank
    PortMaps <- MCPortMaps
    Requested = None
    None = None
    NoMin = NoMin
    MaxSafeInteger = 9007199

SPECIFICATION Spec

INVARIANTS
    SettledSelection
    ManualPortSticky
