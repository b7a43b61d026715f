CONSTANTS
    PoolIds <- MCPoolIds
    NoPool = NoPool
    None = None
    NoData = NoData
    MaxEpochs = 3

SPECIFICATION Spec

INVARIANTS
    TypeOK
    DetailsForSelected

PROPERTIES
    LoadingSettles
    ImplementsView
