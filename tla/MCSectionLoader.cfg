CONSTANTS
    PoolIds <- MCPoolIds
    None = None
    NoData = NoData
    MaxEpochs = 7

SPECIFICATION Spec

INVARIANTS
    IInv

PROPERTIES
    ImplementsView
    ShownCatchUp
