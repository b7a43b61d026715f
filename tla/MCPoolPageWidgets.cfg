CONSTANTS
    PoolIds <- MCPoolIds
    GeckoIds <- MCGeckoIds
    GeckoOf <- MCGeckoOf
    Terms <- MCTerms
    Matches <- MCMatches
    Fields <- MCFields
    Wallets <- MCWallets
    Blank = Blank
    Empty = Empty
    None = None
    NoEffect = NoEffect
    MaxEpochs = 6
    MaxLoads = 2
    MaxPending = 1

SPECIFICATION Spec

INVARIANTS
    TypeOK
    NoPriceWithoutId
