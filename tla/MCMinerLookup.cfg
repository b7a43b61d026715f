CONSTANTS
    PoolIds <- MCPoolIds
    PoolLists <- MCPoolLists
    Wallets <- MCWallets
    Blank = Blank
    Empty = Empty
    None = None
    UrlPool = "ltc"
    UrlWallet = "w1"

SPECIFICATION Spec

INVARIANTS
    OneLookup
    ResultOfLastLookup
    IInv
