CONSTANTS
    g = g
    a1 = a1
    a2 = a2
    b1 = b1
    t1 = t1
    t2 = t2
    d1 = d1
    d2 = d2
    mainnet = mainnet
    NoHash = NoHash
    None = None
    Unset = Unset
    MaxHeight = 2
    Hashes = {g, a1, a2, b1}
    HeightOf <- MCHeightOf
    Genesis = g
    Parent <- MCParent
    Txs = {t1}
    TxRank <- ChainRank
    Pays <- ChainPays
    Spends <- ChainSpends
    BlockTxs <- ChainBlockTxs
    MaxIndex = 0
    Lookahead = 1
    MaxTime = 2
    Descriptors = {d1, d2}
    Networks = {mainnet}
    Updates <- ChainUpdates
    Blocks = {a1, b1}
    Batches <- ChainBatches
    Evictions <- ChainEvictions
    Lockable <- ChainLockable
    Floating = {}
    Markable = {}
    CreateParams <- ChainCreateParams
    LoadParams <- MCLoadParams
SPECIFICATION Spec
INVARIANTS
    StageCompletesDb
    CanonicalViewFresh
    DbLoadable
PROPERTIES
    DbOnlyAdvances
CHECK_DEADLOCK FALSE
