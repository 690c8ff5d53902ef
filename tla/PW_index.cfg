CONSTANTS
    g = g
    a1 = a1
    a2 = a2
    b1 = b1
    t1 = t1
    t2 = t2
    d1 = d1
    d2 = d2
    mainnet = mainnet
    NoHash = NoHash
    None = None
    Unset = Unset
    MaxHeight = 2
    Hashes = {g, a1, a2, b1}
    HeightOf <- MCHeightOf
    Genesis = g
    Parent <- MCParent
    Txs = {t1, t2}
    TxRank <- IndexRank
    Pays <- IndexPays
    Spends <- IndexSpends
    BlockTxs <- IndexBlockTxs
    MaxIndex = 1
    Lookahead = 1
    MaxTime = 1
    Descriptors = {d1, d2}
    Networks = {mainnet}
    Updates <- IndexUpdates
    Blocks = {a1}
    Batches <- IndexBatches
    Evictions = {}
    Lockable = {}
    Floating <- IndexFloating
    Markable <- IndexMarkable
    CreateParams <- IndexCreateParams
    LoadParams <- MCLoadParams
SPECIFICATION Spec
INVARIANTS
    TypeOK
    ReloadKeepsIndexed
CHECK_DEADLOCK FALSE
