CONSTANTS
    g = g
    t1 = t1
    d1 = d1
    d2 = d2
    mainnet = mainnet
    NoHash = NoHash
    None = None
    Unset = Unset
    MaxHeight = 0
    Hashes = {g}
    HeightOf <- MCHeightOf
    Genesis = g
    Parent <- MCParent
    Txs = {t1}
    TxRank <- MCRank
    Pays <- MCPays
    Spends <- MCSpends
    BlockTxs <- MCBlockTxs
    MaxIndex = 2
    Lookahead = 1
    MaxTime = 1
    Descriptors = {d1, d2}
    Networks = {mainnet}
    Updates = {}
    Blocks = {}
    Batches <- MCBatches
    Evictions = {}
    Lockable = {}
    Floating = {}
    Markable = {}
    CreateParams <- MCCreateParams
    LoadParams <- MCLoadParams
SPECIFICATION ReuseSpec
INVARIANTS
    RevealedOnce
    ChangeOncePerSession
