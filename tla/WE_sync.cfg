CONSTANTS
    g = g
    a1 = a1
    a2 = a2
    b1 = b1
    b2 = b2
    pay = pay
    rival = rival
    child = child
    d1 = d1
    d2 = d2
    mainnet = mainnet
    NoHash = NoHash
    None = None
    Unset = Unset
    MaxHeight = 2
    Hashes = {g, a1, a2, b1, b2}
    HeightOf <- MCHeightOf
    Genesis = g
    Parent <- MCParent
    Txs = {pay, rival, child}
    TxRank <- MCRank
    Pays <- MCPays
    Spends <- MCSpends
    BlockTxs <- MCBlockTxs
    MaxIndex = 1
    Lookahead = 1
    MaxTime = 2
    Descriptors = {d1, d2}
    Networks = {mainnet}
    Params <- MCParams
    Updates <- MCUpdates
    Blocks = {a1, a2, b1, b2}
    Batches <- MCBatches
    Evictions <- MCEvictions
    Lockable = {}
    Floating = {}
    Markable = {}
SPECIFICATION Spec
VIEW View
INVARIANTS
    ListenerInSync
PROPERTIES
    ConfirmedStays
    ScansComplete
