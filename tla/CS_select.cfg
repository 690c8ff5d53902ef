CONSTANTS
    Coins <- MCCoins
    MaxRequired = 1
    MaxOptional = 3
    Rates = {1, 2}
    Targets = {1, 4, 5}
    FeeUnit = 2
    ChangeWeight = 1
    DrainWeight = 1
    Dust = 2
    MaxTries = 6
SPECIFICATION Spec
INVARIANTS
    SearchAccounts
    ForwardInBounds
    SearchIsOptimal
PROPERTIES
    KeepsPromise
CHECK_DEADLOCK FALSE
