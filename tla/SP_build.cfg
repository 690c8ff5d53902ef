CONSTANTS
    BaseWeight = 1
    InWeight = 1
    OutWeight = 1
    CountLimit = 3
    CountGrowth = 1
    FeeUnit = 2
    Dust = 2
    Maturity = 4
    InitialTip = 3
    MaxTip = 4
    MaxLocked = 1
SPECIFICATION Spec
INVARIANTS
    NoDoubleSpend
    BumpReplaces
    FeeAsAsked
    LocksGranted
    InputsSignable
    AutomaticAllowed
    DraftSpendsOnce
    ReplacementConflicts
    ReplacementPays
    MinableNext
