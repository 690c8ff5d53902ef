CONSTANTS
    Keys <- MCKeys
    Parties = {1, 2}
    MaxTip = 4
SPECIFICATION Spec
INVARIANT NeverPanics
CHECK_DEADLOCK FALSE
