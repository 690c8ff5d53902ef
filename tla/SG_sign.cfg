CONSTANTS
    Keys <- MCKeys
    Parties = {1, 2}
    MaxTip = 4
SPECIFICATION Spec
INVARIANTS
    PoliciesMatchPaths
    ContributionHonest
    SatisfiedIsFinalizable
PROPERTIES
    SignaturesKept
    TogetherFinal
CHECK_DEADLOCK FALSE
