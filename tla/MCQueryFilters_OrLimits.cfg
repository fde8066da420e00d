SPECIFICATION Spec
CONSTANTS
    Lower <- MCLower
    Matching <- MCMatching
    Hidden <- MCHidden
    BitWidth = 3
    MaxTime = 3
    Rows <- MCRows
    Value <- MCValue
    Kind <- MCKind
    Samples <- MCSamples
    Headers <- MCHeaders
    MaxHeaders = 4
INVARIANTS
    LimitsSound
CHECK_DEADLOCK FALSE
