SPECIFICATION Spec
CONSTANTS
    Keys <- MCKeys
    MaxRows = 5
    IntSpan = 64
    Pages <- MCPages
    Formats <- AllFormats
INVARIANTS
    AnswerIsPage
    TotalCount
CHECK_DEADLOCK FALSE
