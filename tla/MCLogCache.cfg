SPECIFICATION Spec
CONSTANTS
    Classes = {"alert", "info"}
    Invalid = "invalid"
    MaxCached = 1
    CheckMemCycle = 1
    MaxLines = 3
    Queries <- MCQueries
    MaxLogged = 4
    MaxTime = 3
    MaxRotations = 2
INVARIANTS
    CounterExact
    MemoryBounded
    AnswerIsLog
CHECK_DEADLOCK FALSE
