SPECIFICATION Spec
CONSTANTS
    Threads = {t1, t2, t3, t4}
    CreateMayFail = TRUE
    UnlimitedWaits = TRUE
INVARIANTS
    NoThreadForgotten
    NoThreadAfterShutdown
PROPERTIES
    JoiningEnds
CHECK_DEADLOCK FALSE
