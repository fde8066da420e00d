SPECIFICATION Spec
CONSTANTS
    Byte <- MCByte
    Newline <- MCNewline
    Space <- MCSpace
    BufSize = 3
    QueryTimeout = 2
    IdleTimeout = 3
    MaxBytes = 5
INVARIANTS
    WindowIsStream
    IdleConnectionEnds
PROPERTIES
    TerminationSeen
    FramingSpec
