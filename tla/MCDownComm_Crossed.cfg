SPECIFICATION TablesSpec
CONSTANTS
    Clients = {c1, c2}
    Ids = {1}
    UnsignedSpan = 4
    MaxEntries = 2
    Queries <- Crossed
INVARIANTS
    NoDeadlock
