SPECIFICATION TablesFairSpec
CONSTANTS
    Clients = {c1, c2}
    Ids = {1, 2}
    UnsignedSpan = 4
    MaxEntries = 2
    Queries <- Ordered
INVARIANTS
    LockedAsOften
    RowsAlive
    MirrorsCore
PROPERTIES
    CoreGoesOn
