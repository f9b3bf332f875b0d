\* Two writing threads, two connections, another process, and inventories.
SPECIFICATION FairSpec
CONSTANTS
    p1 = p1
    d1 = d1
    d2 = d2
    NoRow      = NoRow
    NoHook     = NoHook
    NoSnapshot = NoSnapshot
    Pks      = {p1}
    Defs     = {d1, d2}
    Writers  = {w1, w2}
    Hooks    = {h1, h2}
    Table    <- OneRow
    Requests <- WriteRequests
INVARIANTS
    TypeOK
    ClearRowsAreRight
PROPERTIES
    SettledStays
    ToldConverges
CHECK_DEADLOCK FALSE
