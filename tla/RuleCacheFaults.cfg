SPECIFICATION FairSpec
CONSTANTS
    Rules = {r1}
    Gateways = {g1, g2}
    Editors = {e1, e2}
    CacheTTL = 2
    MaxStall = 1
    Faults = {"redis", "crash"}
INVARIANTS
    CacheIsRecent
    IInv
PROPERTIES
    DeletedStaysDeleted
    ChangesTakeEffect
