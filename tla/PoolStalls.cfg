SPECIFICATION FairSpec
CONSTANTS
    Gateways = {g1, g2}
    Pages = {d1}
    Threads = {t1}
    Writer = Writer
    NoOne = NoOne
    Size = 4
    MaxLosses = 2
INVARIANTS
    IInv
    NoLeak
    MissesNeedLosses
    TimeoutsNeedCrowd
PROPERTY EveryoneEnds
