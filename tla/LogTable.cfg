SPECIFICATION Spec
CONSTANTS
    Rows = {r1, r2, r3}
    Gateways = {g1}
    Window = 1
    Retention = 2
    Interval = 2
    MaxStall = 1
    Faults = {"restart", "database", "misfire"}
SYMMETRY Alike
INVARIANTS
    IInv
    PageAddsUp
    ReportsAddUp
    PurgedInTime
PROPERTY KeptForRetention
