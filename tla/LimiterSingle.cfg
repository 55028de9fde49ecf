SPECIFICATION Spec
CONSTANTS
    short = short
    long = long
    p1 = p1
    p2 = p2
    Procs = {p1}
    Rules = {short, long}
    Limit <- RuleLimit
    Window <- RuleWindow
    Second = 3
    MaxStall = 3
    CoarseClock = FALSE
    Failures = FALSE
    MaxClock = 12
CONSTRAINT ClockBound
INVARIANTS
    WindowBound
    AdmittedRemembered
    IInv
PROPERTIES
    ImplementsSlidingWindow
