SPECIFICATION Spec
CONSTANTS
    short = short
    long = long
    p1 = p1
    p2 = p2
    Procs = {p1, p2}
    Rules = {short}
    Limit <- RuleLimit
    Window <- RuleWindow
    Second = 2
    MaxStall = 2
    CoarseClock = TRUE
    Failures = TRUE
    MaxClock = 7
CONSTRAINT ClockBound
INVARIANTS
    RacesIInv
PROPERTIES
    RejectsOnlyWhenFull
