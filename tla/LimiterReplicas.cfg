SPECIFICATION Spec
CONSTANTS
    short = short
    long = long
    p1 = p1
    p2 = p2
    Procs = {p1, p2}
    Rules = {short}
    Limit <- OneRequest
    Window <- RuleWindow
    Second = 4
    MaxStall = 4
    CoarseClock = FALSE
    Failures = FALSE
    MaxClock = 13
CONSTRAINT ClockBound
INVARIANTS
    WindowBound
    ReplicasIInv
PROPERTY RetryAfterHonest
