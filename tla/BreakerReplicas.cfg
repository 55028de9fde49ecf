SPECIFICATION FairSpec
CONSTANTS
    p1 = p1
    p2 = p2
    q1 = q1
    Requests = {q1, q2}
    Procs = {p1, p2}
    Home <- TwoHomes
    Threshold = 2
    FailureCap = 2
    Recovery = 1
    Faults = {"redis", "crash"}
PROPERTY Recovers
