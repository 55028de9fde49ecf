SPECIFICATION Spec
CONSTANTS
    p1 = p1
    p2 = p2
    q1 = q1
    Requests = {q1, q2}
    Procs = {p1}
    Home <- OneHome
    Threshold = 2
    FailureCap = 3
    Recovery = 2
    Faults = {}
INVARIANT SingleProbe
