SPECIFICATION MethodSpec
CONSTANTS
    p1 = p1
    Requests = {q1, q2, q3}
    Procs = {p1}
    Home <- OneHome
    Threshold = 2
    FailureCap = 3
    Recovery = 2
    Faults = {"disconnect", "response", "redis", "crash"}
INVARIANTS
    OpenHasDeadline
    FoundIInv
    OpensWithCause
PROPERTIES
    HalfOpenWaits
    MethodsLeave
