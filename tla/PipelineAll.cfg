SPECIFICATION FairSpec
CONSTANTS
    Requests = {q1, q2, q3}
    Threshold = 2
    FailureCap = 2
    Recovery = 1
    Faults = {"redis", "database", "disconnect", "response", "crash"}
CHECK_DEADLOCK FALSE
INVARIANTS
    IInv
    OneEntryPerAnswer
    RejectedNeverSent
    ReportsMatchAnswers
    OpenIsInTheLog
PROPERTIES
    SentIsLogged
