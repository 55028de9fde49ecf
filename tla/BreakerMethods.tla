---------------------------- MODULE BreakerMethods ----------------------------
(***************************************************************************)
(* CircuitBreaker in one process when commands are lost: what a method of  *)
(* the breaker that a crash or a Redis error cuts short has done to the    *)
(* keys.  A history variable keeps the keys as the method under way found  *)
(* them; when the method is left, whichever way, it may have changed them  *)
(* only as AtomicBreaker says of a whole or a torn method, which is what   *)
(* Pipeline composes.                                                      *)
(***************************************************************************)
EXTENDS CircuitBreaker

VARIABLE found   \* history: the keys the method under way found, as time passes

Keys == [state |-> state, failures |-> failures, opensAt |-> opensAt]

\* A method is under way from its GET of the state, if more commands are to follow:
\* can_request of an OPEN circuit, record_success of one that is not CLOSED, record_failure.
InProbe == {"deadline", "half_open"}
InClose == {"close", "clear_failures", "clear_deadline"}
InCount == {"incr", "set_deadline", "open"}
InMethod == \E q \in Requests : pc[q] \in InProbe \cup InClose \cup InCount

MethodInit == Init /\ found = Keys

\* A deadline that a method found runs on while the method does.
MethodTick ==
    /\ Tick
    /\ found' = [found EXCEPT !.opensAt = IF @ > 0 THEN @ - 1 ELSE @]

MethodStep == Step /\ found' = IF InMethod' THEN found ELSE Keys'

MethodNext == MethodTick \/ MethodStep

methodVars == <<vars, found>>

MethodSpec == MethodInit /\ [][MethodNext]_methodVars

-----------------------------------------------------------------------------
\* Properties.

Method == INSTANCE AtomicBreaker WITH
    state <- found.state, failures <- found.failures,
    opensAt <- found.opensAt, forwarded <- {}

Leaves(q, method) == pc[q] \in method /\ pc'[q] \notin method

\* can_request lets a request through as the probe, or it leaves no trace.
ProbeLeaves(q) ==
    IF pc'[q] = "awaiting" THEN Method!Pass ELSE UNCHANGED found

\* record_success, if not "CLOSED": whole once it comes to the response.
CloseLeaves(q) ==
    IF pc'[q] = "respond" THEN Method!Succeed
    ELSE Method!TornSucceed \/ UNCHANGED found

\* record_failure: whole with the INCR that does not trip or with the SET OPEN.
\* The deadline counts from its SET, a little before the method is over.
CountLeaves(q) ==
    IF Incr(q) \/ Open(q)
       THEN Method!FailBy(Recovery - sinceTrip')
       ELSE Method!TornFailBy(Recovery - sinceTrip') \/ UNCHANGED found

LeavesWell(q) ==
    /\ Leaves(q, InProbe) => ProbeLeaves(q)
    /\ Leaves(q, InClose) => CloseLeaves(q)
    /\ Leaves(q, InCount) => CountLeaves(q)

LeavesAny(q) == Leaves(q, InProbe) \/ Leaves(q, InClose) \/ Leaves(q, InCount)

OnlyMethodsChange ==
    UNCHANGED found \/ Method!Tick \/ \E q \in Requests : LeavesAny(q)

\* "State mutations are always consistent" (class comment): wherever a method is
\* cut short, what it leaves in Redis is what it found, what it promises, or one of
\* the two torn outcomes; and only a method or the time changes the keys at all.
MethodsLeave ==
    [][(\A q \in Requests : LeavesWell(q)) /\ OnlyMethodsChange]_methodVars

-----------------------------------------------------------------------------
\* Why: how far a method has got says how the keys differ from what it found.

NoMethodFound == ~InMethod => found = Keys

ProbeFound(q) ==
    /\ pc[q] \in InProbe => found = Keys /\ state = "OPEN"
    /\ pc[q] = "half_open" => Elapsed

CloseFound(q) ==
    /\ pc[q] = "close" => found = Keys
    /\ pc[q] \in InClose => found.state # "CLOSED"
    /\ pc[q] = "clear_failures" =>
          state = "CLOSED" /\ failures = found.failures /\ opensAt = found.opensAt
    /\ pc[q] = "clear_deadline" =>
          state = "CLOSED" /\ failures = 0 /\ opensAt = found.opensAt

CountFound(q) ==
    /\ pc[q] = "incr" => found = Keys
    /\ pc[q] \in {"set_deadline", "open"} =>
          /\ state = found.state
          /\ failures = CountUp(found.failures)
          /\ Trips(found.state, failures)
    /\ pc[q] = "set_deadline" => opensAt = found.opensAt

FoundIInv ==
    /\ IInv
    /\ found \in [state : States, failures : 0..FailureCap,
                  opensAt : 0..Recovery \cup {NoDeadline}]
    /\ NoMethodFound
    /\ \A q \in Requests : ProbeFound(q) /\ CloseFound(q) /\ CountFound(q)
=============================================================================
