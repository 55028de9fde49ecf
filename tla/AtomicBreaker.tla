----------------------------- MODULE AtomicBreaker -----------------------------
(***************************************************************************)
(* What CircuitBreakerBase promises: three methods that each take one      *)
(* step, and the time.  CircuitBreaker shows that in one process without   *)
(* lost commands the keys in Redis behave like this; Pipeline composes it  *)
(* with the steps of a request.                                            *)
(***************************************************************************)
EXTENDS Integers

CONSTANTS
    Requests,    \* the requests to one upstream
    Threshold,   \* CIRCUIT_BREAKER_FAILURE_THRESHOLD
    FailureCap,  \* where the model stops counting failures
    Recovery     \* CIRCUIT_BREAKER_RECOVERY_SECONDS, in ticks

VARIABLES
    state,      \* CLOSED, OPEN or HALF_OPEN
    failures,   \* failures recorded since the circuit was last closed
    opensAt,    \* ticks to the end of OPEN, or NoDeadline
    forwarded   \* the requests let through and not yet done with the breaker

keys == <<state, failures, opensAt>>
vars == <<state, failures, opensAt, forwarded>>

NoDeadline == -1

InitKeys == state = "CLOSED" /\ failures = 0 /\ opensAt = NoDeadline

Init == InitKeys /\ forwarded = {}

Tick ==
    /\ opensAt > 0
    /\ opensAt' = opensAt - 1
    /\ UNCHANGED <<state, failures>>

-----------------------------------------------------------------------------
\* What the methods do to the keys.

Passable == state # "OPEN" \/ opensAt <= 0

\* can_request is True; the first request after the deadline is the probe.
Pass ==
    /\ Passable
    /\ state' = IF state = "OPEN" THEN "HALF_OPEN" ELSE state
    /\ UNCHANGED <<failures, opensAt>>

\* can_request is False.
Refuse == ~Passable /\ UNCHANGED keys

Succeed ==
    IF state = "CLOSED"
       THEN UNCHANGED keys
       ELSE state' = "CLOSED" /\ failures' = 0 /\ opensAt' = NoDeadline

CountUp(n) == IF n < FailureCap THEN n + 1 ELSE n

\* Mutated form of Trips: one failure too early.
TripsEarly(count) == state = "HALF_OPEN" \/ count >= Threshold - 1

Trips(count) == state = "HALF_OPEN" \/ count >= Threshold

\* A failure that is the last one trips the circuit until the deadline.
FailBy(deadline) ==
    /\ failures' = CountUp(failures)
    /\ IF Trips(failures')
          THEN state' = "OPEN" /\ opensAt' = deadline
          ELSE UNCHANGED <<state, opensAt>>

Fail == FailBy(Recovery)

\* What is left when Redis fails in the middle of record_success ...
TornSucceed ==
    /\ state # "CLOSED"
    /\ state' = "CLOSED"
    /\ failures' \in {failures, 0}
    /\ UNCHANGED opensAt

\* ... or of record_failure.
TornFailBy(deadline) ==
    /\ failures' = CountUp(failures)
    /\ opensAt' \in {opensAt} \cup IF Trips(failures') THEN {deadline} ELSE {}
    /\ UNCHANGED state

TornFail == TornFailBy(Recovery)

-----------------------------------------------------------------------------
\* Who calls them when.

CanRequest(q) ==
    /\ q \notin forwarded
    /\ Pass
    /\ forwarded' = forwarded \cup {q}

RecordSuccess(q) == q \in forwarded /\ Succeed /\ UNCHANGED forwarded

RecordFailure(q) == q \in forwarded /\ Fail /\ forwarded' = forwarded \ {q}

\* The response is sent.
Leave(q) == q \in forwarded /\ forwarded' = forwarded \ {q} /\ UNCHANGED keys

Next ==
    \/ Tick /\ UNCHANGED forwarded
    \/ \E q \in Requests :
          CanRequest(q) \/ RecordSuccess(q) \/ RecordFailure(q) \/ Leave(q)

Spec == Init /\ [][Next]_vars
=============================================================================
