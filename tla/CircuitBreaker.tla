---------------------------- MODULE CircuitBreaker ----------------------------
(***************************************************************************)
(* RedisCircuitBreaker driven by the gateway's pipeline, one action per    *)
(* Redis command, for one upstream.                                        *)
(*                                                                         *)
(* A request runs on the event loop of its process.  It holds the loop     *)
(* from its arrival to the await in ProxyStep and again from the answer to *)
(* the end of the pipeline; requests of one process interleave only at     *)
(* that await, requests of different processes at every command.           *)
(***************************************************************************)
EXTENDS Integers, FiniteSets

CONSTANTS
    Requests,    \* slots for requests; a slot is reused by later requests
    Procs,       \* gateway processes that share the Redis server
    Home,        \* Home[q]: the process that serves slot q
    Threshold,   \* CIRCUIT_BREAKER_FAILURE_THRESHOLD
    FailureCap,  \* where the model stops counting failures
    Recovery,    \* CIRCUIT_BREAKER_RECOVERY_SECONDS, in ticks
    Faults       \* which of FaultKinds may happen

FaultKinds == {"disconnect", "response", "redis", "crash"}

ASSUME ConstantsAssumption ==
    /\ IsFiniteSet(Requests)
    /\ Home \in [Requests -> Procs]
    /\ Threshold \in Nat \ {0}
    /\ FailureCap \in Nat /\ FailureCap >= Threshold
    /\ Recovery \in Nat \ {0}
    /\ Faults \subseteq FaultKinds

VARIABLES
    state,      \* rg:cb:<up>:state; a key that was never set reads CLOSED
    failures,   \* rg:cb:<up>:failures; absent reads 0
    opensAt,    \* rg:cb:<up>:opens_at, as the ticks left to it, or NoDeadline
    up,         \* is the upstream answering?
    pc,         \* pc[q]: the next command of the request in slot q
    seen,       \* seen[q]: the local "state" of the method q is executing
    sentUp,     \* sentUp[q]: was the upstream answering when q was sent?
    sinceTrip,  \* history: ticks since opens_at was last set, up to Recovery
    streak,     \* history: failures recorded since the last recorded success
    everDown,   \* history: has the upstream ever failed?
    strays      \* history: requests that failed before it ever did, up to Threshold

breaker == <<state, failures, opensAt>>
history == <<sinceTrip, streak, everDown, strays>>
vars == <<state, failures, opensAt, up, pc, seen, sentUp,
          sinceTrip, streak, everDown, strays>>

States == {"CLOSED", "OPEN", "HALF_OPEN"}
NoDeadline == -1

\* Where a request stands: in can_request, in record_success, in
\* record_failure, or (respond) between record_success and the response.
InCanRequest == {"can_request", "deadline", "half_open"}
InSuccess == {"success", "close", "clear_failures", "clear_deadline"}
InFailure == {"failure", "incr", "set_deadline", "open"}
OnLoop == InCanRequest \cup InSuccess \cup InFailure \cup {"respond"}

TypeOK ==
    /\ state \in States
    /\ failures \in 0..FailureCap
    /\ opensAt \in 0..Recovery \cup {NoDeadline}
    /\ up \in BOOLEAN
    /\ pc \in [Requests -> OnLoop \cup {"idle", "awaiting"}]
    /\ seen \in [Requests -> States]
    /\ sentUp \in [Requests -> BOOLEAN]
    /\ sinceTrip \in 0..Recovery
    /\ streak \in 0..FailureCap
    /\ everDown \in BOOLEAN
    /\ strays \in 0..Threshold

Init ==
    /\ state = "CLOSED"
    /\ failures = 0
    /\ opensAt = NoDeadline
    /\ up \in BOOLEAN
    /\ pc = [q \in Requests |-> "idle"]
    /\ seen = [q \in Requests |-> "CLOSED"]
    /\ sentUp = [q \in Requests |-> FALSE]
    /\ sinceTrip = 0
    /\ streak = 0
    /\ everDown = ~up
    /\ strays = 0

-----------------------------------------------------------------------------
\* The world around the breaker.

LoopFree(p) == \A q \in Requests : Home[q] = p => pc[q] \notin OnLoop

Goto(q, label) == pc' = [pc EXCEPT ![q] = label]

CountUp(n) == IF n < FailureCap THEN n + 1 ELSE n

\* The upstream may be healthy, but q has failed.
Strays ==
    strays' = IF everDown \/ strays = Threshold THEN strays ELSE strays + 1

Tick ==
    /\ opensAt > 0 \/ sinceTrip < Recovery
    /\ opensAt' = IF opensAt > 0 THEN opensAt - 1 ELSE opensAt
    /\ sinceTrip' = IF sinceTrip < Recovery THEN sinceTrip + 1 ELSE sinceTrip
    /\ UNCHANGED <<state, failures, up, pc, seen, sentUp, streak, everDown, strays>>

UpstreamFails ==
    /\ up
    /\ up' = FALSE
    /\ everDown' = TRUE
    /\ strays' = 0
    /\ UNCHANGED <<breaker, pc, seen, sentUp, sinceTrip, streak>>

UpstreamRecovers ==
    /\ ~up
    /\ up' = TRUE
    /\ UNCHANGED <<breaker, pc, seen, sentUp, history>>

Arrive(q) ==
    /\ pc[q] = "idle"
    /\ LoopFree(Home[q])
    /\ Goto(q, "can_request")
    /\ UNCHANGED <<breaker, up, seen, sentUp, history>>

-----------------------------------------------------------------------------
\* CircuitBreakerStep: can_request(upstream), then the await in ProxyStep.

Forward(q) ==
    /\ Goto(q, "awaiting")
    /\ sentUp' = [sentUp EXCEPT ![q] = up]

\* GET state; CLOSED and HALF_OPEN let the request through.
CanRequest(q) ==
    /\ pc[q] = "can_request"
    /\ seen' = [seen EXCEPT ![q] = state]
    /\ IF state = "OPEN"
          THEN Goto(q, "deadline") /\ UNCHANGED sentUp
          ELSE Forward(q)
    /\ UNCHANGED <<breaker, up, history>>

\* Mutated form of Elapsed: a deadline one tick early.
ElapsedEarly == opensAt <= 1

\* time.time() >= float(opens_at or 0): a deadline that is absent has passed.
Elapsed == opensAt <= 0

\* GET opens_at; before the deadline the request is answered 503.
Deadline(q) ==
    /\ pc[q] = "deadline"
    /\ Goto(q, IF Elapsed THEN "half_open" ELSE "idle")
    /\ UNCHANGED <<breaker, up, seen, sentUp, history>>

\* _transition(upstream, HALF_OPEN).
HalfOpen(q) ==
    /\ pc[q] = "half_open"
    /\ state' = "HALF_OPEN"
    /\ Forward(q)
    /\ UNCHANGED <<failures, opensAt, up, seen, history>>

\* What ProxyStep's await may end in: the upstream's health when the request
\* was sent or now (a late answer), or an exception that is not the
\* upstream's: the client left while its body was read.
Answers(q) == {up, sentUp[q]} \cup IF "disconnect" \in Faults THEN {FALSE} ELSE {}

Answer(q) ==
    /\ pc[q] = "awaiting"
    /\ LoopFree(Home[q])
    /\ \E ok \in Answers(q) :
          IF ok THEN Goto(q, "success") /\ UNCHANGED strays
                ELSE Goto(q, "failure") /\ Strays
    /\ UNCHANGED <<breaker, up, seen, sentUp, sinceTrip, streak, everDown>>

-----------------------------------------------------------------------------
\* record_success(upstream).

\* Mutated form of Closes: HALF_OPEN forgotten.
ClosesOnlyOpen(s) == s = "OPEN"

\* state in (HALF_OPEN, OPEN).
Closes(s) == s \in {"HALF_OPEN", "OPEN"}

Success(q) ==
    /\ pc[q] = "success"
    /\ seen' = [seen EXCEPT ![q] = state]
    /\ Goto(q, IF Closes(state) THEN "close" ELSE "respond")
    /\ streak' = 0
    /\ UNCHANGED <<breaker, up, sentUp, sinceTrip, everDown, strays>>

\* _transition(upstream, CLOSED): SET state, DEL failures, DEL opens_at.
Close(q) ==
    /\ pc[q] = "close"
    /\ state' = "CLOSED"
    /\ Goto(q, "clear_failures")
    /\ UNCHANGED <<failures, opensAt, up, seen, sentUp, history>>

\* Mutated form of Cleared: the counter is left as it is.
ClearedNot == failures

Cleared == 0

ClearFailures(q) ==
    /\ pc[q] = "clear_failures"
    /\ failures' = Cleared
    /\ Goto(q, "clear_deadline")
    /\ UNCHANGED <<state, opensAt, up, seen, sentUp, history>>

ClearDeadline(q) ==
    /\ pc[q] = "clear_deadline"
    /\ opensAt' = NoDeadline
    /\ Goto(q, "respond")
    /\ UNCHANGED <<state, failures, up, seen, sentUp, history>>

\* Mutated form of AfterResponse: record_failure in a "finally" clause.
AfterResponseFinally == "failure"

AfterResponse == "idle"

\* The rest of ProxyStep's try block: emit, build the Response.  What it
\* raises (a header that cannot be encoded) lands in "except Exception".
Respond(q) ==
    /\ pc[q] = "respond"
    /\ \/ Goto(q, AfterResponse) /\ UNCHANGED strays
       \/ "response" \in Faults /\ Goto(q, "failure") /\ Strays
    /\ UNCHANGED <<breaker, up, seen, sentUp, sinceTrip, streak, everDown>>

-----------------------------------------------------------------------------
\* record_failure(upstream), from the except branch of ProxyStep.

Failure(q) ==
    /\ pc[q] = "failure"
    /\ seen' = [seen EXCEPT ![q] = state]
    /\ Goto(q, "incr")
    /\ UNCHANGED <<breaker, up, sentUp, history>>

\* Mutated form of Trips: ">" for ">=".
TripsLate(s, count) == s = "HALF_OPEN" \/ count > Threshold

Trips(s, count) == s = "HALF_OPEN" \/ count >= Threshold

\* Mutated form of TripBegins: the trip without its SET opens_at.
TripBeginsOpen == "open"

TripBegins == "set_deadline"

Incr(q) ==
    /\ pc[q] = "incr"
    /\ failures' = CountUp(failures)
    /\ streak' = CountUp(streak)
    /\ Goto(q, IF Trips(seen[q], failures') THEN TripBegins ELSE "idle")
    /\ UNCHANGED <<state, opensAt, up, seen, sentUp, sinceTrip, everDown, strays>>

\* Mutated form of NewDeadline: recovery added to the deadline in force.
NewDeadlineLater == IF opensAt > 0 THEN opensAt + Recovery ELSE Recovery

\* opens_at = time.time() + recovery.
NewDeadline == Recovery

SetDeadline(q) ==
    /\ pc[q] = "set_deadline"
    /\ opensAt' = NewDeadline
    /\ sinceTrip' = 0
    /\ Goto(q, "open")
    /\ UNCHANGED <<state, failures, up, seen, sentUp, streak, everDown, strays>>

\* _transition(upstream, OPEN).
Open(q) ==
    /\ pc[q] = "open"
    /\ state' = "OPEN"
    /\ Goto(q, "idle")
    /\ UNCHANGED <<failures, opensAt, up, seen, sentUp, history>>

-----------------------------------------------------------------------------
\* Redis errors and crashes.

\* The next command of q raises.  Inside record_success the exception is
\* caught by ProxyStep, which records a failure; elsewhere it ends the request.
RedisError(q) ==
    /\ "redis" \in Faults
    /\ pc[q] \in OnLoop \ {"respond"}
    /\ IF pc[q] \in InSuccess THEN Goto(q, "failure") /\ Strays
                              ELSE Goto(q, "idle") /\ UNCHANGED strays
    /\ UNCHANGED <<breaker, up, seen, sentUp, sinceTrip, streak, everDown>>

\* The process dies and restarts; Redis keeps what was written.
Crash(p) ==
    /\ "crash" \in Faults
    /\ \E q \in Requests : Home[q] = p /\ pc[q] # "idle"
    /\ pc' = [q \in Requests |-> IF Home[q] = p THEN "idle" ELSE pc[q]]
    /\ UNCHANGED <<breaker, up, seen, sentUp, history>>

Handle(q) ==
    \/ CanRequest(q) \/ Deadline(q) \/ HalfOpen(q)
    \/ Success(q) \/ Close(q) \/ ClearFailures(q) \/ ClearDeadline(q)
    \/ Respond(q)
    \/ Failure(q) \/ Incr(q) \/ SetDeadline(q) \/ Open(q)

\* What happens besides the passing of time, if Redis answers and nobody dies ...
Usual ==
    \/ UpstreamFails \/ UpstreamRecovers
    \/ \E q \in Requests : Arrive(q) \/ Answer(q) \/ Handle(q)

\* ... and whatever happens.
Step ==
    \/ Usual
    \/ \E q \in Requests : RedisError(q)
    \/ \E p \in Procs : Crash(p)

Next == Tick \/ Step

Spec == Init /\ [][Next]_vars

\* Time passes; a handler on the loop runs on; asyncio serves the ready
\* callbacks in turn, so a waiting request or answer is not passed over for
\* ever (httpx bounds the wait for an answer); clients keep coming.
Fairness ==
    /\ WF_vars(Tick)
    /\ \A q \in Requests :
          WF_vars(Handle(q)) /\ SF_vars(Arrive(q)) /\ SF_vars(Answer(q))

FairSpec == Spec /\ Fairness

-----------------------------------------------------------------------------
\* Properties.

Quiet == \A q \in Requests : pc[q] \notin OnLoop

\* record_failure writes opens_at before the state: an OPEN circuit always
\* carries its deadline, whatever command a crash or a Redis error stops at.
OpenHasDeadline == state = "OPEN" => opensAt # NoDeadline

\* "OPEN -> HALF_OPEN after RECOVERY_SECONDS" (class comment): no probe before
\* the recovery time that follows the latest trip, late failures included.
HalfOpenWaits ==
    [][state = "OPEN" /\ state' = "HALF_OPEN" => sinceTrip = Recovery]_vars

\* Between requests a CLOSED circuit has room for at least one more failure:
\* nothing is left over from the trip it recovered from.
ClosedBelowThreshold == Quiet /\ state = "CLOSED" => failures < Threshold

\* "CLOSED -> OPEN after FAILURE_THRESHOLD consecutive failures": so many in a
\* row never leave the circuit CLOSED.
TripsAtThreshold == Quiet /\ streak >= Threshold => state # "CLOSED"

\* ProxyStep's except branch takes whatever is raised for a failure of the upstream:
\* the circuit of one that never failed opens only after Threshold requests that came
\* to grief in another way, none of them counted twice and nothing counted besides.
OpensWithCause == ~everDown /\ state # "CLOSED" => strays >= Threshold

\* Once the upstream stays up, Redis answers, no process dies any more and clients
\* keep coming, the circuit closes and remains closed, whatever keys methods that were
\* cut short have left: no way to get stuck OPEN, or to reopen for ever.
Recovers == <>[]up /\ <>[][Tick \/ Usual]_vars => <>[](state = "CLOSED")

\* "HALF_OPEN - allow exactly one probe" (comment in can_request).
Probes == {q \in Requests : pc[q] = "awaiting" /\ seen[q] # "CLOSED"}
SingleProbe == state = "HALF_OPEN" => Cardinality(Probes) <= 1

\* In one process whose commands all succeed, every method is as good as one
\* step: nobody sees or meets half a close or half a trip.  A method takes effect
\* with the command that decides it: GET opens_at, GET state, INCR.
Closing == \E q \in Requests : pc[q] \in {"close", "clear_failures", "clear_deadline"}
Tripping == \E q \in Requests : pc[q] = "set_deadline"
Opening == \E q \in Requests : pc[q] = "open"
Probing == \E q \in Requests : pc[q] = "half_open"
Done == {"idle", "can_request", "deadline", "set_deadline", "open"}

AtomicState ==
    IF Closing THEN "CLOSED" ELSE IF Tripping \/ Opening THEN "OPEN"
    ELSE IF Probing THEN "HALF_OPEN" ELSE state
AtomicFailures == IF Closing THEN 0 ELSE failures
AtomicDeadline ==
    IF Closing THEN NoDeadline ELSE IF Tripping THEN Recovery ELSE opensAt
Forwarded == {q \in Requests : pc[q] \notin Done}

Atomic == INSTANCE AtomicBreaker WITH
    state <- AtomicState, failures <- AtomicFailures,
    opensAt <- AtomicDeadline, forwarded <- Forwarded
ImplementsAtomicBreaker == Atomic!Spec

-----------------------------------------------------------------------------
\* Why an OPEN circuit carries its deadline in one process: the invariant that
\* every step preserves.

OneProcess == \A q, r \in Requests : Home[q] = Home[r]

\* The event loop runs one request at a time.
Exclusive ==
    \A q, r \in Requests : pc[q] \in OnLoop /\ pc[r] \in OnLoop => q = r

\* opens_at, when it is there, is the recovery time after the latest trip.
DeadlineCounts == opensAt # NoDeadline => opensAt = Recovery - sinceTrip

\* What the request on the loop knows between its commands.
Midway(q) ==
    /\ pc[q] = "deadline" => state = "OPEN"
    /\ pc[q] = "open" => opensAt # NoDeadline
    /\ pc[q] \in {"clear_failures", "clear_deadline"} => state = "CLOSED"
    /\ pc[q] = "half_open" => sinceTrip = Recovery

\* What a method has read or written is still so at its next command.
Uninterrupted ==
    \A q \in Requests :
       /\ pc[q] = "incr" => seen[q] = state
       /\ pc[q] = "clear_deadline" => failures = 0

IInv ==
    /\ TypeOK
    /\ Exclusive
    /\ Uninterrupted
    /\ DeadlineCounts
    /\ OpenHasDeadline
    /\ \A q \in Requests : Midway(q)

\* Why the circuit trips at the threshold and starts afresh, if in addition no
\* command is lost: a circuit that is CLOSED, as its methods have decided, has
\* counted all failures since the last success, and fewer than the threshold.
NothingLost == Faults \cap {"redis", "crash"} = {}

Counts ==
    AtomicState = "CLOSED" => streak <= AtomicFailures /\ AtomicFailures < Threshold

\* Why a healthy upstream is cut off with cause only, in any number of processes: the
\* failures counted and those still to be counted are requests that have gone astray,
\* and with fewer than Threshold of them nobody is on the way to OPEN.
Pending == {q \in Requests : pc[q] \in {"failure", "incr"}}

StraysCover ==
    /\ state = "CLOSED"
    /\ failures + Cardinality(Pending) <= strays
    /\ \A q \in Requests :
          /\ pc[q] \notin {"deadline", "half_open", "set_deadline", "open"}
          /\ pc[q] = "incr" => seen[q] = "CLOSED"

Healthy ==
    ~everDown =>
       /\ up
       /\ \A q \in Requests : pc[q] = "awaiting" => sentUp[q]
       /\ strays < Threshold => StraysCover
=============================================================================
