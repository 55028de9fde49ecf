------------------------------- MODULE Pipeline -------------------------------
(***************************************************************************)
(* GatewayPipeline.run for the requests of one process to one upstream,    *)
(* with the events its steps emit, the log writes these schedule and the   *)
(* circuit breaker they share, whose methods are AtomicBreaker's.          *)
(*                                                                         *)
(* What the rate limiter and the upstream answer is a choice here.         *)
(* Everything but the awaits of ProxyStep runs on the event loop without   *)
(* giving it up.                                                           *)
(***************************************************************************)
EXTENDS Integers, FiniteSets

CONSTANTS
    Requests,    \* the requests the process will see
    Threshold,   \* CIRCUIT_BREAKER_FAILURE_THRESHOLD
    FailureCap,  \* where the model stops counting failures
    Recovery,    \* CIRCUIT_BREAKER_RECOVERY_SECONDS, in ticks
    Faults       \* which of FaultKinds may happen

FaultKinds == {"redis", "database", "disconnect", "response", "crash"}

ASSUME ConstantsAssumption ==
    /\ IsFiniteSet(Requests)
    /\ Threshold \in Nat \ {0}
    /\ FailureCap \in Nat /\ FailureCap >= Threshold
    /\ Recovery \in Nat \ {0}
    /\ Faults \subseteq FaultKinds

VARIABLES
    step,       \* step[q]: where request q stands
    answer,     \* answer[q]: the status the client got, or "none"
    sent,       \* the requests the upstream has received
    succeeded,  \* history: the requests whose record_success took effect, if only
                \* in part, and even if it raised after that
    failed,     \* history: the same for record_failure
    announced,  \* history: the requests about which RequestForwarded was emitted
    tasks,      \* log writes that create_task has scheduled
    rows,       \* the request_logs table
    lost,       \* history: the requests about which a log write was lost
    state, failures, opensAt  \* the keys of the circuit breaker

requests == <<step, answer, sent>>
reports == <<succeeded, failed>>
log == <<announced, tasks, rows, lost>>
keys == <<state, failures, opensAt>>
vars == <<requests, reports, log, keys>>

\* A step before the await, a step after it, and the rest.
Before == {"rate_limit", "circuit_breaker"}
After == {"record_success", "emit_forwarded", "respond",
          "record_failure", "emit_blocked"}
Waiting == {"body", "upstream"}
Ended == {"done", "aborted"}

\* The promises of CircuitBreakerBase.
Breaker == INSTANCE AtomicBreaker WITH
    forwarded <- {q \in Requests : step[q] \in Waiting \cup After}

\* "ok" is the upstream's own status, whatever it is.
Statuses == {"ok", "429", "503", "502", "500"}
Reasons == {"rate_limit", "circuit_breaker", "upstream_error"}
Rows == [request : Requests, status : Statuses, blocked_by : Reasons \cup {"none"}]
Entry(q, s, reason) == [request |-> q, status |-> s, blocked_by |-> reason]

TypeOK ==
    /\ step \in [Requests -> {"new"} \cup Before \cup Waiting \cup After \cup Ended]
    /\ answer \in [Requests -> Statuses \cup {"none"}]
    /\ sent \cup succeeded \cup failed \cup announced \cup lost \subseteq Requests
    /\ tasks \cup rows \subseteq Rows
    /\ state \in {"CLOSED", "OPEN", "HALF_OPEN"}
    /\ failures \in 0..FailureCap
    /\ opensAt \in -1..Recovery

Init ==
    /\ step = [q \in Requests |-> "new"]
    /\ answer = [q \in Requests |-> "none"]
    /\ sent = {} /\ succeeded = {} /\ failed = {}
    /\ announced = {} /\ tasks = {} /\ rows = {} /\ lost = {}
    /\ Breaker!InitKeys

-----------------------------------------------------------------------------
\* The event loop, the events and the answers.

LoopFree == \A q \in Requests : step[q] \notin Before \cup After

Goto(q, s) == step' = [step EXCEPT ![q] = s]

Respond(q, status) ==
    /\ Goto(q, "done")
    /\ answer' = [answer EXCEPT ![q] = status]

\* EventManager.emit runs LogListener's handler there and then, and that only
\* schedules the write (LogService.record_async).
Emit(q, s, reason) ==
    /\ tasks' = tasks \cup {Entry(q, s, reason)}
    /\ UNCHANGED <<rows, lost>>

\* Mutated form of EmitBlocked: status and reason swapped.
EmitBlockedSwapped(q, s, reason) == Emit(q, reason, s) /\ UNCHANGED announced

EmitBlocked(q, s, reason) == Emit(q, s, reason) /\ UNCHANGED announced
EmitForwarded(q) == Emit(q, "ok", "none") /\ announced' = announced \cup {q}

\* Mutated forms of Reject: without its event, logged under the wrong status,
\* and sent on after the event.
RejectSilently(q, status, reason) == Respond(q, status) /\ UNCHANGED log
RejectAs503(q, status, reason) == EmitBlocked(q, "503", reason) /\ Respond(q, status)
RejectSendsOn(q, status, reason) ==
    EmitBlocked(q, status, reason) /\ Goto(q, "body") /\ UNCHANGED answer

\* RequestBlocked is emitted, then the step returns its response.
Reject(q, status, reason) == EmitBlocked(q, status, reason) /\ Respond(q, status)

\* Outside ProxyStep's try block an exception is the framework's: a bare 500.
Raise(q) == Respond(q, "500") /\ UNCHANGED log

Arrive(q) ==
    /\ step[q] = "new"
    /\ LoopFree
    /\ Goto(q, "rate_limit")
    /\ UNCHANGED <<answer, sent, reports, log, keys>>

\* RateLimitStep: no rule or room in the window, over the limit, or an
\* exception (Redis, or the database on a cache miss).
RateLimitStep(q) ==
    /\ step[q] = "rate_limit"
    /\ \/ Goto(q, "circuit_breaker") /\ UNCHANGED <<answer, log>>
       \/ Reject(q, "429", "rate_limit")
       \/ Faults \cap {"redis", "database"} # {} /\ Raise(q)
    /\ UNCHANGED <<sent, reports, keys>>

\* CircuitBreakerStep: can_request, or 503.  What Redis raises may be the loss
\* of a reply, to a command that has taken effect.
CircuitBreakerStep(q) ==
    /\ step[q] = "circuit_breaker"
    /\ \/ Breaker!Pass /\ Goto(q, "body") /\ UNCHANGED <<answer, log>>
       \/ Breaker!Refuse /\ Reject(q, "503", "circuit_breaker")
       \/ "redis" \in Faults /\ Raise(q) /\ (Breaker!Pass \/ UNCHANGED keys)
    /\ UNCHANGED <<sent, reports>>

-----------------------------------------------------------------------------
\* ProxyStep: the try block, and the except branch that takes whatever it raises.

\* await request.body(), then the request goes out.
ReadBody(q) ==
    /\ step[q] = "body"
    /\ LoopFree
    /\ \/ Goto(q, "upstream") /\ sent' = sent \cup {q}
       \/ "disconnect" \in Faults /\ Goto(q, "record_failure") /\ UNCHANGED sent
    /\ UNCHANGED <<answer, reports, log, keys>>

\* Mutated form of Outcomes: a timeout is not reported to the breaker.
OutcomesUnreported == {"record_success", "emit_blocked"}

\* await client.request(...): an answer, or a timeout or transport error.
Outcomes == {"record_success", "record_failure"}

UpstreamAnswers(q) ==
    /\ step[q] = "upstream"
    /\ LoopFree
    /\ \E next \in Outcomes : Goto(q, next)
    /\ UNCHANGED <<answer, sent, reports, log, keys>>

\* What Redis raises may come before a method's first command, after its last one,
\* whose reply is lost, or in between.
RecordSuccess(q) ==
    /\ step[q] = "record_success"
    /\ \/ Goto(q, "emit_forwarded") /\ Breaker!Succeed /\ succeeded' = succeeded \cup {q}
       \/ /\ "redis" \in Faults
          /\ Goto(q, "record_failure")
          /\ \/ UNCHANGED <<keys, succeeded>>
             \/ /\ Breaker!TornSucceed \/ Breaker!Succeed
                /\ succeeded' = succeeded \cup {q}
    /\ UNCHANGED <<answer, sent, failed, log>>

Forwarded(q) ==
    /\ step[q] = "emit_forwarded"
    /\ EmitForwarded(q)
    /\ Goto(q, "respond")
    /\ UNCHANGED <<answer, sent, reports, keys>>

\* Response(...): a header the client cannot be sent raises.
BuildResponse(q) ==
    /\ step[q] = "respond"
    /\ \/ Respond(q, "ok")
       \/ "response" \in Faults /\ Goto(q, "record_failure") /\ UNCHANGED answer
    /\ UNCHANGED <<sent, reports, log, keys>>

\* record_failure is not guarded: what it raises replaces the 502.
RecordFailure(q) ==
    /\ step[q] = "record_failure"
    /\ \/ /\ Goto(q, "emit_blocked")
          /\ Breaker!Fail
          /\ failed' = failed \cup {q}
          /\ UNCHANGED <<answer, log>>
       \/ /\ "redis" \in Faults
          /\ Raise(q)
          /\ \/ UNCHANGED <<keys, failed>>
             \/ (Breaker!TornFail \/ Breaker!Fail) /\ failed' = failed \cup {q}
    /\ UNCHANGED <<sent, succeeded>>

Blocked(q) ==
    /\ step[q] = "emit_blocked"
    /\ Reject(q, "502", "upstream_error")
    /\ UNCHANGED <<sent, reports, keys>>

-----------------------------------------------------------------------------
\* LogService._write: a task of its own on the loop.  It has no await, so it
\* runs to its end; what the database raises is logged to the console only.

Write(t) ==
    /\ t \in tasks
    /\ LoopFree
    /\ tasks' = tasks \ {t}
    /\ \/ rows' = rows \cup {t} /\ UNCHANGED lost
       \/ "database" \in Faults /\ lost' = lost \cup {t.request} /\ UNCHANGED rows
    /\ UNCHANGED <<requests, reports, announced, keys>>

\* The process dies: scheduled writes and open requests are gone, and a method
\* of the breaker that was under way is cut short.
Crash ==
    /\ "crash" \in Faults
    /\ tasks # {} \/ \E q \in Requests : step[q] \notin {"new"} \cup Ended
    /\ step' = [q \in Requests |-> IF step[q] \in {"new"} \cup Ended THEN step[q]
                                   ELSE "aborted"]
    /\ tasks' = {}
    /\ lost' = lost \cup {t.request : t \in tasks}
    /\ \/ UNCHANGED <<keys, reports>>
       \/ \E q \in Requests :
             /\ step[q] = "record_success" /\ Breaker!TornSucceed
             /\ succeeded' = succeeded \cup {q} /\ UNCHANGED failed
       \/ \E q \in Requests :
             /\ step[q] = "record_failure" /\ Breaker!TornFail
             /\ failed' = failed \cup {q} /\ UNCHANGED succeeded
    /\ UNCHANGED <<answer, sent, announced, rows>>

Tick == Breaker!Tick /\ UNCHANGED <<requests, reports, log>>

OnLoop(q) ==
    \/ RateLimitStep(q) \/ CircuitBreakerStep(q)
    \/ RecordSuccess(q) \/ Forwarded(q) \/ BuildResponse(q)
    \/ RecordFailure(q) \/ Blocked(q)

Awaited(q) == ReadBody(q) \/ UpstreamAnswers(q)

Next ==
    \/ \E q \in Requests : Arrive(q) \/ OnLoop(q) \/ Awaited(q)
    \/ \E t \in tasks : Write(t)
    \/ Crash
    \/ Tick

Spec == Init /\ [][Next]_vars

\* A handler on the loop runs on; ready callbacks and tasks get their turn
\* (httpx and the client's socket bound the awaits).
Fairness ==
    /\ \A q \in Requests : WF_vars(OnLoop(q)) /\ SF_vars(Awaited(q))
    /\ SF_vars(\E t \in tasks : Write(t))

FairSpec == Spec /\ Fairness

-----------------------------------------------------------------------------
\* Properties.

Logged(q) == {t \in tasks \cup rows : t.request = q}

\* RequestForwarded was emitted, but the upstream's answer could not be passed on.
Undelivered(q) == q \in announced /\ answer[q] # "ok"

\* Whatever fails, the log agrees with what the clients were told: an answer has
\* exactly one entry, with its status, even if the client hung up half-way; a bare
\* 500 has none.  Only the upstream's answers that could not be passed on are
\* logged both ways, and only writes that were lost are missing.
OneEntryPerAnswer ==
    \A q \in Requests : step[q] = "done" /\ ~Undelivered(q) /\ q \notin lost =>
        IF answer[q] = "500" THEN Logged(q) = {}
        ELSE \E t \in Logged(q) : Logged(q) = {t} /\ t.status = answer[q]

\* Whatever fails, a request that is logged as rejected by the rate limiter or
\* by the circuit breaker has not reached the upstream, and never will.
RejectedNeverSent ==
    \A t \in tasks \cup rows :
        t.blocked_by \in {"rate_limit", "circuit_breaker"} =>
            t.request \notin sent /\ step[t.request] \in Ended

\* What the circuit breaker has heard about a request is what its client was told:
\* an "ok" was heard as a success and not as a failure, a 502 as a failure, also if
\* record_success, which stands inside the try block, took effect and raised, and a
\* request that was rejected was not heard of at all.
ReportsMatchAnswers ==
    \A q \in Requests :
        /\ answer[q] = "ok" => q \in succeeded \ failed
        /\ answer[q] = "502" => q \in failed
        /\ q \in succeeded \cup failed => answer[q] \notin {"429", "503"}

\* A circuit that is not CLOSED can be explained from the log: it has as many
\* upstream errors as the threshold asks for, apart from those whose request or
\* log write failed, whatever crash or Redis error cut a trip or a close short.
Explains(q) ==
    \/ \E t \in Logged(q) : t.blocked_by = "upstream_error"
    \/ q \in lost \/ step[q] \in {"aborted", "emit_blocked"} \/ answer[q] = "500"
Explainers == {q \in Requests : Explains(q)}
OpenIsInTheLog ==
    state # "CLOSED" => Cardinality(Explainers) >= Threshold

\* "every proxied or blocked request is logged" (README): once the upstream has
\* got a request, a row about it is written in the end, also when building the
\* response raises, unless a crash, the database or Redis got in the way.
SentIsLogged ==
    \A q \in Requests : q \in sent ~>
        \/ \E t \in rows : t.request = q
        \/ q \in lost \/ step[q] = "aborted" \/ answer[q] = "500"

-----------------------------------------------------------------------------
\* Why they hold: the strengthening of them that every step preserves.

\* The entries the events of q have asked for so far.
Rejections(q) == {Entry(q, "429", "rate_limit"), Entry(q, "503", "circuit_breaker"),
                  Entry(q, "502", "upstream_error")}
Due(q) ==
    {t \in {Entry(q, "ok", "none")} : q \in announced}
      \cup {t \in Rejections(q) : t.status = answer[q]}

\* The log has no others, and all of them but those a crash or the database took;
\* a request that is still under way has lost none.
LogFollows(q) ==
    /\ Logged(q) \subseteq Due(q)
    /\ q \notin lost /\ step[q] # "aborted" => Logged(q) = Due(q)
    /\ step[q] \notin Ended => q \notin lost

\* What step and answer say about the upstream and the reports.
ReportsFollow(q) ==
    /\ step[q] # "done" <=> answer[q] = "none"
    /\ step[q] \in {"new", "body"} \cup Before \/ answer[q] \in {"429", "503"} =>
          q \notin sent \cup succeeded \cup failed
    /\ step[q] \in {"upstream", "record_success"} =>
          q \in sent \ (succeeded \cup failed)
    /\ step[q] \in {"emit_forwarded", "respond"} \/ answer[q] = "ok" =>
          q \in succeeded \ failed
    /\ step[q] = "record_failure" => q \notin failed
    /\ step[q] = "emit_blocked" \/ answer[q] = "502" => q \in failed
    /\ step[q] \in {"new", "body", "upstream", "record_success", "emit_forwarded"} \cup Before
          \/ answer[q] \in {"429", "503"} => q \notin announced
    /\ step[q] = "respond" \/ answer[q] = "ok" => q \in announced

\* For every failure the breaker has counted there is a request of its own that
\* explains it, and does so for good.
IInv ==
    /\ TypeOK
    /\ \A q \in Requests : LogFollows(q) /\ ReportsFollow(q)
    /\ failures <= Cardinality(Explainers)
    /\ OpenIsInTheLog
=============================================================================
