---------------------------- MODULE PipelineProofs ----------------------------
(***************************************************************************)
(* Proofs about Pipeline for any number of requests, any threshold and     *)
(* recovery time and any combination of faults: what the log, the circuit  *)
(* breaker and the upstream know about a request follows from how far it   *)
(* got and what its client was told.                                       *)
(***************************************************************************)
EXTENDS Pipeline, FiniteSetTheorems, TLAPS

-----------------------------------------------------------------------------
\* The circuit breaker's part.

KeysOK ==
    /\ state \in {"CLOSED", "OPEN", "HALF_OPEN"}
    /\ failures \in 0..FailureCap
    /\ opensAt \in -1..Recovery

\* What a method of the breaker, whole or cut short, may do to its keys.
KeysMove ==
    \/ Breaker!Pass \/ Breaker!Refuse \/ Breaker!Succeed \/ Breaker!Fail
    \/ Breaker!TornSucceed \/ Breaker!TornFail \/ Breaker!Tick \/ UNCHANGED keys

LEMMA KeysStep == KeysOK /\ KeysMove => KeysOK'
<1> SUFFICES ASSUME KeysOK, KeysMove PROVE KeysOK'
  OBVIOUS
<1> USE ConstantsAssumption DEF KeysOK, Breaker!keys, Breaker!NoDeadline
<1>1. Breaker!CountUp(failures) \in 0..FailureCap
  BY DEF Breaker!CountUp
<1>2. CASE Breaker!Pass
  BY <1>2 DEF Breaker!Pass
<1>3. CASE Breaker!Refuse
  BY <1>3 DEF Breaker!Refuse
<1>4. CASE Breaker!Succeed
  BY <1>4 DEF Breaker!Succeed
<1>5. CASE Breaker!Fail
  BY <1>1, <1>5 DEF Breaker!Fail, Breaker!FailBy
<1>6. CASE Breaker!TornSucceed
  BY <1>6 DEF Breaker!TornSucceed
<1>7. CASE Breaker!TornFail
  BY <1>1, <1>7 DEF Breaker!TornFail, Breaker!TornFailBy
<1>8. CASE Breaker!Tick
  BY <1>8 DEF Breaker!Tick
<1>9. CASE UNCHANGED keys
  BY <1>9 DEF keys
<1> QED
  BY <1>2, <1>3, <1>4, <1>5, <1>6, <1>7, <1>8, <1>9 DEF KeysMove

\* Every step of the pipeline does to the keys what a method does, or nothing.
LEMMA EveryMove == [Next]_vars => KeysMove
  BY DEF Next, Arrive, OnLoop, Awaited, RateLimitStep, CircuitBreakerStep,
     RecordSuccess, Forwarded, BuildResponse, RecordFailure, Blocked,
     ReadBody, UpstreamAnswers, Write, Crash, Tick, KeysMove, keys, vars

-----------------------------------------------------------------------------
\* Type correctness.

LEMMA EntryType ==
  ASSUME NEW q \in Requests, NEW s \in Statuses, NEW b \in Reasons \cup {"none"}
  PROVE  Entry(q, s, b) \in Rows
  BY DEF Entry, Rows

LEMMA HandlerType ==
  ASSUME TypeOK, NEW q \in Requests, Arrive(q) \/ OnLoop(q) \/ Awaited(q)
  PROVE  TypeOK'
<1> USE DEF TypeOK, Goto, Before, After, Waiting, Ended
<1>0. KeysOK'
  BY KeysStep, EveryMove DEF KeysOK, Next
<1>1. /\ step' \in [Requests -> {"new"} \cup Before \cup Waiting \cup After \cup Ended]
      /\ answer' \in [Requests -> Statuses \cup {"none"}]
  BY DEF Arrive, OnLoop, Awaited, RateLimitStep, CircuitBreakerStep, RecordSuccess,
     Forwarded, BuildResponse, RecordFailure, Blocked, ReadBody, UpstreamAnswers,
     Outcomes, Reject, Raise, Respond, Statuses, requests
<1>2. sent' \cup succeeded' \cup failed' \cup announced' \cup lost' \subseteq Requests
  BY DEF Arrive, OnLoop, Awaited, RateLimitStep, CircuitBreakerStep, RecordSuccess,
     Forwarded, BuildResponse, RecordFailure, Blocked, ReadBody, UpstreamAnswers,
     Reject, Raise, EmitBlocked, EmitForwarded, Emit, reports, log
<1>3. tasks' \cup rows' \subseteq Rows
  <2>1. \/ UNCHANGED <<tasks, rows>>
        \/ \E s \in Statuses, b \in Reasons \cup {"none"} : Emit(q, s, b)
    BY DEF Arrive, OnLoop, Awaited, RateLimitStep, CircuitBreakerStep, RecordSuccess,
       Forwarded, BuildResponse, RecordFailure, Blocked, ReadBody, UpstreamAnswers,
       Reject, Raise, EmitBlocked, EmitForwarded, log, Statuses, Reasons
  <2> QED
    BY <2>1, EntryType DEF Emit
<1> QED
  BY <1>0, <1>1, <1>2, <1>3 DEF KeysOK

LEMMA TypeStep == TypeOK /\ [Next]_vars => TypeOK'
<1> SUFFICES ASSUME TypeOK, [Next]_vars PROVE TypeOK'
  OBVIOUS
<1>0. KeysOK'
  BY KeysStep, EveryMove DEF KeysOK, TypeOK
<1>1. ASSUME NEW t \in tasks, Write(t) PROVE TypeOK'
  <2>1. t \in Rows /\ t.request \in Requests
    BY DEF TypeOK, Rows
  <2> QED
    BY <1>0, <1>1, <2>1 DEF TypeOK, Write, requests, reports, KeysOK
<1>2. CASE Crash
  <2>1. step' \in [Requests -> {"new"} \cup Before \cup Waiting \cup After \cup Ended]
    BY <1>2 DEF TypeOK, Crash, Ended
  <2>2. succeeded' \cup failed' \cup announced' \cup lost' \subseteq Requests
    BY <1>2 DEF TypeOK, Crash, Rows, reports
  <2> QED
    BY <1>0, <1>2, <2>1, <2>2 DEF TypeOK, Crash, reports, KeysOK
<1>3. CASE Tick
  BY <1>0, <1>3 DEF TypeOK, Tick, requests, reports, log, KeysOK
<1>4. CASE UNCHANGED vars
  BY <1>4 DEF TypeOK, vars, requests, reports, log, keys
<1> QED
  BY <1>1, <1>2, <1>3, <1>4, HandlerType DEF Next

LEMMA InitType == Init => TypeOK
  BY ConstantsAssumption DEF Init, TypeOK, Breaker!InitKeys, Breaker!NoDeadline, Rows

\* Requests, log and circuit stay well typed, whatever fails; in particular the
\* log never holds a status or a reason that the steps do not know.
THEOREM TypeCorrect == Spec => []TypeOK
  BY InitType, TypeStep, PTL DEF Spec

-----------------------------------------------------------------------------
\* The log.

\* Due, spelled out, before a step and after it.
LEMMA DueIs ==
  ASSUME NEW q \in Requests
  PROVE  /\ Due(q) = {t \in {Entry(q, "ok", "none")} : q \in announced}
                 \cup (IF answer[q] = "429" THEN {Entry(q, "429", "rate_limit")} ELSE {})
                 \cup (IF answer[q] = "503" THEN {Entry(q, "503", "circuit_breaker")} ELSE {})
                 \cup (IF answer[q] = "502" THEN {Entry(q, "502", "upstream_error")} ELSE {})
         /\ Due(q)' = {t \in {Entry(q, "ok", "none")} : q \in announced'}
                 \cup (IF answer'[q] = "429" THEN {Entry(q, "429", "rate_limit")} ELSE {})
                 \cup (IF answer'[q] = "503" THEN {Entry(q, "503", "circuit_breaker")} ELSE {})
                 \cup (IF answer'[q] = "502" THEN {Entry(q, "502", "upstream_error")} ELSE {})
<1> DEFINE Chosen(a) ==
      (IF a = "429" THEN {Entry(q, "429", "rate_limit")} ELSE {})
      \cup (IF a = "503" THEN {Entry(q, "503", "circuit_breaker")} ELSE {})
      \cup (IF a = "502" THEN {Entry(q, "502", "upstream_error")} ELSE {})
<1>1. ASSUME NEW a PROVE {t \in Rejections(q) : t.status = a} = Chosen(a)
  <2>1. /\ Entry(q, "429", "rate_limit").status = "429"
        /\ Entry(q, "503", "circuit_breaker").status = "503"
        /\ Entry(q, "502", "upstream_error").status = "502"
    BY DEF Entry
  <2> HIDE DEF Chosen
  <2> QED
    BY <2>1 DEF Rejections, Chosen
<1> QED
  BY <1>1 DEF Due

\* An event adds the entry it asks for, to the log of its own request.
LEMMA Emitted ==
  ASSUME NEW q \in Requests, NEW s, NEW b, Emit(q, s, b), NEW o \in Requests
  PROVE  Logged(o)' = IF o = q THEN Logged(o) \cup {Entry(q, s, b)} ELSE Logged(o)
<1>1. Entry(q, s, b).request = q
  BY DEF Entry
<1>2. tasks' \cup rows' = (tasks \cup rows) \cup {Entry(q, s, b)}
  BY DEF Emit
<1> HIDE DEF Entry
<1> QED
  BY <1>1, <1>2 DEF Logged

LEMMA Unlogged ==
  ASSUME NEW o \in Requests, UNCHANGED log
  PROVE  Logged(o)' = Logged(o)
  BY DEF Logged, log

\* Nothing is said about a request that a step leaves alone.
Untouched(o) ==
    /\ step'[o] = step[o] /\ answer'[o] = answer[o] /\ Logged(o)' = Logged(o)
    /\ o \in sent' <=> o \in sent
    /\ o \in succeeded' <=> o \in succeeded
    /\ o \in failed' <=> o \in failed
    /\ o \in announced' <=> o \in announced
    /\ o \in lost' <=> o \in lost

LEMMA UntouchedKeeps ==
  ASSUME NEW o \in Requests, Untouched(o), LogFollows(o), ReportsFollow(o)
  PROVE  LogFollows(o)' /\ ReportsFollow(o)'
<1>1. Due(o)' = Due(o)
  BY DueIs DEF Untouched
<1>2. LogFollows(o)'
  BY <1>1 DEF LogFollows, Untouched
<1>3. ReportsFollow(o)'
  BY DEF ReportsFollow, Untouched
<1> QED
  BY <1>2, <1>3

LEMMA OthersUntouched ==
  ASSUME TypeOK, NEW q \in Requests, Arrive(q) \/ OnLoop(q) \/ Awaited(q),
         NEW o \in Requests, o # q
  PROVE  Untouched(o)
<1>1. /\ step'[o] = step[o] /\ answer'[o] = answer[o]
      /\ o \in sent' <=> o \in sent
      /\ o \in succeeded' <=> o \in succeeded
      /\ o \in failed' <=> o \in failed
      /\ o \in announced' <=> o \in announced
      /\ lost' = lost
  BY DEF Arrive, OnLoop, Awaited, RateLimitStep, CircuitBreakerStep, RecordSuccess,
     Forwarded, BuildResponse, RecordFailure, Blocked, ReadBody, UpstreamAnswers,
     Reject, Raise, Respond, EmitBlocked, EmitForwarded, Emit, Goto,
     requests, reports, log, TypeOK
<1>2. UNCHANGED log \/ \E s, b : Emit(q, s, b)
  BY DEF Arrive, OnLoop, Awaited, RateLimitStep, CircuitBreakerStep, RecordSuccess,
     Forwarded, BuildResponse, RecordFailure, Blocked, ReadBody, UpstreamAnswers,
     Reject, Raise, EmitBlocked, EmitForwarded
<1>3. Logged(o)' = Logged(o)
  BY <1>2, Emitted, Unlogged
<1> QED
  BY <1>1, <1>3 DEF Untouched

\* The request that takes the step, when it raises no event ...
LEMMA QuietStep ==
  ASSUME TypeOK, NEW q \in Requests, LogFollows(q), ReportsFollow(q),
         UNCHANGED log, step[q] \notin Ended, step'[q] # "aborted",
         answer'[q] \in {answer[q], "ok", "500"},
         answer'[q] # answer[q] => step'[q] = "done"
  PROVE  LogFollows(q)'
<1>1. Logged(q)' = Logged(q) /\ lost' = lost /\ announced' = announced
  BY Unlogged DEF log
<1>2. answer[q] = "none"
  BY DEF ReportsFollow, Ended
<1>3. Due(q)' = Due(q)
  BY <1>1, <1>2, DueIs
<1> QED
  BY <1>1, <1>3 DEF LogFollows, Ended

\* ... and when it is rejected with one.
LEMMA RejectedStep ==
  ASSUME TypeOK, NEW q \in Requests, LogFollows(q), ReportsFollow(q),
         step[q] \notin Ended, NEW s, NEW b, Entry(q, s, b) \in Rejections(q), Reject(q, s, b)
  PROVE  LogFollows(q)' /\ step'[q] = "done" /\ answer'[q] = s /\ UNCHANGED announced
<1>1. step'[q] = "done" /\ answer'[q] = s
  BY DEF Reject, Respond, Goto, TypeOK
<1>2. /\ Logged(q)' = Logged(q) \cup {Entry(q, s, b)} /\ lost' = lost
      /\ announced' = announced
  BY Emitted DEF Reject, EmitBlocked, Emit
<1>3. answer[q] = "none"
  BY DEF ReportsFollow, Ended
<1>4. \/ s = "429" /\ b = "rate_limit"
      \/ s = "503" /\ b = "circuit_breaker"
      \/ s = "502" /\ b = "upstream_error"
  BY DEF Rejections, Entry
<1>5. Due(q)' = Due(q) \cup {Entry(q, s, b)}
  BY <1>1, <1>2, <1>3, <1>4, DueIs
<1> QED
  BY <1>1, <1>2, <1>5 DEF LogFollows, Ended

LEMMA OwnStep ==
  ASSUME TypeOK, NEW q \in Requests, Arrive(q) \/ OnLoop(q) \/ Awaited(q),
         LogFollows(q), ReportsFollow(q)
  PROVE  LogFollows(q)' /\ ReportsFollow(q)'
<1> USE DEF Goto, Before, Ended, TypeOK, requests, reports, log
<1>a. /\ Entry(q, "429", "rate_limit") \in Rejections(q)
      /\ Entry(q, "503", "circuit_breaker") \in Rejections(q)
      /\ Entry(q, "502", "upstream_error") \in Rejections(q)
  BY DEF Rejections
<1>1. CASE Arrive(q)
  <2>1. /\ step[q] = "new" /\ step'[q] = "rate_limit"
        /\ UNCHANGED <<answer, sent, succeeded, failed>> /\ UNCHANGED log
    BY <1>1 DEF Arrive
  <2> QED
    BY <2>1, QuietStep DEF ReportsFollow
<1>2. CASE RateLimitStep(q)
  <2>1. step[q] = "rate_limit" /\ UNCHANGED <<sent, succeeded, failed>>
    BY <1>2 DEF RateLimitStep
  <2>2. CASE Goto(q, "circuit_breaker") /\ UNCHANGED <<answer, log>>
    BY <2>1, <2>2, QuietStep DEF ReportsFollow
  <2>3. CASE Reject(q, "429", "rate_limit")
    <3>1. LogFollows(q)' /\ step'[q] = "done" /\ answer'[q] = "429" /\ UNCHANGED announced
      BY <1>a, <2>1, <2>3, RejectedStep
    <3> QED
      BY <2>1, <3>1 DEF ReportsFollow
  <2>4. CASE Raise(q)
    <3>1. step'[q] = "done" /\ answer'[q] = "500" /\ UNCHANGED log
      BY <2>4 DEF Raise, Respond
    <3> QED
      BY <2>1, <3>1, QuietStep DEF ReportsFollow
  <2> QED
    BY <1>2, <2>2, <2>3, <2>4 DEF RateLimitStep
<1>3. CASE CircuitBreakerStep(q)
  <2>1. step[q] = "circuit_breaker" /\ UNCHANGED <<sent, succeeded, failed>>
    BY <1>3 DEF CircuitBreakerStep
  <2>2. CASE Goto(q, "body") /\ UNCHANGED <<answer, log>>
    BY <2>1, <2>2, QuietStep DEF ReportsFollow
  <2>3. CASE Reject(q, "503", "circuit_breaker")
    <3>1. LogFollows(q)' /\ step'[q] = "done" /\ answer'[q] = "503" /\ UNCHANGED announced
      BY <1>a, <2>1, <2>3, RejectedStep
    <3> QED
      BY <2>1, <3>1 DEF ReportsFollow
  <2>4. CASE Raise(q)
    <3>1. step'[q] = "done" /\ answer'[q] = "500" /\ UNCHANGED log
      BY <2>4 DEF Raise, Respond
    <3> QED
      BY <2>1, <3>1, QuietStep DEF ReportsFollow
  <2> QED
    BY <1>3, <2>2, <2>3, <2>4 DEF CircuitBreakerStep
<1>4. CASE ReadBody(q)
  <2>1. /\ step[q] = "body" /\ UNCHANGED <<answer, succeeded, failed>> /\ UNCHANGED log
        /\ \/ step'[q] = "upstream" /\ sent' = sent \cup {q}
           \/ step'[q] = "record_failure" /\ sent' = sent
    BY <1>4 DEF ReadBody
  <2> QED
    BY <2>1, QuietStep DEF ReportsFollow
<1>5. CASE UpstreamAnswers(q)
  <2>1. /\ step[q] = "upstream" /\ step'[q] \in {"record_success", "record_failure"}
        /\ UNCHANGED <<answer, sent, succeeded, failed>> /\ UNCHANGED log
    BY <1>5 DEF UpstreamAnswers, Outcomes
  <2> QED
    BY <2>1, QuietStep DEF ReportsFollow
<1>6. CASE RecordSuccess(q)
  <2>1. /\ step[q] = "record_success"
        /\ UNCHANGED <<answer, sent, failed>> /\ UNCHANGED log
        /\ \/ step'[q] = "emit_forwarded" /\ succeeded' = succeeded \cup {q}
           \/ step'[q] = "record_failure" /\ succeeded' \in {succeeded, succeeded \cup {q}}
    BY <1>6 DEF RecordSuccess
  <2> QED
    BY <2>1, QuietStep DEF ReportsFollow
<1>7. CASE Forwarded(q)
  <2>1. /\ step[q] = "emit_forwarded" /\ step'[q] = "respond"
        /\ UNCHANGED <<answer, sent, succeeded, failed>>
    BY <1>7 DEF Forwarded
  <2>2. Logged(q)' = Logged(q) \cup {Entry(q, "ok", "none")} /\ lost' = lost
    BY <1>7, Emitted DEF Forwarded, EmitForwarded, Emit
  <2>0. announced' = announced \cup {q}
    BY <1>7 DEF Forwarded, EmitForwarded
  <2>3. answer[q] = "none" /\ q \in succeeded /\ q \notin announced
    BY <2>1 DEF ReportsFollow
  <2>4. Due(q) = {} /\ Due(q)' = {Entry(q, "ok", "none")}
    BY <2>0, <2>3, <2>1, DueIs
  <2>5. LogFollows(q)'
    BY <2>1, <2>2, <2>4 DEF LogFollows
  <2> QED
    BY <2>0, <2>1, <2>3, <2>5 DEF ReportsFollow
<1>8. CASE BuildResponse(q)
  <2>1. /\ step[q] = "respond" /\ UNCHANGED <<sent, succeeded, failed>> /\ UNCHANGED log
        /\ \/ step'[q] = "done" /\ answer'[q] = "ok"
           \/ step'[q] = "record_failure" /\ answer' = answer
    BY <1>8 DEF BuildResponse, Respond
  <2> QED
    BY <2>1, QuietStep DEF ReportsFollow
<1>9. CASE RecordFailure(q)
  <2>1. step[q] = "record_failure" /\ UNCHANGED <<sent, succeeded>>
    BY <1>9 DEF RecordFailure
  <2>2. CASE Goto(q, "emit_blocked") /\ failed' = failed \cup {q} /\ UNCHANGED <<answer, log>>
    BY <2>1, <2>2, QuietStep DEF ReportsFollow
  <2>3. CASE Raise(q) /\ failed' \in {failed, failed \cup {q}}
    <3>1. step'[q] = "done" /\ answer'[q] = "500" /\ UNCHANGED log
      BY <2>3 DEF Raise, Respond
    <3> QED
      BY <2>1, <2>3, <3>1, QuietStep DEF ReportsFollow
  <2> QED
    BY <1>9, <2>2, <2>3 DEF RecordFailure
<1>10. CASE Blocked(q)
  <2>1. step[q] = "emit_blocked" /\ UNCHANGED <<sent, succeeded, failed>>
    BY <1>10 DEF Blocked
  <2>2. LogFollows(q)' /\ step'[q] = "done" /\ answer'[q] = "502" /\ UNCHANGED announced
    BY <1>a, <1>10, <2>1, RejectedStep DEF Blocked
  <2> QED
    BY <2>1, <2>2 DEF ReportsFollow
<1> QED
  BY <1>1, <1>2, <1>3, <1>4, <1>5, <1>6, <1>7, <1>8, <1>9, <1>10 DEF OnLoop, Awaited

\* A request that still has something to log is off the loop only at its end.
LEMMA NothingDueBefore ==
  ASSUME NEW q \in Requests, LogFollows(q), ReportsFollow(q),
         step[q] \in {"new", "body", "upstream"}
  PROVE  Due(q) = {} /\ Logged(q) = {} /\ answer[q] = "none" /\ q \notin announced
<1>1. answer[q] = "none" /\ q \notin announced
  BY DEF ReportsFollow
<1>2. Due(q) = {}
  BY <1>1, DueIs
<1> QED
  BY <1>1, <1>2 DEF LogFollows

LEMMA WriteKeeps ==
  ASSUME TypeOK, NEW t \in tasks, Write(t),
         NEW o \in Requests, LogFollows(o), ReportsFollow(o)
  PROVE  LogFollows(o)' /\ ReportsFollow(o)'
<1>1. UNCHANGED <<step, answer, sent, succeeded, failed, announced>>
  BY DEF Write, requests, reports
<1>2. CASE rows' = rows \cup {t} /\ UNCHANGED lost
  <2>1. tasks' \cup rows' = tasks \cup rows
    BY <1>2 DEF Write
  <2>2. Untouched(o)
    BY <1>1, <1>2, <2>1 DEF Untouched, Logged
  <2> QED
    BY <2>2, UntouchedKeeps
<1>3. CASE lost' = lost \cup {t.request} /\ UNCHANGED rows
  <2>1. CASE o # t.request
    <3>1. Logged(o)' = Logged(o)
      BY <1>3, <2>1 DEF Write, Logged
    <3> QED
      BY <1>1, <1>3, <2>1, <3>1, UntouchedKeeps DEF Untouched
  <2>2. CASE o = t.request
    <3>1. t \in Logged(o) /\ Logged(o)' \subseteq Logged(o)
      BY <1>3, <2>2 DEF Write, Logged
    <3>2. step[o] \notin Before \cup After \cup {"new", "body", "upstream"}
      BY <3>1, NothingDueBefore DEF Write, LoopFree
    <3>3. step[o] \in Ended
      BY <3>2 DEF TypeOK, Before, After, Waiting
    <3>4. Due(o)' = Due(o)
      BY <1>1, DueIs
    <3>5. LogFollows(o)'
      BY <1>1, <1>3, <2>2, <3>1, <3>3, <3>4 DEF LogFollows, Ended
    <3> QED
      BY <1>1, <3>5 DEF ReportsFollow
  <2> QED
    BY <2>1, <2>2
<1> QED
  BY <1>2, <1>3 DEF Write

LEMMA CrashKeeps ==
  ASSUME TypeOK, Crash, NEW o \in Requests, LogFollows(o), ReportsFollow(o)
  PROVE  LogFollows(o)' /\ ReportsFollow(o)'
<1>1. /\ UNCHANGED <<answer, sent, announced, rows>> /\ tasks' = {}
      /\ lost' = lost \cup {t.request : t \in tasks}
      /\ step'[o] = IF step[o] \in {"new"} \cup Ended THEN step[o] ELSE "aborted"
  BY DEF Crash, reports
<1>0. /\ o \in succeeded' => o \in succeeded \/ step[o] = "record_success"
      /\ o \in failed' => o \in failed \/ step[o] = "record_failure"
      /\ succeeded \subseteq succeeded' /\ failed \subseteq failed'
  BY DEF Crash, reports
<1>2. Logged(o)' \subseteq Logged(o)
  BY <1>1 DEF Logged
<1>3. o \notin lost' => o \notin lost /\ Logged(o)' = Logged(o)
  BY <1>1 DEF Logged
<1>4. ReportsFollow(o)'
  <2>1. CASE step[o] \in {"new"} \cup Ended
    <3>1. /\ step'[o] = step[o]
          /\ o \in succeeded' <=> o \in succeeded
          /\ o \in failed' <=> o \in failed
      BY <1>0, <1>1, <2>1 DEF Ended
    <3> QED
      BY <1>1, <3>1 DEF ReportsFollow
  <2>2. CASE step[o] \notin {"new"} \cup Ended
    <3>1. step'[o] = "aborted" /\ answer[o] = "none"
      BY <1>1, <2>2 DEF ReportsFollow, Ended
    <3> QED
      BY <1>1, <3>1 DEF ReportsFollow, Before
  <2> QED
    BY <2>1, <2>2
<1>5. CASE step[o] \in {"new"} \cup Ended
  <2>0. step'[o] = step[o]
    BY <1>1, <1>5
  <2>1. Due(o)' = Due(o) /\ step'[o] = step[o]
    BY <1>1, <2>0, DueIs
  <2>2. step[o] = "new" => o \notin lost'
    <3> SUFFICES ASSUME step[o] = "new" PROVE o \notin lost'
      OBVIOUS
    <3>1. o \notin lost /\ Logged(o) = {}
      BY NothingDueBefore DEF LogFollows, Ended
    <3> QED
      BY <1>1, <3>1 DEF Logged
  <2>3. LogFollows(o)'
    BY <1>2, <1>3, <1>5, <2>1, <2>2 DEF LogFollows
  <2> QED
    BY <1>4, <2>3
<1>6. CASE step[o] \notin {"new"} \cup Ended
  <2>1. step'[o] = "aborted"
    BY <1>1, <1>6
  <2>2. Due(o) \subseteq Due(o)'
    BY <1>1, <2>1, DueIs
  <2>3. LogFollows(o)'
    BY <1>2, <2>1, <2>2 DEF LogFollows, Ended
  <2> QED
    BY <1>4, <2>3
<1> QED
  BY <1>5, <1>6

\* Log, reports and answers agree about every request after every step.
LEMMA FollowsStep ==
  ASSUME TypeOK, \A q \in Requests : LogFollows(q) /\ ReportsFollow(q), [Next]_vars
  PROVE  \A q \in Requests : LogFollows(q)' /\ ReportsFollow(q)'
<1>1. ASSUME NEW q \in Requests, Arrive(q) \/ OnLoop(q) \/ Awaited(q),
             NEW o \in Requests
      PROVE  LogFollows(o)' /\ ReportsFollow(o)'
  <2>1. CASE o = q
    BY <1>1, <2>1, OwnStep
  <2>2. CASE o # q
    BY <1>1, <2>2, OthersUntouched, UntouchedKeeps
  <2> QED
    BY <2>1, <2>2
<1>2. ASSUME Tick \/ UNCHANGED vars, NEW o \in Requests
      PROVE  LogFollows(o)' /\ ReportsFollow(o)'
  <2>1. UNCHANGED <<requests, reports, log>>
    BY <1>2 DEF Tick, vars
  <2>2. Untouched(o)
    BY <2>1, Unlogged DEF Untouched, requests, reports, log
  <2> QED
    BY <2>2, UntouchedKeeps
<1> QED
  BY <1>1, <1>2, WriteKeeps, CrashKeeps DEF Next

-----------------------------------------------------------------------------
\* The circuit and the log.

LEMMA ExplainsForGood ==
  ASSUME TypeOK, [Next]_vars,
         NEW q \in Requests, LogFollows(q), ReportsFollow(q), Explains(q)
  PROVE  Explains(q)'
<1>1. ASSUME NEW p \in Requests, Arrive(p) \/ OnLoop(p) \/ Awaited(p) PROVE Explains(q)'
  <2>1. CASE p # q
    <3>1. Untouched(q)
      BY <1>1, <2>1, OthersUntouched
    <3> QED
      BY <3>1 DEF Untouched, Explains
  <2>2. CASE p = q
    <3>1. step[q] \notin Ended
      BY <1>1, <2>2 DEF Arrive, OnLoop, Awaited, RateLimitStep, CircuitBreakerStep,
         RecordSuccess, Forwarded, BuildResponse, RecordFailure, Blocked,
         ReadBody, UpstreamAnswers, Ended
    <3>2. answer[q] = "none" /\ q \notin lost
      BY <3>1 DEF ReportsFollow, LogFollows, Ended
    <3>3. \A t \in Logged(q) : t.blocked_by # "upstream_error"
      BY <3>2, DueIs DEF LogFollows, Entry
    <3>4. step[q] = "emit_blocked"
      BY <3>1, <3>2, <3>3 DEF Explains, Ended
    <3>5. Blocked(q)
      BY <1>1, <2>2, <3>4 DEF Arrive, OnLoop, Awaited, RateLimitStep, CircuitBreakerStep,
         RecordSuccess, Forwarded, BuildResponse, RecordFailure,
         ReadBody, UpstreamAnswers
    <3>6. Entry(q, "502", "upstream_error") \in Logged(q)'
      BY <3>5, Emitted DEF Blocked, Reject, EmitBlocked
    <3> QED
      BY <3>6 DEF Explains, Entry
  <2> QED
    BY <2>1, <2>2
<1>2. ASSUME NEW t \in tasks, Write(t) PROVE Explains(q)'
  BY <1>2 DEF Write, Explains, Logged, requests
<1>3. CASE Crash
  <2>1. step[q] \in {"aborted", "emit_blocked"} => step'[q] = "aborted"
    BY <1>3 DEF Crash, Ended
  <2> QED
    BY <1>3, <2>1 DEF Crash, Explains, Logged
<1>4. CASE Tick \/ UNCHANGED vars
  BY <1>4 DEF Tick, vars, requests, log, Explains, Logged
<1> QED
  BY <1>1, <1>2, <1>3, <1>4 DEF Next

\* A move of the keys that counts no failure ...
QuietMove ==
    \/ Breaker!Pass \/ Breaker!Refuse \/ Breaker!Succeed
    \/ Breaker!TornSucceed \/ Breaker!Tick \/ UNCHANGED keys

\* ... and a request whose failure is counted.
Failing(q) ==
    /\ step[q] = "record_failure"
    /\ step'[q] \in {"emit_blocked", "aborted"} \/ answer'[q] = "500"
    /\ Breaker!Fail \/ Breaker!TornFail

LEMMA WhoFails == TypeOK /\ [Next]_vars => QuietMove \/ \E q \in Requests : Failing(q)
<1> SUFFICES ASSUME TypeOK, [Next]_vars
             PROVE  QuietMove \/ \E q \in Requests : Failing(q)
  OBVIOUS
<1>1. ASSUME NEW q \in Requests, RecordFailure(q) PROVE QuietMove \/ Failing(q)
  BY <1>1 DEF RecordFailure, Failing, Raise, Respond, Goto, TypeOK, QuietMove
<1>2. CASE Crash
  BY <1>2 DEF Crash, Failing, QuietMove, Ended
<1>3. ASSUME NEW q \in Requests, Arrive(q) \/ OnLoop(q) \/ Awaited(q), ~RecordFailure(q)
      PROVE  QuietMove
  BY <1>3 DEF Arrive, OnLoop, Awaited, RateLimitStep, CircuitBreakerStep, RecordSuccess,
     Forwarded, BuildResponse, Blocked, ReadBody, UpstreamAnswers, QuietMove, keys
<1>4. CASE (\E t \in tasks : Write(t)) \/ Tick \/ UNCHANGED vars
  BY <1>4 DEF Write, Tick, vars, QuietMove, keys
<1> QED
  BY <1>1, <1>2, <1>3, <1>4 DEF Next

LEMMA ExplainersFinite ==
  /\ IsFiniteSet(Explainers) /\ Cardinality(Explainers) \in Nat
  /\ IsFiniteSet(Explainers') /\ Cardinality(Explainers') \in Nat
<1>1. Explainers \subseteq Requests /\ Explainers' \subseteq Requests
  BY DEF Explainers
<1> QED
  BY <1>1, ConstantsAssumption, FS_Subset, FS_CardinalityType

LEMMA BackedStep ==
  ASSUME IInv, [Next]_vars
  PROVE  failures' <= Cardinality(Explainers') /\ OpenIsInTheLog'
<1>1. Explainers \subseteq Explainers'
  BY ExplainsForGood DEF IInv, Explainers
<1>2. Cardinality(Explainers) <= Cardinality(Explainers')
  BY <1>1, ExplainersFinite, FS_Subset
<1>3. /\ failures \in 0..FailureCap /\ FailureCap \in Nat /\ Threshold \in Nat
      /\ failures <= Cardinality(Explainers)
      /\ state # "CLOSED" => Cardinality(Explainers) >= Threshold
  BY ConstantsAssumption DEF IInv, TypeOK, OpenIsInTheLog
<1>4. CASE QuietMove
  <2>1. failures' \in {failures, 0} /\ (state' # "CLOSED" => state # "CLOSED")
    BY <1>4 DEF QuietMove, Breaker!Pass, Breaker!Refuse, Breaker!Succeed,
       Breaker!TornSucceed, Breaker!Tick, Breaker!keys, keys
  <2> QED
    BY <1>2, <1>3, <2>1, ExplainersFinite DEF OpenIsInTheLog
<1>5. ASSUME NEW q \in Requests, Failing(q)
      PROVE  failures' <= Cardinality(Explainers') /\ OpenIsInTheLog'
  <2>1. q \notin Explainers
    <3>1. answer[q] = "none" /\ q \notin lost
      BY <1>5 DEF IInv, LogFollows, ReportsFollow, Failing, Ended
    <3>2. \A t \in Logged(q) : t.blocked_by # "upstream_error"
      BY <3>1, DueIs DEF IInv, LogFollows, Entry
    <3> QED
      BY <1>5, <3>1, <3>2 DEF Explainers, Explains, Failing
  <2>2. q \in Explainers'
    BY <1>5 DEF Explainers, Explains, Failing
  <2>3. Cardinality(Explainers \cup {q}) = Cardinality(Explainers) + 1
    BY <2>1, ExplainersFinite, FS_AddElement
  <2>4. Explainers \cup {q} \subseteq Explainers'
    BY <1>1, <2>2
  <2>5. Cardinality(Explainers) + 1 <= Cardinality(Explainers')
    BY <2>3, <2>4, ExplainersFinite, FS_Subset
  <2>6. /\ failures' <= failures + 1
        /\ state' # "CLOSED" => state # "CLOSED" \/ failures' >= Threshold
    BY <1>3, <1>5 DEF Failing, Breaker!Fail, Breaker!FailBy, Breaker!TornFail,
       Breaker!TornFailBy, Breaker!CountUp, Breaker!Trips
  <2>7. failures' \in Nat
    BY <1>3, <1>5 DEF Failing, Breaker!Fail, Breaker!FailBy, Breaker!TornFail,
       Breaker!TornFailBy, Breaker!CountUp
  <2> QED
    BY <1>3, <2>5, <2>6, <2>7, ExplainersFinite DEF OpenIsInTheLog
<1> QED
  BY <1>4, <1>5, WhoFails DEF IInv

-----------------------------------------------------------------------------
\* All of it together.

\* Every reachable state satisfies the inductive invariant: log, reports and
\* answers agree about every request.
THEOREM InductiveInvariant == Spec => []IInv
<1>1. Init => IInv
  <2> SUFFICES ASSUME Init PROVE IInv
    OBVIOUS
  <2>1. ASSUME NEW q \in Requests PROVE LogFollows(q) /\ ReportsFollow(q)
    <3>1. step[q] = "new" /\ answer[q] = "none" /\ Logged(q) = {}
      BY DEF Init, Logged
    <3>2. ReportsFollow(q)
      BY <3>1 DEF Init, ReportsFollow
    <3>3. Due(q) = {}
      BY <3>1, DueIs DEF Init
    <3> QED
      BY <3>1, <3>2, <3>3 DEF Init, LogFollows
  <2>2. failures = 0 /\ state = "CLOSED"
    BY DEF Init, Breaker!InitKeys
  <2> QED
    BY <2>1, <2>2, InitType, ExplainersFinite DEF IInv, OpenIsInTheLog
<1>2. IInv /\ [Next]_vars => IInv'
  BY TypeStep, FollowsStep, BackedStep DEF IInv
<1> QED
  BY <1>1, <1>2, PTL DEF Spec

\* However requests interleave and whatever fails, an answered request has exactly
\* one log entry, with its client's status, or none if that is a bare 500; all but
\* those whose upstream's answer was not passed on or whose write was lost.
THEOREM LogAgreesWithAnswers == Spec => []OneEntryPerAnswer
<1>1. IInv => OneEntryPerAnswer
  <2> SUFFICES ASSUME IInv, NEW q \in Requests,
                      step[q] = "done", ~Undelivered(q), q \notin lost
               PROVE  IF answer[q] = "500" THEN Logged(q) = {}
                      ELSE \E t \in Logged(q) : Logged(q) = {t} /\ t.status = answer[q]
    BY DEF OneEntryPerAnswer
  <2>1. /\ Logged(q) = Due(q) /\ ReportsFollow(q)
        /\ answer[q] \in Statuses
    BY DEF IInv, TypeOK, LogFollows, ReportsFollow
  <2>2. CASE answer[q] = "ok"
    <3>1. Logged(q) = {Entry(q, "ok", "none")}
      BY <2>1, <2>2, DueIs DEF ReportsFollow
    <3> QED
      BY <2>2, <3>1 DEF Entry
  <2>3. CASE answer[q] # "ok"
    <3>1. q \notin announced
      BY <2>3 DEF Undelivered
    <3>2. CASE answer[q] = "429"
      <4>1. Logged(q) = {Entry(q, "429", "rate_limit")}
        BY <2>1, <3>1, <3>2, DueIs
      <4> QED
        BY <3>2, <4>1 DEF Entry
    <3>3. CASE answer[q] = "503"
      <4>1. Logged(q) = {Entry(q, "503", "circuit_breaker")}
        BY <2>1, <3>1, <3>3, DueIs
      <4> QED
        BY <3>3, <4>1 DEF Entry
    <3>4. CASE answer[q] = "502"
      <4>1. Logged(q) = {Entry(q, "502", "upstream_error")}
        BY <2>1, <3>1, <3>4, DueIs
      <4> QED
        BY <3>4, <4>1 DEF Entry
    <3>5. CASE answer[q] = "500"
      BY <2>1, <3>1, <3>5, DueIs
    <3> QED
      BY <2>1, <2>3, <3>2, <3>3, <3>4, <3>5 DEF Statuses
  <2> QED
    BY <2>2, <2>3
<1> QED
  BY <1>1, InductiveInvariant, PTL

\* What the log calls rejected by the limiter or the circuit never reached the
\* upstream.
THEOREM RejectionsHold == Spec => []RejectedNeverSent
<1>1. IInv => RejectedNeverSent
  <2> SUFFICES ASSUME IInv, NEW t \in tasks \cup rows,
                      t.blocked_by \in {"rate_limit", "circuit_breaker"}
               PROVE  t.request \notin sent /\ step[t.request] \in Ended
    BY DEF RejectedNeverSent
  <2> DEFINE q == t.request
  <2>1. q \in Requests /\ t \in Logged(q)
    BY DEF IInv, TypeOK, Rows, Logged
  <2>2. LogFollows(q) /\ ReportsFollow(q)
    BY <2>1 DEF IInv
  <2>3. t \in Due(q)
    BY <2>1, <2>2 DEF LogFollows
  <2>4. answer[q] \in {"429", "503"}
    BY <2>1, <2>3, DueIs DEF Entry
  <2> QED
    BY <2>2, <2>4 DEF ReportsFollow, Ended
<1> QED
  BY <1>1, InductiveInvariant, PTL

\* The circuit breaker has heard of every request what its client was told, also
\* where a report took effect and raised.
THEOREM ReportsMatch == Spec => []ReportsMatchAnswers
<1>1. IInv => ReportsMatchAnswers
  BY DEF IInv, ReportsFollow, ReportsMatchAnswers
<1> QED
  BY <1>1, InductiveInvariant, PTL

\* A circuit that is not CLOSED is backed by a threshold of requests that the log
\* shows, or whose loss it can be told from, whatever cut a method short.
THEOREM TripsExplained == Spec => []OpenIsInTheLog
<1>1. IInv => OpenIsInTheLog
  BY DEF IInv
<1> QED
  BY <1>1, InductiveInvariant, PTL
=============================================================================
