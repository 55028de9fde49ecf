------------------------- MODULE CircuitBreakerProofs -------------------------
(***************************************************************************)
(* Proofs about CircuitBreaker for one process, any number of requests,    *)
(* any threshold and recovery time, and every kind of fault: a crash or a  *)
(* Redis error between any two commands never leaves an OPEN circuit       *)
(* without the deadline that lets it recover, and never lets a probe       *)
(* through before the recovery time.  With several processes the deadline  *)
(* may go missing; it is never later than the latest trip says.            *)
(***************************************************************************)
EXTENDS CircuitBreaker, FiniteSetTheorems, TLAPS

\* A step keeps every variable in its type.
LEMMA TypeStep == TypeOK /\ [Next]_vars => TypeOK'
<1> SUFFICES ASSUME TypeOK, [Next]_vars PROVE TypeOK'
  OBVIOUS
<1>0. \A n \in 0..FailureCap : CountUp(n) \in 0..FailureCap
  BY ConstantsAssumption DEF CountUp
<1>1. ASSUME Tick PROVE TypeOK'
  <2>1. /\ opensAt' \in 0..Recovery \cup {NoDeadline}
        /\ sinceTrip' \in 0..Recovery
    BY <1>1, ConstantsAssumption DEF TypeOK, Tick, NoDeadline
  <2>2. UNCHANGED <<state, failures, up, pc, seen, sentUp, streak, everDown, strays>>
    BY <1>1 DEF Tick
  <2> QED
    BY <2>1, <2>2 DEF TypeOK
<1>a. /\ Threshold \in Nat \ {0} /\ FailureCap \in Nat /\ Recovery \in Nat \ {0}
      /\ 0 \in 0..Threshold
  BY ConstantsAssumption
<1>b. Strays => strays' \in 0..Threshold
  BY <1>a DEF Strays, TypeOK
<1> USE <1>a, <1>b
        DEF TypeOK, breaker, history, Goto, Forward, OnLoop, InCanRequest,
            InSuccess, InFailure, States
<1>2. CASE UpstreamFails \/ UpstreamRecovers
  BY <1>2 DEF UpstreamFails, UpstreamRecovers
<1>3. ASSUME NEW q \in Requests, Arrive(q) PROVE TypeOK'
  BY <1>3 DEF Arrive
<1>4. ASSUME NEW q \in Requests, Answer(q) PROVE TypeOK'
  BY <1>4 DEF Answer
<1>5. ASSUME NEW q \in Requests, CanRequest(q) PROVE TypeOK'
  BY <1>5 DEF CanRequest
<1>6. ASSUME NEW q \in Requests, Deadline(q) \/ HalfOpen(q) PROVE TypeOK'
  BY <1>6 DEF Deadline, HalfOpen
<1>7. ASSUME NEW q \in Requests, Success(q) \/ Close(q) PROVE TypeOK'
  BY <1>7 DEF Success, Close
<1>8. ASSUME NEW q \in Requests, ClearFailures(q) \/ ClearDeadline(q) PROVE TypeOK'
  BY <1>8 DEF ClearFailures, ClearDeadline, Cleared
<1>9. ASSUME NEW q \in Requests, Respond(q) PROVE TypeOK'
  BY <1>9 DEF Respond, AfterResponse
<1>10. ASSUME NEW q \in Requests, Failure(q) PROVE TypeOK'
  BY <1>10 DEF Failure
<1>11. ASSUME NEW q \in Requests, Incr(q) PROVE TypeOK'
  BY <1>0, <1>11 DEF Incr, TripBegins
<1>12. ASSUME NEW q \in Requests, SetDeadline(q) \/ Open(q) PROVE TypeOK'
  BY <1>12 DEF SetDeadline, NewDeadline, Open
<1>13. ASSUME NEW q \in Requests, RedisError(q) PROVE TypeOK'
  BY <1>13 DEF RedisError
<1>14. ASSUME NEW p \in Procs, Crash(p) PROVE TypeOK'
  BY <1>14 DEF Crash
<1>15. CASE UNCHANGED vars
  BY <1>15 DEF vars
<1> QED
  BY <1>1, <1>2, <1>3, <1>4, <1>5, <1>6, <1>7, <1>8, <1>9, <1>10, <1>11,
     <1>12, <1>13, <1>14, <1>15 DEF Next, Step, Usual, Handle

\* The circuit is in one of its three states and its counters are in range,
\* for any number of processes and whatever fails ("state mutations are always
\* consistent", class comment).
THEOREM TypeCorrect == Spec => []TypeOK
<1>1. Init => TypeOK
  BY ConstantsAssumption DEF Init, TypeOK, States, OnLoop, NoDeadline
<1> QED
  BY <1>1, TypeStep, PTL DEF Spec

-----------------------------------------------------------------------------
\* The inductive invariant.

\* Two requests are never on the loop together: one enters it only when it is
\* free, and the steps in it are the steps of one request.
LEMMA ExclusiveStep ==
  ASSUME OneProcess, TypeOK, Exclusive, [Next]_vars
  PROVE  Exclusive'
<1> USE DEF TypeOK, Exclusive
<1>1. ASSUME NEW q \in Requests, Arrive(q) \/ Answer(q) PROVE Exclusive'
  <2>1. \A r \in Requests : pc[r] \notin OnLoop
    BY <1>1 DEF Arrive, Answer, LoopFree, OneProcess
  <2>2. \A r \in Requests \ {q} : pc'[r] = pc[r]
    BY <1>1 DEF Arrive, Answer, Goto
  <2> QED
    BY <2>1, <2>2
<1>2. ASSUME NEW q \in Requests, pc[q] \in OnLoop,
             \A r \in Requests \ {q} : pc'[r] = pc[r]
      PROVE  Exclusive'
  BY <1>2
<1>3. ASSUME UNCHANGED pc PROVE Exclusive'
  BY <1>3
<1>4. ASSUME NEW q \in Requests, Handle(q) \/ RedisError(q) PROVE Exclusive'
  <2>1. pc[q] \in OnLoop
    BY <1>4 DEF Handle, RedisError, CanRequest, Deadline, HalfOpen, Success,
        Close, ClearFailures, ClearDeadline, Respond, Failure, Incr,
        SetDeadline, Open, OnLoop, InCanRequest, InSuccess, InFailure
  <2>2. \A r \in Requests \ {q} : pc'[r] = pc[r]
    BY <1>4 DEF Handle, RedisError, CanRequest, Deadline, HalfOpen, Success,
        Close, ClearFailures, ClearDeadline, Respond, Failure, Incr,
        SetDeadline, Open, Goto, Forward
  <2> QED
    BY <1>2, <2>1, <2>2
<1>5. ASSUME NEW p \in Procs, Crash(p) PROVE Exclusive'
  <2>1. \A r \in Requests : pc'[r] \in OnLoop => pc[r] \in OnLoop
    BY <1>5 DEF Crash, OnLoop, InCanRequest, InSuccess, InFailure
  <2> QED
    BY <2>1
<1>6. CASE Tick \/ UpstreamFails \/ UpstreamRecovers \/ UNCHANGED vars
  BY <1>3, <1>6 DEF Tick, UpstreamFails, UpstreamRecovers, vars
<1> QED
  BY <1>1, <1>4, <1>5, <1>6 DEF Next, Step, Usual

\* Nobody comes between the commands of a request on the loop.
LEMMA UninterruptedStep ==
  ASSUME TypeOK, Exclusive, Uninterrupted, [Next]_vars
  PROVE  Uninterrupted'
<1> USE DEF TypeOK, Uninterrupted
<1>1. ASSUME NEW q \in Requests, Arrive(q) \/ Answer(q) PROVE Uninterrupted'
  BY <1>1 DEF Arrive, Answer, Goto, breaker
<1>2. ASSUME NEW q \in Requests, Handle(q) \/ RedisError(q) PROVE Uninterrupted'
  <2>1. pc[q] \in OnLoop
    BY <1>2 DEF Handle, RedisError, CanRequest, Deadline, HalfOpen, Success,
        Close, ClearFailures, ClearDeadline, Respond, Failure, Incr,
        SetDeadline, Open, OnLoop, InCanRequest, InSuccess, InFailure
  <2>2. \A r \in Requests \ {q} : pc'[r] = pc[r] /\ pc'[r] \notin OnLoop
    BY <1>2, <2>1 DEF Exclusive, Handle, RedisError, CanRequest, Deadline,
        HalfOpen, Success, Close, ClearFailures, ClearDeadline, Respond, Failure,
        Incr, SetDeadline, Open, Goto, Forward
  <2>3. \A r \in Requests \ {q} : pc'[r] \notin {"incr", "clear_deadline"}
    BY <2>2 DEF OnLoop, InSuccess, InFailure
  <2>4. pc'[q] = "incr" => seen'[q] = state'
    BY <1>2 DEF Handle, RedisError, CanRequest, Deadline, HalfOpen, Success,
        Close, ClearFailures, ClearDeadline, Respond, AfterResponse, Failure,
        Incr, TripBegins, SetDeadline, Open, Goto, Forward, breaker
  <2>5. pc'[q] = "clear_deadline" => failures' = 0
    BY <1>2 DEF Handle, RedisError, CanRequest, Deadline, HalfOpen, Success,
        Close, ClearFailures, Cleared, ClearDeadline, Respond, AfterResponse,
        Failure, Incr, TripBegins, SetDeadline, Open, Goto, Forward
  <2> QED
    BY <2>3, <2>4, <2>5
<1>3. ASSUME NEW p \in Procs, Crash(p) PROVE Uninterrupted'
  BY <1>3 DEF Crash, breaker
<1>4. CASE Tick \/ UpstreamFails \/ UpstreamRecovers \/ UNCHANGED vars
  BY <1>4 DEF Tick, UpstreamFails, UpstreamRecovers, breaker, vars
<1> QED
  BY <1>1, <1>2, <1>3, <1>4 DEF Next, Step, Usual

\* The places where Midway says something.
Bound == {"deadline", "half_open", "open", "clear_failures", "clear_deadline"}

\* What a step that touches neither the breaker's keys nor the clock keeps:
\* all it can disturb is where its own request stands.
LEMMA KeysUntouched ==
  ASSUME IInv, TypeOK', Exclusive', Uninterrupted', UNCHANGED <<state, opensAt, sinceTrip>>,
         \A q \in Requests : pc'[q] = pc[q]
             \/ pc'[q] \notin Bound
             \/ Midway(q)'
  PROVE  IInv'
<1>1. DeadlineCounts' /\ OpenHasDeadline'
  BY DEF IInv, DeadlineCounts, OpenHasDeadline
<1>2. \A q \in Requests : Midway(q)'
  BY DEF IInv, Midway, Bound
<1> QED
  BY <1>1, <1>2 DEF IInv

LEMMA InductiveStep == OneProcess /\ IInv /\ [Next]_vars => IInv'
<1> SUFFICES ASSUME OneProcess, IInv, [Next]_vars PROVE IInv'
  OBVIOUS
<1> USE ConstantsAssumption
<1>0. TypeOK' /\ Exclusive' /\ Uninterrupted'
  BY TypeStep, ExclusiveStep, UninterruptedStep DEF IInv
<1>a. TypeOK /\ Exclusive
  BY DEF IInv
\* The request on the loop is alone there.
<1>b. ASSUME NEW q \in Requests, pc[q] \in OnLoop, NEW r \in Requests, r # q
      PROVE  pc[r] \notin Bound
  BY <1>a, <1>b DEF Bound, Exclusive, OnLoop, InCanRequest, InSuccess, InFailure
<1>1. CASE Tick
  <2>1. /\ UNCHANGED <<state, pc>>
        /\ opensAt' = IF opensAt > 0 THEN opensAt - 1 ELSE opensAt
        /\ sinceTrip' = IF sinceTrip < Recovery THEN sinceTrip + 1 ELSE sinceTrip
    BY <1>1 DEF Tick
  <2>2. opensAt \in 0..Recovery \cup {NoDeadline} /\ sinceTrip \in 0..Recovery
    BY <1>a DEF TypeOK
  <2>3. DeadlineCounts'
    BY <2>1, <2>2 DEF IInv, DeadlineCounts, NoDeadline
  <2>4. opensAt # NoDeadline => opensAt' # NoDeadline
    BY <2>1, <2>2 DEF NoDeadline
  <2>5. OpenHasDeadline'
    BY <2>1, <2>4 DEF IInv, OpenHasDeadline
  <2>6. sinceTrip = Recovery => sinceTrip' = Recovery
    BY <2>1, <2>2
  <2>7. \A q \in Requests : Midway(q)'
    BY <2>1, <2>4, <2>6 DEF IInv, Midway
  <2> QED
    BY <1>0, <2>3, <2>5, <2>7 DEF IInv
<1>2. CASE UpstreamFails \/ UpstreamRecovers
  BY <1>0, <1>2, KeysUntouched DEF UpstreamFails, UpstreamRecovers, breaker, history
<1>3. ASSUME NEW q \in Requests, Arrive(q) \/ Answer(q) \/ Respond(q)
             \/ Failure(q) \/ RedisError(q)
      PROVE  IInv'
  <2>1. UNCHANGED <<state, opensAt, sinceTrip>>
    BY <1>3 DEF Arrive, Answer, Respond, Failure, RedisError, breaker, history
  <2>2. \A r \in Requests : pc'[r] = pc[r] \/ pc'[r] \notin Bound
    BY <1>3, <1>a DEF TypeOK, Arrive, Answer, Respond,
        AfterResponse, Failure, RedisError, Goto, Bound
  <2> QED
    BY <1>0, <2>1, <2>2, KeysUntouched
<1>4. ASSUME NEW q \in Requests, CanRequest(q) PROVE IInv'
  <2>1. UNCHANGED <<state, opensAt, sinceTrip>>
    BY <1>4 DEF CanRequest, breaker, history
  <2>2. \A r \in Requests \ {q} : pc'[r] = pc[r]
    BY <1>4, <1>a DEF TypeOK, CanRequest, Goto, Forward
  <2>3. pc'[q] = IF state = "OPEN" THEN "deadline" ELSE "awaiting"
    BY <1>4, <1>a DEF TypeOK, CanRequest, Goto, Forward
  <2>4. pc'[q] \notin Bound \/ Midway(q)'
    BY <2>1, <2>3 DEF Midway, Bound
  <2> QED
    BY <1>0, <2>1, <2>2, <2>4, KeysUntouched
<1>5. ASSUME NEW q \in Requests, Deadline(q) PROVE IInv'
  <2>1. UNCHANGED <<state, opensAt, sinceTrip>>
    BY <1>5 DEF Deadline, breaker, history
  <2>2. \A r \in Requests \ {q} : pc'[r] = pc[r]
    BY <1>5, <1>a DEF TypeOK, Deadline, Goto
  <2>3. pc'[q] = IF Elapsed THEN "half_open" ELSE "idle"
    BY <1>5, <1>a DEF TypeOK, Deadline, Goto
  <2>4. opensAt # NoDeadline
    BY <1>5 DEF IInv, Midway, Deadline, OpenHasDeadline
  <2>5. Elapsed => sinceTrip = Recovery
    BY <1>a, <2>4 DEF TypeOK, IInv, DeadlineCounts, Elapsed, NoDeadline
  <2>6. pc'[q] \notin Bound \/ Midway(q)'
    BY <2>1, <2>3, <2>5 DEF Midway, Bound
  <2> QED
    BY <1>0, <2>1, <2>2, <2>6, KeysUntouched
<1>6. ASSUME NEW q \in Requests, HalfOpen(q) PROVE IInv'
  <2>1. /\ state' = "HALF_OPEN" /\ UNCHANGED <<opensAt, sinceTrip>>
        /\ pc' = [pc EXCEPT ![q] = "awaiting"] /\ pc[q] = "half_open"
    BY <1>6 DEF HalfOpen, Forward, Goto, history
  <2>2. \A r \in Requests : pc'[r] \notin Bound
    BY <1>a, <1>b, <2>1 DEF TypeOK, Bound, OnLoop, InCanRequest
  <2> QED
    BY <1>0, <2>1, <2>2 DEF IInv, DeadlineCounts, OpenHasDeadline, Midway, Bound
<1>7. ASSUME NEW q \in Requests, Success(q) PROVE IInv'
  <2>1. UNCHANGED <<state, opensAt, sinceTrip>>
    BY <1>7 DEF Success, breaker
  <2>2. \A r \in Requests : pc'[r] = pc[r] \/ pc'[r] \notin Bound
    BY <1>7, <1>a DEF TypeOK, Success, Goto, Bound
  <2> QED
    BY <1>0, <2>1, <2>2, KeysUntouched
<1>8. ASSUME NEW q \in Requests, Close(q) PROVE IInv'
  <2>1. /\ state' = "CLOSED" /\ UNCHANGED <<opensAt, sinceTrip>>
        /\ pc' = [pc EXCEPT ![q] = "clear_failures"] /\ pc[q] = "close"
    BY <1>8 DEF Close, Goto, history
  <2>2. \A r \in Requests \ {q} : pc'[r] \notin Bound
    BY <1>a, <1>b, <2>1 DEF TypeOK, OnLoop, InSuccess
  <2>3. pc'[q] = "clear_failures"
    BY <1>a, <2>1 DEF TypeOK
  <2> QED
    BY <1>0, <2>1, <2>2, <2>3 DEF IInv, DeadlineCounts, OpenHasDeadline, Midway, Bound
<1>9. ASSUME NEW q \in Requests, ClearFailures(q) PROVE IInv'
  <2>1. UNCHANGED <<state, opensAt, sinceTrip>>
    BY <1>9 DEF ClearFailures, history
  <2>2. \A r \in Requests \ {q} : pc'[r] = pc[r]
    BY <1>9, <1>a DEF TypeOK, ClearFailures, Goto
  <2>3. pc'[q] = "clear_deadline" /\ state = "CLOSED"
    BY <1>9, <1>a DEF TypeOK, ClearFailures, Goto, IInv, Midway
  <2>4. Midway(q)'
    BY <2>1, <2>3 DEF Midway
  <2> QED
    BY <1>0, <2>1, <2>2, <2>4, KeysUntouched
<1>10. ASSUME NEW q \in Requests, ClearDeadline(q) PROVE IInv'
  <2>1. /\ opensAt' = NoDeadline /\ UNCHANGED <<state, sinceTrip>> /\ state = "CLOSED"
        /\ pc' = [pc EXCEPT ![q] = "respond"] /\ pc[q] = "clear_deadline"
    BY <1>10 DEF ClearDeadline, Goto, history, IInv, Midway
  <2>2. \A r \in Requests : pc'[r] \notin Bound
    BY <1>a, <1>b, <2>1 DEF TypeOK, Bound, OnLoop, InSuccess
  <2> QED
    BY <1>0, <2>1, <2>2 DEF IInv, DeadlineCounts, OpenHasDeadline, Midway, Bound
<1>11. ASSUME NEW q \in Requests, Incr(q) PROVE IInv'
  <2>1. UNCHANGED <<state, opensAt, sinceTrip>>
    BY <1>11 DEF Incr
  <2>2. \A r \in Requests : pc'[r] = pc[r] \/ pc'[r] \notin Bound
    BY <1>11, <1>a DEF TypeOK, Incr, TripBegins, Goto, Bound
  <2> QED
    BY <1>0, <2>1, <2>2, KeysUntouched
<1>12. ASSUME NEW q \in Requests, SetDeadline(q) PROVE IInv'
  <2>1. /\ opensAt' = Recovery /\ sinceTrip' = 0 /\ UNCHANGED state
        /\ pc' = [pc EXCEPT ![q] = "open"] /\ pc[q] = "set_deadline"
    BY <1>12 DEF SetDeadline, NewDeadline, Goto
  <2>2. \A r \in Requests \ {q} : pc'[r] \notin Bound
    BY <1>a, <1>b, <2>1 DEF TypeOK, OnLoop, InFailure
  <2>3. pc'[q] = "open" /\ opensAt' # NoDeadline
    BY <1>a, <2>1 DEF TypeOK, NoDeadline
  <2> QED
    BY <1>0, <2>1, <2>2, <2>3 DEF IInv, DeadlineCounts, OpenHasDeadline, Midway, Bound
<1>13. ASSUME NEW q \in Requests, Open(q) PROVE IInv'
  <2>1. /\ opensAt # NoDeadline /\ UNCHANGED <<opensAt, sinceTrip>>
        /\ pc' = [pc EXCEPT ![q] = "idle"] /\ pc[q] = "open"
    BY <1>13 DEF Open, Goto, history, IInv, Midway
  <2>2. \A r \in Requests : pc'[r] \notin Bound
    BY <1>a, <1>b, <2>1 DEF TypeOK, Bound, OnLoop, InFailure
  <2> QED
    BY <1>0, <2>1, <2>2 DEF IInv, DeadlineCounts, OpenHasDeadline, Midway, Bound
<1>14. ASSUME NEW p \in Procs, Crash(p) PROVE IInv'
  <2>1. UNCHANGED <<state, opensAt, sinceTrip>>
    BY <1>14 DEF Crash, breaker, history
  <2>2. \A r \in Requests : pc'[r] = pc[r] \/ pc'[r] \notin Bound
    BY <1>14 DEF Crash, Bound
  <2> QED
    BY <1>0, <2>1, <2>2, KeysUntouched
<1>15. CASE UNCHANGED vars
  BY <1>0, <1>15, KeysUntouched DEF vars
<1> QED
  BY <1>1, <1>2, <1>3, <1>4, <1>5, <1>6, <1>7, <1>8, <1>9, <1>10, <1>11,
     <1>12, <1>13, <1>14, <1>15 DEF Next, Step, Usual, Handle

LEMMA InitIInv == Init => IInv
<1>1. Init => TypeOK
  BY ConstantsAssumption DEF Init, TypeOK, States, OnLoop, NoDeadline
<1> QED
  BY <1>1 DEF Init, IInv, Exclusive, Uninterrupted, DeadlineCounts, OpenHasDeadline, Midway,
      OnLoop, InCanRequest, InSuccess, InFailure

\* In one process, whatever fails between two commands: the loop serves one
\* request, what it has read still holds at its next command, and an OPEN circuit
\* has the deadline that counts from the latest trip.
THEOREM InductiveInvariant == OneProcess => (Spec => []IInv)
<1> SUFFICES ASSUME OneProcess PROVE Spec => []IInv
  OBVIOUS
<1> QED
  BY InitIInv, InductiveStep, PTL DEF Spec

\* In one process an OPEN circuit always carries the deadline that lets it
\* recover, wherever crashes, Redis errors and late answers strike.
THEOREM OpenCarriesDeadline == OneProcess => (Spec => []OpenHasDeadline)
<1>1. IInv => OpenHasDeadline
  BY DEF IInv
<1> QED
  BY <1>1, InductiveInvariant, PTL

\* In one process no probe is let through before the recovery time after the
\* latest trip is over, under the same faults.
THEOREM ProbesWait == OneProcess => (Spec => HalfOpenWaits)
<1> SUFFICES ASSUME OneProcess PROVE Spec => HalfOpenWaits
  OBVIOUS
<1>1. IInv /\ [Next]_vars =>
        [state = "OPEN" /\ state' = "HALF_OPEN" => sinceTrip = Recovery]_vars
  <2> SUFFICES ASSUME IInv, [Next]_vars, state = "OPEN", state' = "HALF_OPEN"
               PROVE  sinceTrip = Recovery
    OBVIOUS
  <2>1. PICK q \in Requests : HalfOpen(q)
    BY DEF Next, Step, Usual, Handle, Tick, UpstreamFails, UpstreamRecovers, Arrive, Answer,
        CanRequest, Deadline, Success, Close, ClearFailures, ClearDeadline,
        Respond, Failure, Incr, SetDeadline, Open, RedisError, Crash, breaker, vars
  <2> QED
    BY <2>1 DEF HalfOpen, IInv, Midway
<1> QED
  BY <1>1, InductiveInvariant, PTL DEF Spec, HalfOpenWaits

-----------------------------------------------------------------------------
\* The methods are as good as atomic.

\* With q alone in the breaker, where q stands decides what the keys amount to.
LEMMA Alone ==
  ASSUME NEW q \in Requests, pc[q] \in OnLoop, Exclusive,
         \A r \in Requests \ {q} : pc'[r] = pc[r]
  PROVE  /\ Closing <=> pc[q] \in {"close", "clear_failures", "clear_deadline"}
         /\ Closing' <=> pc'[q] \in {"close", "clear_failures", "clear_deadline"}
         /\ Tripping <=> pc[q] = "set_deadline"
         /\ Tripping' <=> pc'[q] = "set_deadline"
         /\ Opening <=> pc[q] = "open"
         /\ Opening' <=> pc'[q] = "open"
         /\ Probing <=> pc[q] = "half_open"
         /\ Probing' <=> pc'[q] = "half_open"
<1>1. \A r \in Requests \ {q} : pc[r] \notin OnLoop /\ pc'[r] \notin OnLoop
  BY DEF Exclusive
<1> QED
  BY <1>1 DEF Closing, Tripping, Opening, Probing, OnLoop, InCanRequest,
      InSuccess, InFailure

\* Between requests the keys are what they say.
LEMMA Free ==
  ASSUME \A r \in Requests : pc[r] \notin OnLoop
  PROVE  ~Closing /\ ~Tripping /\ ~Opening /\ ~Probing
BY DEF Closing, Tripping, Opening, Probing, OnLoop, InCanRequest, InSuccess, InFailure

\* Where a step of q leaves the requests that were let through.
LEMMA Moves ==
  ASSUME TypeOK, NEW q \in Requests, NEW label, Goto(q, label)
  PROVE  /\ pc'[q] = label
         /\ \A r \in Requests \ {q} : pc'[r] = pc[r]
         /\ q \in Forwarded <=> pc[q] \notin Done
         /\ Forwarded' = IF label \in Done THEN Forwarded \ {q} ELSE Forwarded \cup {q}
<1>1. pc'[q] = label /\ \A r \in Requests \ {q} : pc'[r] = pc[r]
  BY DEF TypeOK, Goto
<1> QED
  BY <1>1 DEF Forwarded

\* A step is the one a method takes effect with, or it changes nothing of what the
\* methods amount to; and it counts in the history what it does to the keys.
LEMMA AtomicMove ==
  ASSUME OneProcess, NothingLost, IInv, [Next]_vars
  PROVE  \/ /\ UNCHANGED streak
            /\ \/ Atomic!Tick /\ UNCHANGED Forwarded
               \/ \E q \in Requests : Atomic!CanRequest(q) \/ Atomic!Leave(q)
               \/ UNCHANGED Atomic!vars
         \/ streak' = 0 /\ \E q \in Requests : Atomic!RecordSuccess(q)
         \/ /\ streak' = CountUp(streak)
            /\ \E q \in Requests : Atomic!RecordFailure(q)
<1> USE DEF Atomic!vars, Atomic!keys
<1>0. TypeOK /\ Exclusive
  BY DEF IInv
<1>1. CASE Tick
  <2>1. /\ UNCHANGED <<Closing, Tripping, Opening, Probing, Forwarded>>
        /\ UNCHANGED <<AtomicState, AtomicFailures>>
    BY <1>1 DEF Tick, Closing, Tripping, Opening, Probing, Forwarded, AtomicState,
        AtomicFailures
  <2>2. UNCHANGED AtomicDeadline \/ (AtomicDeadline > 0 /\ AtomicDeadline' = AtomicDeadline - 1)
    BY <1>1, <2>1 DEF Tick, AtomicDeadline
  <2>3. AtomicDeadline > 0 /\ AtomicDeadline' = AtomicDeadline - 1 => Atomic!Tick
    BY <2>1 DEF Atomic!Tick
  <2> QED
    BY <1>1, <2>1, <2>2, <2>3 DEF Tick
<1>2. ASSUME UpstreamFails \/ UpstreamRecovers PROVE UNCHANGED Atomic!vars
  BY <1>2 DEF UpstreamFails, UpstreamRecovers, breaker, Closing, Tripping, Opening,
      Probing, Forwarded, AtomicState, AtomicFailures, AtomicDeadline
<1>3. ASSUME NEW q \in Requests, Arrive(q) \/ Answer(q)
      PROVE  UNCHANGED Atomic!vars
  <2>1. \A r \in Requests : pc[r] \notin OnLoop
    BY <1>3 DEF Arrive, Answer, LoopFree, OneProcess
  <2>2. PICK label \in {"can_request", "success", "failure"} : Goto(q, label)
    BY <1>3 DEF Arrive, Answer
  <2>3. UNCHANGED breaker
    BY <1>3 DEF Arrive, Answer
  <2>4. label = "can_request" <=> pc[q] = "idle"
    BY <1>3, <1>0, <2>2, Moves DEF Arrive, Answer, TypeOK
  <2>5. UNCHANGED Forwarded
    BY <1>0, <1>3, <2>2, <2>4, Moves DEF Done, Arrive, Answer
  <2>6. ~Closing' /\ ~Tripping' /\ ~Opening' /\ ~Probing'
    BY <1>0, <2>1, <2>2, Moves DEF Closing, Tripping, Opening, Probing,
       OnLoop, InCanRequest, InSuccess, InFailure
  <2> QED
    BY <2>1, <2>3, <2>5, <2>6, Free
       DEF breaker, AtomicState, AtomicFailures, AtomicDeadline

<1>4. ASSUME NEW q \in Requests, CanRequest(q)
      PROVE  Atomic!CanRequest(q) \/ UNCHANGED Atomic!vars
  <2>1. pc[q] = "can_request" /\ pc[q] \in OnLoop
    BY <1>4 DEF CanRequest, OnLoop, InCanRequest
  <2>2. UNCHANGED breaker /\ Goto(q, IF state = "OPEN" THEN "deadline" ELSE "awaiting")
    BY <1>4 DEF CanRequest, Forward
  <2> QED
    BY <1>0, <2>1, <2>2, Alone, Moves
       DEF Atomic!CanRequest, Atomic!Pass, Atomic!Passable, AtomicState,
           AtomicFailures, AtomicDeadline, Done, breaker
<1>5. ASSUME NEW q \in Requests, Deadline(q)
      PROVE  Atomic!CanRequest(q) \/ UNCHANGED Atomic!vars
  <2>1. pc[q] = "deadline" /\ pc[q] \in OnLoop /\ state = "OPEN"
    BY <1>5 DEF Deadline, OnLoop, InCanRequest, IInv, Midway
  <2>2. UNCHANGED breaker /\ Goto(q, IF Elapsed THEN "half_open" ELSE "idle")
    BY <1>5 DEF Deadline
  <2> QED
    BY <1>0, <2>1, <2>2, Alone, Moves
       DEF Atomic!CanRequest, Atomic!Pass, Atomic!Passable, AtomicState,
           AtomicFailures, AtomicDeadline, Done, Elapsed, breaker
<1>6. ASSUME NEW q \in Requests, HalfOpen(q)
      PROVE  UNCHANGED Atomic!vars
  <2>1. pc[q] = "half_open" /\ pc[q] \in OnLoop /\ Goto(q, "awaiting")
    BY <1>6 DEF HalfOpen, Forward, OnLoop, InCanRequest
  <2> QED
    BY <1>0, <1>6, <2>1, Alone, Moves
       DEF HalfOpen, AtomicState, AtomicFailures, AtomicDeadline, Done
<1>7. ASSUME NEW q \in Requests, Success(q)
      PROVE  Atomic!RecordSuccess(q)
  <2>1. pc[q] = "success" /\ pc[q] \in OnLoop
    BY <1>7 DEF Success, OnLoop, InSuccess
  <2>2. UNCHANGED breaker /\ Goto(q, IF state = "CLOSED" THEN "respond" ELSE "close")
    BY <1>0, <1>7 DEF Success, Closes, TypeOK, States
  <2> QED
    BY <1>0, <2>1, <2>2, Alone, Moves
       DEF Atomic!RecordSuccess, Atomic!Succeed, AtomicState, AtomicFailures,
           AtomicDeadline, Done, breaker, NoDeadline, Atomic!NoDeadline
<1>8. ASSUME NEW q \in Requests, Close(q) \/ ClearFailures(q)
      PROVE  UNCHANGED Atomic!vars
  <2>1. PICK label \in {"clear_failures", "clear_deadline"} : Goto(q, label)
    BY <1>8 DEF Close, ClearFailures
  <2>2. pc[q] \in {"close", "clear_failures"} /\ pc[q] \in OnLoop
    BY <1>8 DEF Close, ClearFailures, OnLoop, InSuccess
  <2> QED
    BY <1>0, <2>1, <2>2, Alone, Moves
       DEF AtomicState, AtomicFailures, AtomicDeadline, Done
<1>9. ASSUME NEW q \in Requests, ClearDeadline(q)
      PROVE  UNCHANGED Atomic!vars
  <2>1. pc[q] = "clear_deadline" /\ pc[q] \in OnLoop /\ Goto(q, "respond")
    BY <1>9 DEF ClearDeadline, OnLoop, InSuccess
  <2>2. /\ state = "CLOSED" /\ failures = 0
        /\ UNCHANGED <<state, failures>> /\ opensAt' = NoDeadline
    BY <1>9 DEF ClearDeadline, IInv, Midway, Uninterrupted
  <2> QED
    BY <1>0, <2>1, <2>2, Alone, Moves
       DEF AtomicState, AtomicFailures, AtomicDeadline, Done
<1>10. ASSUME NEW q \in Requests, Respond(q)
       PROVE  Atomic!Leave(q) \/ UNCHANGED Atomic!vars
  <2>1. pc[q] = "respond" /\ pc[q] \in OnLoop /\ UNCHANGED breaker
    BY <1>10 DEF Respond, OnLoop
  <2>2. PICK label \in {"idle", "failure"} : Goto(q, label)
    BY <1>10 DEF Respond, AfterResponse
  <2> QED
    BY <1>0, <2>1, <2>2, Alone, Moves
       DEF Atomic!Leave, AtomicState, AtomicFailures, AtomicDeadline, Done, breaker
<1>11. ASSUME NEW q \in Requests, Failure(q)
       PROVE  UNCHANGED Atomic!vars
  <2>1. pc[q] = "failure" /\ pc[q] \in OnLoop /\ Goto(q, "incr") /\ UNCHANGED breaker
    BY <1>11 DEF Failure, OnLoop, InFailure
  <2> QED
    BY <1>0, <2>1, Alone, Moves
       DEF AtomicState, AtomicFailures, AtomicDeadline, Done, breaker
<1>12. ASSUME NEW q \in Requests, Incr(q)
       PROVE  Atomic!RecordFailure(q)
  <2>1. pc[q] = "incr" /\ pc[q] \in OnLoop /\ seen[q] = state
    BY <1>12 DEF Incr, OnLoop, InFailure, IInv, Uninterrupted
  <2>2. /\ Goto(q, IF Trips(state, failures') THEN "set_deadline" ELSE "idle")
        /\ failures' = CountUp(failures) /\ UNCHANGED <<state, opensAt>>
    BY <1>12, <2>1 DEF Incr, TripBegins
  <2>3. AtomicState = state /\ AtomicFailures = failures /\ AtomicDeadline = opensAt
    BY <1>0, <2>1, <2>2, Alone, Moves DEF AtomicState, AtomicFailures, AtomicDeadline
  <2>4. /\ AtomicFailures' = CountUp(failures)
        /\ AtomicState' = IF Trips(state, failures') THEN "OPEN" ELSE state
        /\ AtomicDeadline' = IF Trips(state, failures') THEN Recovery ELSE opensAt
    BY <1>0, <2>1, <2>2, Alone, Moves DEF AtomicState, AtomicFailures, AtomicDeadline
  <2>5. q \in Forwarded /\ Forwarded' = Forwarded \ {q}
    BY <1>0, <2>1, <2>2, Moves DEF Done
  <2> QED
    BY <2>2, <2>3, <2>4, <2>5
       DEF Atomic!RecordFailure, Atomic!Fail, Atomic!FailBy, Atomic!Trips, Trips,
           CountUp, Atomic!CountUp
<1>13. ASSUME NEW q \in Requests, SetDeadline(q)
       PROVE  UNCHANGED Atomic!vars
  <2>1. pc[q] = "set_deadline" /\ pc[q] \in OnLoop /\ Goto(q, "open")
    BY <1>13 DEF SetDeadline, OnLoop, InFailure
  <2>2. opensAt' = Recovery /\ UNCHANGED <<state, failures>>
    BY <1>13 DEF SetDeadline, NewDeadline
  <2> QED
    BY <1>0, <2>1, <2>2, Alone, Moves
       DEF AtomicState, AtomicFailures, AtomicDeadline, Done
<1>14. ASSUME NEW q \in Requests, Open(q)
       PROVE  UNCHANGED Atomic!vars
  <2>1. pc[q] = "open" /\ pc[q] \in OnLoop /\ Goto(q, "idle")
    BY <1>14 DEF Open, OnLoop, InFailure
  <2>2. state' = "OPEN" /\ UNCHANGED <<failures, opensAt>>
    BY <1>14 DEF Open
  <2> QED
    BY <1>0, <2>1, <2>2, Alone, Moves
       DEF AtomicState, AtomicFailures, AtomicDeadline, Done
<1>15. ASSUME UNCHANGED vars PROVE UNCHANGED Atomic!vars
  BY <1>15 DEF vars, Closing, Tripping, Opening, Probing, Forwarded, AtomicState,
      AtomicFailures, AtomicDeadline
<1>16. ASSUME NEW q \in Requests, Handle(q), ~Success(q), ~Incr(q) PROVE UNCHANGED streak
  BY <1>16 DEF Handle, CanRequest, Deadline, HalfOpen, Close, ClearFailures,
     ClearDeadline, Respond, Failure, SetDeadline, Open, history
<1>17. ASSUME NEW q \in Requests, Arrive(q) \/ Answer(q) PROVE UNCHANGED streak
  BY <1>17 DEF Arrive, Answer, history
<1>18. ASSUME NEW q \in Requests, Success(q) PROVE streak' = 0
  BY <1>18 DEF Success
<1>19. ASSUME NEW q \in Requests, Incr(q) PROVE streak' = CountUp(streak)
  BY <1>19 DEF Incr
<1>20. \A q \in Requests : ~RedisError(q)
  BY DEF NothingLost, RedisError
<1>21. \A p \in Procs : ~Crash(p)
  BY DEF NothingLost, Crash
<1>22. CASE UpstreamFails \/ UpstreamRecovers \/ UNCHANGED vars
  BY <1>2, <1>15, <1>22 DEF UpstreamFails, UpstreamRecovers, history, vars
<1>23. ASSUME NEW q \in Requests, Handle(q)
       PROVE  \/ Success(q) /\ Atomic!RecordSuccess(q)
              \/ Incr(q) /\ Atomic!RecordFailure(q)
              \/ /\ ~Success(q) /\ ~Incr(q)
                 /\ \/ Atomic!CanRequest(q) \/ Atomic!Leave(q)
                    \/ UNCHANGED Atomic!vars
  BY <1>4, <1>5, <1>6, <1>7, <1>8, <1>9, <1>10, <1>11, <1>12, <1>13, <1>14,
     <1>23 DEF Handle
<1> QED
  BY <1>1, <1>3, <1>16, <1>17, <1>18, <1>19, <1>20, <1>21, <1>22, <1>23 DEF Next, Step, Usual

LEMMA AtomicStep ==
  ASSUME OneProcess, NothingLost, IInv, [Next]_vars
  PROVE  [Atomic!Next]_(Atomic!vars)
  BY AtomicMove DEF Atomic!Next

\* In one process whose commands all succeed nobody sees or meets half a close or
\* half a trip: can_request, record_success and record_failure each take effect at
\* one command, as CircuitBreakerBase promises its callers.
THEOREM MethodsAreAtomic ==
  OneProcess /\ NothingLost => (Spec => ImplementsAtomicBreaker)
<1> SUFFICES ASSUME OneProcess, NothingLost PROVE Spec => ImplementsAtomicBreaker
  OBVIOUS
<1>1. Init => Atomic!Init
  <2> SUFFICES ASSUME Init PROVE Atomic!Init
    OBVIOUS
  <2>1. ~Closing /\ ~Tripping /\ ~Opening /\ ~Probing /\ Forwarded = {}
    BY DEF Init, Closing, Tripping, Opening, Probing, Forwarded, Done
  <2> QED
    BY <2>1 DEF Init, Atomic!Init, Atomic!InitKeys, AtomicState, AtomicFailures,
        AtomicDeadline, NoDeadline, Atomic!NoDeadline
<1>2. IInv /\ [Next]_vars => [Atomic!Next]_(Atomic!vars)
  BY AtomicStep
<1> QED
  BY <1>1, <1>2, InductiveInvariant, PTL DEF Spec, ImplementsAtomicBreaker, Atomic!Spec

-----------------------------------------------------------------------------
\* The threshold.

LEMMA CountsStep ==
  ASSUME OneProcess, NothingLost, IInv, Counts, [Next]_vars
  PROVE  Counts'
<1> USE ConstantsAssumption
<1>1. /\ streak \in 0..FailureCap /\ AtomicFailures \in 0..FailureCap
      /\ \A n \in 0..FailureCap : CountUp(n) = Atomic!CountUp(n)
  BY DEF IInv, TypeOK, AtomicFailures, CountUp, Atomic!CountUp
<1>2. CASE /\ UNCHANGED streak
           /\ \/ Atomic!Tick /\ UNCHANGED Forwarded
              \/ \E q \in Requests : Atomic!CanRequest(q) \/ Atomic!Leave(q)
              \/ UNCHANGED Atomic!vars
  <2>1. UNCHANGED AtomicFailures /\ (AtomicState' = "CLOSED" => AtomicState = "CLOSED")
    BY <1>2 DEF Atomic!Tick, Atomic!CanRequest, Atomic!Pass, Atomic!Leave,
       Atomic!vars, Atomic!keys
  <2> QED
    BY <1>2, <2>1 DEF Counts
<1>3. CASE streak' = 0 /\ \E q \in Requests : Atomic!RecordSuccess(q)
  <2>1. CASE UNCHANGED <<AtomicState, AtomicFailures>>
    BY <1>1, <1>3, <2>1 DEF Counts
  <2>2. CASE AtomicFailures' = 0
    BY <1>3, <2>2 DEF Counts
  <2> QED
    BY <1>3, <2>1, <2>2 DEF Atomic!RecordSuccess, Atomic!Succeed, Atomic!keys
<1>4. CASE /\ streak' = CountUp(streak)
           /\ \E q \in Requests : Atomic!RecordFailure(q)
  <2>1. Atomic!Fail /\ AtomicFailures' = CountUp(AtomicFailures)
    BY <1>1, <1>4 DEF Atomic!RecordFailure, Atomic!Fail, Atomic!FailBy
  <2>2. AtomicState' = "CLOSED" => AtomicState = "CLOSED" /\ ~(AtomicFailures' >= Threshold)
    BY <2>1, Zenon DEF Atomic!Fail, Atomic!FailBy, Atomic!Trips
  <2> QED
    BY <1>1, <1>4, <2>1, <2>2 DEF Counts, CountUp
<1> QED
  BY <1>2, <1>3, <1>4, AtomicMove

\* Nothing is forgotten and nothing is left over: at every command, a circuit that
\* its methods have decided to be CLOSED has counted every failure since the last
\* success, and fewer than FAILURE_THRESHOLD of them (record_failure's INCR,
\* record_success's DEL).
THEOREM CountsInvariant == OneProcess /\ NothingLost => (Spec => []Counts)
<1> SUFFICES ASSUME OneProcess, NothingLost PROVE Spec => []Counts
  OBVIOUS
<1>1. Init => Counts
  BY ConstantsAssumption DEF Init, Counts, AtomicFailures, Closing
<1>2. IInv /\ Counts /\ [Next]_vars => Counts'
  BY CountsStep
<1> QED
  BY <1>1, <1>2, InductiveInvariant, PTL DEF Spec

\* Between requests the methods have decided nothing that is not written.
LEMMA QuietKeys == Quiet => AtomicState = state /\ AtomicFailures = failures
  BY Free DEF Quiet, AtomicState, AtomicFailures

\* A circuit starts afresh: between requests a CLOSED one has room for one more
\* failure, whoever else failed before it (record_success deletes the counter).
THEOREM RoomWhenClosed == OneProcess /\ NothingLost => (Spec => []ClosedBelowThreshold)
<1>1. Counts => ClosedBelowThreshold
  BY QuietKeys DEF Counts, ClosedBelowThreshold
<1> QED
  BY <1>1, CountsInvariant, PTL

\* "CLOSED -> OPEN after FAILURE_THRESHOLD consecutive failures": however requests
\* overlap, so many failures in a row never leave the circuit CLOSED.
THEOREM TripsInTime == OneProcess /\ NothingLost => (Spec => []TripsAtThreshold)
<1>1. TypeOK /\ Counts => TripsAtThreshold
  <2> SUFFICES ASSUME TypeOK, Counts, Quiet, streak >= Threshold, state = "CLOSED"
               PROVE  FALSE
    BY DEF TripsAtThreshold
  <2>1. streak <= failures /\ failures < Threshold
    BY QuietKeys DEF Counts
  <2> QED
    BY <2>1, ConstantsAssumption DEF TypeOK
<1> QED
  BY <1>1, TypeCorrect, CountsInvariant, PTL

-----------------------------------------------------------------------------
\* A healthy upstream.

LEMMA PendingMoves ==
  ASSUME TypeOK, NEW q \in Requests, NEW label, Goto(q, label)
  PROVE  Pending' = IF label \in {"failure", "incr"} THEN Pending \cup {q} ELSE Pending \ {q}
  BY DEF TypeOK, Goto, Pending

LEMMA PendingFinite ==
  ASSUME NEW S, S \subseteq Requests
  PROVE  IsFiniteSet(S) /\ Cardinality(S) \in Nat
  BY ConstantsAssumption, FS_Subset, FS_CardinalityType

\* A step that records nothing and calls for no record keeps the count.
LEMMA CoverKept ==
  ASSUME TypeOK, StraysCover, state' = "CLOSED", failures' \in {failures, 0},
         Pending' \subseteq Pending, strays' \in {strays, strays + 1},
         \A q \in Requests :
            /\ pc'[q] \notin {"deadline", "half_open", "set_deadline", "open"}
            /\ pc'[q] = "incr" => seen'[q] = "CLOSED"
  PROVE  StraysCover'
<1>1. Pending \subseteq Requests /\ Pending' \subseteq Requests
  BY DEF Pending
<1>2. /\ Cardinality(Pending') <= Cardinality(Pending)
      /\ Cardinality(Pending) \in Nat /\ Cardinality(Pending') \in Nat
  BY <1>1, PendingFinite, FS_Subset
<1>3. failures \in Nat /\ strays \in Nat
  BY ConstantsAssumption DEF TypeOK
<1>4. failures' + Cardinality(Pending') <= strays'
  BY <1>2, <1>3 DEF StraysCover
<1> QED
  BY <1>4 DEF StraysCover

\* One that fails a request asks for one more to be recorded.
LEMMA CoverStrays ==
  ASSUME TypeOK, StraysCover, UNCHANGED <<state, failures, seen>>, ~everDown,
         strays' < Threshold, Strays, NEW q \in Requests, Goto(q, "failure")
  PROVE  StraysCover'
<1>1. Pending' = Pending \cup {q}
  BY PendingMoves
<1>2. Cardinality(Pending') <= Cardinality(Pending) + 1
  <2>1. CASE q \in Pending
    BY <1>1, <2>1, PendingFinite DEF Pending
  <2>2. CASE q \notin Pending
    BY <1>1, <2>2, PendingFinite, FS_AddElement DEF Pending
  <2> QED
    BY <2>1, <2>2
<1>3. Cardinality(Pending) \in Nat /\ Cardinality(Pending') \in Nat
  BY PendingFinite DEF Pending
<1>4. failures \in Nat /\ strays \in Nat /\ strays' = strays + 1
  BY ConstantsAssumption DEF TypeOK, Strays
<1>5. failures' + Cardinality(Pending') <= strays'
  BY <1>2, <1>3, <1>4 DEF StraysCover
<1>6. \A r \in Requests : pc'[r] = IF r = q THEN "failure" ELSE pc[r]
  BY DEF TypeOK, Goto
<1> QED
  BY <1>5, <1>6 DEF StraysCover

\* The INCR itself, with fewer than Threshold to record, is not the last.
LEMMA CoverIncr ==
  ASSUME TypeOK, StraysCover, strays < Threshold, NEW q \in Requests, Incr(q)
  PROVE  StraysCover'
<1> USE ConstantsAssumption
<1>1. q \in Pending /\ seen[q] = "CLOSED"
  BY DEF Incr, Pending, StraysCover
<1>2. Cardinality(Pending \ {q}) = Cardinality(Pending) - 1
  BY <1>1, PendingFinite, FS_RemoveElement DEF Pending
<1>3. Cardinality(Pending) \in Nat /\ Cardinality(Pending \ {q}) \in Nat
  BY PendingFinite DEF Pending
<1>4. failures \in Nat /\ strays \in Nat
  BY DEF TypeOK
<1>5. failures + 1 <= strays
  BY <1>2, <1>3, <1>4 DEF StraysCover
<1>6. failures' = failures + 1
  BY <1>4, <1>5 DEF Incr, CountUp
<1>7. ~Trips(seen[q], failures')
  BY <1>1, <1>4, <1>5, <1>6 DEF Trips
<1>8. Goto(q, "idle")
  BY <1>7 DEF Incr
<1>9. Pending' = Pending \ {q}
  BY <1>8, PendingMoves
<1>10. failures' + Cardinality(Pending') <= strays'
  BY <1>2, <1>3, <1>4, <1>6, <1>9 DEF Incr, StraysCover
<1>11. \A r \in Requests : pc'[r] = IF r = q THEN "idle" ELSE pc[r]
  BY <1>8 DEF TypeOK, Goto
<1> QED
  BY <1>10, <1>11 DEF StraysCover, Incr

LEMMA CoverStep ==
  ASSUME TypeOK, StraysCover, ~everDown, up, [Next]_vars, ~everDown', strays' < Threshold
  PROVE  StraysCover'
<1> USE DEF TypeOK
<1>1. ASSUME UNCHANGED <<state, failures, pc, seen, strays>> PROVE StraysCover'
  BY <1>1, CoverKept DEF Pending, StraysCover
<1>2. CASE Tick \/ UpstreamRecovers \/ UNCHANGED vars
  BY <1>1, <1>2 DEF Tick, UpstreamRecovers, vars, breaker, history
<1>3. CASE UpstreamFails
  BY <1>3 DEF UpstreamFails
\* Where a step may leave its request if it asks for no record.
<1>a. ASSUME NEW q \in Requests, state' = "CLOSED", failures' \in {failures, 0},
             UNCHANGED strays, seen' = seen \/ seen' = [seen EXCEPT ![q] = state],
             NEW label \in {"idle", "can_request", "awaiting", "success", "close",
                            "clear_failures", "clear_deadline", "respond"},
             Goto(q, label)
      PROVE  StraysCover'
  <2>1. Pending' \subseteq Pending
    BY <1>a, PendingMoves
  <2>2. \A r \in Requests : pc'[r] = IF r = q THEN label ELSE pc[r]
    BY <1>a DEF Goto
  <2>3. \A r \in Requests : seen'[r] \in {seen[r], "CLOSED"}
    BY <1>a DEF StraysCover
  <2> QED
    BY <1>a, <2>1, <2>2, <2>3, CoverKept DEF StraysCover
<1>b. state = "CLOSED"
  BY DEF StraysCover
<1>4. ASSUME NEW q \in Requests, Arrive(q) \/ CanRequest(q) PROVE StraysCover'
  BY <1>a, <1>b, <1>4 DEF Arrive, CanRequest, Forward, breaker, history
<1>5. ASSUME NEW q \in Requests, Answer(q) PROVE StraysCover'
  <2>1. CASE Goto(q, "success") /\ UNCHANGED strays
    BY <1>a, <1>b, <1>5, <2>1 DEF Answer, breaker
  <2>2. CASE Goto(q, "failure") /\ Strays
    BY <1>5, <2>2, CoverStrays DEF Answer, breaker
  <2> QED
    BY <1>5, <2>1, <2>2 DEF Answer
<1>6. ASSUME NEW q \in Requests, Success(q) \/ Close(q) PROVE StraysCover'
  BY <1>a, <1>b, <1>6 DEF Success, Closes, Close, breaker, history
<1>7. ASSUME NEW q \in Requests, ClearFailures(q) \/ ClearDeadline(q) PROVE StraysCover'
  BY <1>a, <1>b, <1>7 DEF ClearFailures, Cleared, ClearDeadline, history
<1>8. ASSUME NEW q \in Requests, Respond(q) PROVE StraysCover'
  <2>1. CASE Goto(q, "idle") /\ UNCHANGED strays
    BY <1>a, <1>b, <1>8, <2>1 DEF Respond, breaker
  <2>2. CASE Goto(q, "failure") /\ Strays
    BY <1>8, <2>2, CoverStrays DEF Respond, breaker
  <2> QED
    BY <1>8, <2>1, <2>2 DEF Respond, AfterResponse
<1>9. ASSUME NEW q \in Requests, Failure(q) PROVE StraysCover'
  <2>1. /\ Goto(q, "incr") /\ seen' = [seen EXCEPT ![q] = "CLOSED"]
        /\ q \in Pending /\ UNCHANGED <<state, failures, strays>>
    BY <1>b, <1>9 DEF Failure, Pending, breaker, history
  <2>2. Pending' = Pending
    BY <2>1, PendingMoves
  <2>3. \A r \in Requests : pc'[r] = IF r = q THEN "incr" ELSE pc[r]
    BY <2>1 DEF Goto
  <2>4. \A r \in Requests : seen'[r] = IF r = q THEN "CLOSED" ELSE seen[r]
    BY <2>1
  <2> QED
    BY <1>b, <2>1, <2>2, <2>3, <2>4, CoverKept DEF StraysCover
<1>10. ASSUME NEW q \in Requests, Incr(q) PROVE StraysCover'
  BY <1>10, CoverIncr DEF Incr
<1>11. ASSUME NEW q \in Requests, Deadline(q) \/ HalfOpen(q) \/ SetDeadline(q) \/ Open(q)
       PROVE  FALSE
  BY <1>11 DEF Deadline, HalfOpen, SetDeadline, Open, StraysCover
<1>12. ASSUME NEW q \in Requests, RedisError(q) PROVE StraysCover'
  <2>1. CASE Goto(q, "idle") /\ UNCHANGED strays
    BY <1>a, <1>b, <1>12, <2>1 DEF RedisError, breaker
  <2>2. CASE Goto(q, "failure") /\ Strays
    BY <1>12, <2>2, CoverStrays DEF RedisError, breaker
  <2> QED
    BY <1>12, <2>1, <2>2 DEF RedisError
<1>13. ASSUME NEW p \in Procs, Crash(p) PROVE StraysCover'
  <2>1. \A r \in Requests : pc'[r] \in {pc[r], "idle"}
    BY <1>13 DEF Crash
  <2>2. Pending' \subseteq Pending
    BY <2>1 DEF Pending
  <2> QED
    BY <1>13, <2>1, <2>2, CoverKept DEF Crash, breaker, history, StraysCover
<1> QED
  BY <1>2, <1>3, <1>4, <1>5, <1>6, <1>7, <1>8, <1>9, <1>10, <1>11, <1>12, <1>13
     DEF Next, Step, Usual, Handle

LEMMA HealthyStep == TypeOK /\ TypeOK' /\ Healthy /\ [Next]_vars => Healthy'
<1> SUFFICES ASSUME TypeOK, TypeOK', Healthy, [Next]_vars, ~everDown' PROVE Healthy'
  BY DEF Healthy
<1>0. ~everDown
  BY DEF Next, Step, Usual, Handle, Tick, UpstreamFails, UpstreamRecovers, Arrive, Answer,
     CanRequest, Deadline, HalfOpen, Success, Close, ClearFailures, ClearDeadline,
     Respond, Failure, Incr, SetDeadline, Open, RedisError, Crash, history, vars
<1>1. up /\ \A q \in Requests : pc[q] = "awaiting" => sentUp[q]
  BY <1>0 DEF Healthy
<1>2. up' /\ \A q \in Requests : pc'[q] = "awaiting" => sentUp'[q]
  <2>1. CASE Tick \/ UpstreamFails \/ UpstreamRecovers \/ UNCHANGED vars
    BY <1>1, <2>1 DEF Tick, UpstreamFails, UpstreamRecovers, vars
  <2>2. ASSUME NEW q \in Requests, CanRequest(q) \/ HalfOpen(q)
        PROVE  up' /\ \A r \in Requests : pc'[r] = "awaiting" => sentUp'[r]
    BY <1>1, <2>2 DEF CanRequest, HalfOpen, Forward, Goto, TypeOK
  <2>3. ASSUME NEW q \in Requests, \/ Arrive(q) \/ Answer(q) \/ RedisError(q)
                                   \/ Handle(q) /\ ~CanRequest(q) /\ ~HalfOpen(q)
        PROVE  up' /\ \A r \in Requests : pc'[r] = "awaiting" => sentUp'[r]
    BY <1>1, <2>3 DEF Arrive, Answer, RedisError, Handle, Deadline, Success, Close,
       ClearFailures, ClearDeadline, Respond, AfterResponse, Failure, Incr, TripBegins,
       SetDeadline, Open, Goto, TypeOK
  <2>4. ASSUME NEW p \in Procs, Crash(p)
        PROVE  up' /\ \A r \in Requests : pc'[r] = "awaiting" => sentUp'[r]
    BY <1>1, <2>4 DEF Crash
  <2> QED
    BY <2>1, <2>2, <2>3, <2>4 DEF Next, Step, Usual
<1>3. strays <= strays'
  <2>1. CASE UNCHANGED strays \/ Strays
    BY <1>0, <2>1 DEF Strays, TypeOK
  <2>2. UNCHANGED strays \/ Strays
    BY DEF Next, Step, Usual, Handle, Tick, UpstreamFails, UpstreamRecovers, Arrive, Answer,
       CanRequest, Deadline, HalfOpen, Success, Close, ClearFailures, ClearDeadline,
       Respond, Failure, Incr, SetDeadline, Open, RedisError, Crash, history, vars
  <2> QED
    BY <2>1, <2>2
<1>4. strays' < Threshold => StraysCover'
  <2> SUFFICES ASSUME strays' < Threshold PROVE StraysCover'
    OBVIOUS
  <2>1. strays < Threshold
    BY <1>3, ConstantsAssumption DEF TypeOK
  <2> QED
    BY <1>0, <1>1, <2>1, CoverStep DEF Healthy
<1> QED
  BY <1>2, <1>4 DEF Healthy

\* The circuit of an upstream that never failed opens only with cause: for any number
\* of processes and whatever command is lost, so many requests have failed in some other
\* way as the threshold asks for (ProxyStep's except branch asks no questions, but it
\* is taken once for a request).
THEOREM CutOffWithCause == Spec => []OpensWithCause
<1>1. Init => Healthy
  <2> SUFFICES ASSUME Init PROVE Healthy
    OBVIOUS
  <2>1. Pending = {}
    BY DEF Init, Pending
  <2>2. Cardinality(Pending) = 0
    BY <2>1, FS_EmptySet
  <2>3. failures + Cardinality(Pending) <= strays
    BY <2>2 DEF Init
  <2>4. state = "CLOSED" /\ \A q \in Requests : pc[q] = "idle"
    BY DEF Init
  <2>5. StraysCover
    BY <2>3, <2>4 DEF StraysCover
  <2> QED
    BY <2>4, <2>5 DEF Init, Healthy
<1>2. TypeOK /\ TypeOK' /\ Healthy /\ [Next]_vars => Healthy'
  BY HealthyStep
<1>3. TypeOK /\ Healthy => OpensWithCause
  BY ConstantsAssumption DEF TypeOK, Healthy, StraysCover, OpensWithCause
<1> QED
  BY <1>1, <1>2, <1>3, TypeCorrect, PTL DEF Spec

-----------------------------------------------------------------------------
\* Several processes: the deadline may be missing, but it is never too late.

\* Once the recovery time after the latest trip has passed, can_request refuses no one.
NeverLockedOut == sinceTrip = Recovery => Elapsed

LEMMA DeadlineStep == TypeOK /\ DeadlineCounts /\ [Next]_vars => DeadlineCounts'
<1> SUFFICES ASSUME TypeOK, DeadlineCounts, [Next]_vars PROVE DeadlineCounts'
  OBVIOUS
<1> USE ConstantsAssumption DEF TypeOK, DeadlineCounts, NoDeadline
<1>1. CASE Tick
  BY <1>1 DEF Tick
<1>2. ASSUME UNCHANGED <<opensAt, sinceTrip>> PROVE DeadlineCounts'
  BY <1>2
<1>3. ASSUME NEW q \in Requests, SetDeadline(q) PROVE DeadlineCounts'
  BY <1>3 DEF SetDeadline, NewDeadline
<1>4. ASSUME NEW q \in Requests, ClearDeadline(q) PROVE DeadlineCounts'
  BY <1>4 DEF ClearDeadline
<1>5. ASSUME NEW q \in Requests, Handle(q), ~SetDeadline(q), ~ClearDeadline(q)
      PROVE  UNCHANGED <<opensAt, sinceTrip>>
  BY <1>5 DEF Handle, CanRequest, Deadline, HalfOpen, Success, Close, ClearFailures,
     Respond, Failure, Incr, Open, breaker, history
<1>6. ASSUME NEW q \in Requests, Arrive(q) \/ Answer(q) \/ RedisError(q)
      PROVE  UNCHANGED <<opensAt, sinceTrip>>
  BY <1>6 DEF Arrive, Answer, RedisError, breaker, history
<1>7. ASSUME \/ UpstreamFails \/ UpstreamRecovers \/ UNCHANGED vars
             \/ \E p \in Procs : Crash(p)
      PROVE  UNCHANGED <<opensAt, sinceTrip>>
  BY <1>7 DEF UpstreamFails, UpstreamRecovers, Crash, vars, breaker, history
<1> QED
  BY <1>1, <1>2, <1>3, <1>4, <1>5, <1>6, <1>7 DEF Next, Step, Usual

\* However many processes share Redis and whatever fails: an OPEN circuit refuses nobody
\* for longer than CIRCUIT_BREAKER_RECOVERY_SECONDS after the latest trip (opens_at in
\* record_failure, "or 0" in can_request).
THEOREM LockoutBounded == Spec => []NeverLockedOut
<1>1. Init => DeadlineCounts
  BY InitIInv DEF IInv
<1>2. TypeOK /\ DeadlineCounts => NeverLockedOut
  BY ConstantsAssumption DEF TypeOK, DeadlineCounts, NeverLockedOut, Elapsed, NoDeadline
<1> QED
  BY <1>1, <1>2, DeadlineStep, TypeCorrect, PTL DEF Spec
=============================================================================
