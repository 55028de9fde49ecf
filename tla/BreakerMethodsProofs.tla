------------------------- MODULE BreakerMethodsProofs -------------------------
(***************************************************************************)
(* Proofs about BreakerMethods for one process, any number of requests,    *)
(* any threshold and recovery time, and every kind of fault: a method that *)
(* is cut short between any two commands leaves the keys as AtomicBreaker  *)
(* says of a whole or a torn one.                                          *)
(***************************************************************************)
EXTENDS BreakerMethods, CircuitBreakerProofs

-----------------------------------------------------------------------------
\* The history variable watches; it changes nothing.

LEMMA MethodStepIsStep == [MethodNext]_methodVars => [Next]_vars
  BY DEF MethodNext, MethodTick, MethodStep, Next, methodVars

LEMMA MethodImplementsBreaker == MethodSpec => Spec
<1>1. MethodInit => Init
  BY DEF MethodInit
<1> QED
  BY <1>1, MethodStepIsStep, PTL DEF MethodSpec, Spec

LEMMA MethodIsOnLoop == InProbe \cup InClose \cup InCount \subseteq OnLoop
  BY DEF InProbe, InClose, InCount, OnLoop, InCanRequest, InSuccess, InFailure

\* Every step but a tick keeps this much of the invariant by itself: the keys are
\* recorded whenever nobody is in a method.
LEMMA Recorded ==
  ASSUME MethodStep
  PROVE  /\ NoMethodFound'
         /\ \A q \in Requests : pc'[q] \in InProbe \cup InClose \cup InCount => found' = found
         /\ found' = found \/ found' = Keys'
  BY DEF MethodStep, NoMethodFound, InMethod

\* The request on the loop decides whether a method is under way.
LEMMA AloneInMethod ==
  ASSUME NEW q \in Requests, pc[q] \in OnLoop, Exclusive,
         \A r \in Requests \ {q} : pc'[r] \in {pc[r], "idle"}
  PROVE  /\ InMethod <=> pc[q] \in InProbe \cup InClose \cup InCount
         /\ InMethod' <=> pc'[q] \in InProbe \cup InClose \cup InCount
         /\ \A r \in Requests \ {q} : pc'[r] \notin InProbe \cup InClose \cup InCount
<1>1. \A r \in Requests \ {q} : pc[r] \notin OnLoop /\ pc'[r] \notin InProbe \cup InClose \cup InCount
  BY MethodIsOnLoop DEF Exclusive, InProbe, InClose, InCount
<1> QED
  BY <1>1, MethodIsOnLoop DEF InMethod

-----------------------------------------------------------------------------
\* The inductive invariant.

Found(q) == ProbeFound(q) /\ CloseFound(q) /\ CountFound(q)

\* Outside the methods there is nothing to show.
LEMMA FoundOutside ==
  ASSUME NEW q \in Requests, pc'[q] \notin InProbe \cup InClose \cup InCount
  PROVE  Found(q)'
  BY DEF Found, ProbeFound, CloseFound, CountFound, InProbe, InClose, InCount

LEMMA FoundProbe ==
  ASSUME FoundIInv, MethodStep, NEW q \in Requests, pc[q] \in OnLoop, Exclusive,
         \A r \in Requests \ {q} : pc'[r] = pc[r],
         CanRequest(q) \/ Deadline(q) \/ HalfOpen(q)
  PROVE  Found(q)'
<1>1. CASE pc'[q] \notin InProbe
  <2>1. pc'[q] \in {"awaiting", "idle", "deadline", "half_open"}
    BY DEF FoundIInv, IInv, TypeOK, CanRequest, Deadline, HalfOpen, Goto, Forward
  <2> QED
    BY <1>1, <2>1, FoundOutside DEF InProbe, InClose, InCount
<1>2. CASE pc'[q] \in InProbe
  <2>1. found' = found
    BY <1>2, Recorded
  <2>2. UNCHANGED <<state, failures, opensAt>>
    BY <1>2 DEF CanRequest, Deadline, HalfOpen, breaker, InProbe, FoundIInv, IInv,
       TypeOK, Goto, Forward
  <2>3. found = Keys /\ state = "OPEN"
    <3>1. CASE CanRequest(q)
      <4>1. ~InMethod
        BY <3>1, AloneInMethod DEF CanRequest, InProbe, InClose, InCount
      <4>2. state = "OPEN"
        BY <1>2, <3>1 DEF CanRequest, FoundIInv, IInv, TypeOK, Forward, Goto, InProbe
      <4> QED
        BY <4>1, <4>2 DEF FoundIInv, NoMethodFound
    <3>2. CASE Deadline(q) \/ HalfOpen(q)
      BY <3>2 DEF Deadline, HalfOpen, InProbe, FoundIInv, ProbeFound
    <3> QED
      BY <3>1, <3>2
  <2>4. pc'[q] = "half_open" => Elapsed
    BY DEF CanRequest, Deadline, HalfOpen, FoundIInv, IInv, TypeOK, Goto, Forward
  <2>5. found' = Keys' /\ state' = "OPEN" /\ (pc'[q] = "half_open" => Elapsed')
    BY <2>1, <2>2, <2>3, <2>4 DEF Keys, Elapsed
  <2> QED
    BY <1>2, <2>5 DEF Found, ProbeFound, CloseFound, CountFound, InProbe, InClose
<1> QED
  BY <1>1, <1>2

LEMMA FoundClose ==
  ASSUME FoundIInv, MethodStep, NEW q \in Requests, pc[q] \in OnLoop, Exclusive,
         \A r \in Requests \ {q} : pc'[r] = pc[r],
         Success(q) \/ Close(q) \/ ClearFailures(q) \/ ClearDeadline(q) \/ Respond(q)
  PROVE  Found(q)'
<1>1. TypeOK /\ Found(q)
  BY DEF FoundIInv, IInv, Found
<1>2. CASE pc'[q] \notin InProbe \cup InClose \cup InCount
  BY <1>2, FoundOutside
<1>3. ASSUME Success(q), pc'[q] \in InProbe \cup InClose \cup InCount PROVE Found(q)'
  <2>1. pc'[q] = "close" /\ state # "CLOSED" /\ UNCHANGED <<state, failures, opensAt>>
    BY <1>1, <1>3 DEF Success, TypeOK, Goto, Closes, breaker, InProbe, InClose, InCount
  <2>2. found' = found
    BY <1>3, Recorded
  <2>3. found = Keys
    BY <1>3, AloneInMethod DEF Success, InProbe, InClose, InCount, FoundIInv, NoMethodFound
  <2>4. found' = Keys' /\ found'.state # "CLOSED"
    BY <2>1, <2>2, <2>3 DEF Keys
  <2> QED
    BY <2>1, <2>4 DEF Found, ProbeFound, CloseFound, CountFound, InProbe, InClose
<1>4. CASE Close(q)
  <2>1. /\ pc[q] = "close" /\ pc'[q] = "clear_failures"
        /\ state' = "CLOSED" /\ UNCHANGED <<failures, opensAt>>
    BY <1>1, <1>4 DEF Close, TypeOK, Goto
  <2>2. found' = found
    BY <2>1, Recorded DEF InClose
  <2>3. found = Keys /\ found.state # "CLOSED"
    BY <1>1, <2>1 DEF Found, CloseFound, InClose
  <2>4. found'.failures = failures' /\ found'.opensAt = opensAt' /\ found'.state # "CLOSED"
    BY <2>1, <2>2, <2>3 DEF Keys
  <2> QED
    BY <2>1, <2>4 DEF Found, ProbeFound, CloseFound, CountFound, InProbe, InClose
<1>5. CASE ClearFailures(q)
  <2>1. /\ pc[q] = "clear_failures" /\ pc'[q] = "clear_deadline"
        /\ failures' = 0 /\ UNCHANGED <<state, opensAt>>
    BY <1>1, <1>5 DEF ClearFailures, Cleared, TypeOK, Goto
  <2>2. found' = found
    BY <2>1, Recorded DEF InClose
  <2>3. state = "CLOSED" /\ opensAt = found.opensAt /\ found.state # "CLOSED"
    BY <1>1, <2>1 DEF Found, CloseFound, InClose
  <2> QED
    BY <2>1, <2>2, <2>3 DEF Found, ProbeFound, CloseFound, CountFound, InProbe, InClose
<1>6. CASE ClearDeadline(q) \/ Respond(q)
  <2>1. pc'[q] \in {"respond", "idle", "failure"}
    BY <1>1, <1>6 DEF ClearDeadline, Respond, AfterResponse, TypeOK, Goto
  <2> QED
    BY <2>1, FoundOutside DEF InProbe, InClose, InCount
<1> QED
  BY <1>2, <1>3, <1>4, <1>5, <1>6

LEMMA FoundCount ==
  ASSUME FoundIInv, MethodStep, NEW q \in Requests, pc[q] \in OnLoop, Exclusive,
         \A r \in Requests \ {q} : pc'[r] = pc[r],
         Failure(q) \/ Incr(q) \/ SetDeadline(q) \/ Open(q)
  PROVE  Found(q)'
<1>1. TypeOK /\ Found(q)
  BY DEF FoundIInv, IInv, Found
<1>2. CASE Failure(q)
  <2>1. pc[q] = "failure" /\ pc'[q] = "incr" /\ UNCHANGED <<state, failures, opensAt>>
    BY <1>1, <1>2 DEF Failure, TypeOK, Goto, breaker
  <2>2. found' = found
    BY <2>1, Recorded DEF InCount
  <2>3. found = Keys
    BY <2>1, AloneInMethod DEF InProbe, InClose, InCount, FoundIInv, NoMethodFound
  <2>4. found' = Keys'
    BY <2>1, <2>2, <2>3 DEF Keys
  <2> QED
    BY <2>1, <2>4 DEF Found, ProbeFound, CloseFound, CountFound, InProbe, InClose
<1>3. CASE Incr(q)
  <2>1. /\ pc[q] = "incr" /\ failures' = CountUp(failures)
        /\ UNCHANGED <<state, opensAt>>
        /\ pc'[q] = IF Trips(seen[q], failures') THEN "set_deadline" ELSE "idle"
    BY <1>1, <1>3 DEF Incr, TripBegins, TypeOK, Goto
  <2>2. CASE pc'[q] = "idle"
    BY <2>2, FoundOutside DEF InProbe, InClose, InCount
  <2>3. CASE pc'[q] = "set_deadline"
    <3>1. found' = found
      BY <2>3, Recorded DEF InCount
    <3>2. /\ found.state = state /\ found.failures = failures
          /\ found.opensAt = opensAt /\ seen[q] = state
      BY <1>1, <2>1 DEF Found, CountFound, Keys, FoundIInv, IInv, Uninterrupted
    <3>3. Trips(found.state, failures')
      BY <2>1, <2>3, <3>2
    <3>4. /\ state' = found'.state /\ failures' = CountUp(found'.failures)
          /\ opensAt' = found'.opensAt /\ Trips(found'.state, failures')
      BY <2>1, <3>1, <3>2, <3>3
    <3> QED
      BY <2>3, <3>4 DEF Found, ProbeFound, CloseFound, CountFound, InProbe, InClose,
         CountUp, Trips
  <2> QED
    BY <2>1, <2>2, <2>3
<1>4. CASE SetDeadline(q)
  <2>1. pc[q] = "set_deadline" /\ pc'[q] = "open" /\ UNCHANGED <<state, failures>>
    BY <1>1, <1>4 DEF SetDeadline, TypeOK, Goto
  <2>2. found' = found
    BY <2>1, Recorded DEF InCount
  <2>3. /\ state = found.state /\ failures = CountUp(found.failures)
        /\ Trips(found.state, failures)
    BY <1>1, <2>1 DEF Found, CountFound
  <2>4. /\ state' = found'.state /\ failures' = CountUp(found'.failures)
        /\ Trips(found'.state, failures')
    BY <2>1, <2>2, <2>3
  <2> QED
    BY <2>1, <2>4 DEF Found, ProbeFound, CloseFound, CountFound, InProbe, InClose,
       CountUp, Trips
<1>5. CASE Open(q)
  <2>1. pc'[q] = "idle"
    BY <1>1, <1>5 DEF Open, TypeOK, Goto
  <2> QED
    BY <2>1, FoundOutside DEF InProbe, InClose, InCount
<1> QED
  BY <1>2, <1>3, <1>4, <1>5

\* What the request on the loop does, and that nobody else moves.
LEMMA OnTheLoop ==
  ASSUME TypeOK, NEW q \in Requests, Handle(q) \/ RedisError(q)
  PROVE  pc[q] \in OnLoop /\ \A r \in Requests \ {q} : pc'[r] = pc[r]
BY DEF TypeOK, Handle, RedisError, CanRequest, Deadline, HalfOpen, Success, Close,
   ClearFailures, ClearDeadline, Respond, Failure, Incr, SetDeadline, Open, Goto,
   Forward, OnLoop, InCanRequest, InSuccess, InFailure

LEMMA FoundStep == OneProcess /\ FoundIInv /\ [MethodNext]_methodVars => FoundIInv'
<1> SUFFICES ASSUME OneProcess, FoundIInv, [MethodNext]_methodVars PROVE FoundIInv'
  OBVIOUS
<1>1. IInv' /\ IInv /\ TypeOK /\ Exclusive /\ \A q \in Requests : Found(q)
  BY InductiveStep, MethodStepIsStep DEF FoundIInv, Found, IInv
<1>2. found \in [state : States, failures : 0..FailureCap,
                 opensAt : 0..Recovery \cup {NoDeadline}]
  BY DEF FoundIInv
<1>3. CASE MethodTick
  <2>1. /\ UNCHANGED <<state, failures, pc>>
        /\ opensAt' = IF opensAt > 0 THEN opensAt - 1 ELSE opensAt
    BY <1>3 DEF MethodTick, Tick
  <2>2. /\ found' \in [state : States, failures : 0..FailureCap,
                       opensAt : 0..Recovery \cup {NoDeadline}]
        /\ found'.state = found.state /\ found'.failures = found.failures
        /\ found'.opensAt = IF found.opensAt > 0 THEN found.opensAt - 1 ELSE found.opensAt
    BY <1>2, <1>3, ConstantsAssumption DEF MethodTick, NoDeadline
  <2>3. found = Keys => found' = Keys'
    BY <1>3, <2>1 DEF MethodTick, Keys
  <2>4. NoMethodFound'
    BY <2>1, <2>3 DEF FoundIInv, NoMethodFound, InMethod
  <2>5. Elapsed => Elapsed'
    BY <1>1, <2>1 DEF Elapsed, TypeOK, NoDeadline
  <2>6. opensAt = found.opensAt => opensAt' = found'.opensAt
    BY <2>1, <2>2
  <2>7. ASSUME NEW q \in Requests PROVE ProbeFound(q)' /\ CloseFound(q)' /\ CountFound(q)'
    <3>1. ProbeFound(q)'
      BY <1>1, <2>1, <2>3, <2>5 DEF Found, ProbeFound
    <3>2. CloseFound(q)'
      BY <1>1, <2>1, <2>2, <2>3, <2>6 DEF Found, CloseFound
    <3>3. CountFound(q)'
      BY <1>1, <2>1, <2>2, <2>3, <2>6 DEF Found, CountFound, CountUp, Trips
    <3> QED
      BY <3>1, <3>2, <3>3
  <2> QED
    BY <1>1, <2>2, <2>4, <2>7 DEF FoundIInv
<1>4. CASE MethodStep
  <2>1. NoMethodFound'
    BY <1>4, Recorded
  <2>2. found' \in [state : States, failures : 0..FailureCap,
                    opensAt : 0..Recovery \cup {NoDeadline}]
    <3>1. Keys' \in [state : States, failures : 0..FailureCap,
                     opensAt : 0..Recovery \cup {NoDeadline}]
      BY <1>1 DEF IInv, TypeOK, Keys
    <3> QED
      BY <1>2, <1>4, <3>1, Recorded
  <2>3. ASSUME UNCHANGED <<state, failures, opensAt>>,
               NEW q \in Requests, pc'[q] = pc[q]
        PROVE  Found(q)'
    <3>1. CASE pc'[q] \notin InProbe \cup InClose \cup InCount
      BY <3>1, FoundOutside
    <3>2. CASE pc'[q] \in InProbe \cup InClose \cup InCount
      <4>1. found' = found
        BY <1>4, <3>2, Recorded
      <4>2. Found(q)
        BY <1>1
      <4> QED
        BY <2>3, <4>1, <4>2 DEF Found, ProbeFound, CloseFound, CountFound, Keys,
           Elapsed, CountUp, Trips
    <3> QED
      BY <3>1, <3>2
  <2>4. ASSUME NEW q \in Requests, NEW r \in Requests,
               Handle(q) \/ RedisError(q) \/ Arrive(q) \/ Answer(q)
        PROVE  Found(r)'
    <3>1. CASE r # q /\ (Handle(q) \/ RedisError(q))
      <4>1. pc'[r] \notin OnLoop
        BY <1>1, <3>1, OnTheLoop DEF Exclusive
      <4> QED
        BY <4>1, MethodIsOnLoop, FoundOutside
    <3>2. CASE r = q /\ Handle(q)
      <4>1. Handle(r) /\ pc[r] \in OnLoop /\ \A s \in Requests \ {r} : pc'[s] = pc[s]
        BY <1>1, <3>2, OnTheLoop
      <4>2. CASE CanRequest(r) \/ Deadline(r) \/ HalfOpen(r)
        BY <1>1, <1>4, <4>1, <4>2, FoundProbe
      <4>3. CASE \/ Success(r) \/ Close(r) \/ ClearFailures(r) \/ ClearDeadline(r)
                 \/ Respond(r)
        BY <1>1, <1>4, <4>1, <4>3, FoundClose
      <4>4. CASE Failure(r) \/ Incr(r) \/ SetDeadline(r) \/ Open(r)
        BY <1>1, <1>4, <4>1, <4>4, FoundCount
      <4> QED
        BY <4>1, <4>2, <4>3, <4>4 DEF Handle
    <3>3. CASE r = q /\ (RedisError(q) \/ Arrive(q) \/ Answer(q))
      <4>1. pc'[r] \in {"failure", "idle", "can_request", "success"}
        BY <1>1, <3>3 DEF RedisError, Arrive, Answer, Goto, TypeOK
      <4> QED
        BY <4>1, FoundOutside DEF InProbe, InClose, InCount
    <3>4. CASE r # q /\ (Arrive(q) \/ Answer(q))
      <4>1. pc'[r] = pc[r] /\ UNCHANGED <<state, failures, opensAt>>
        BY <1>1, <3>4 DEF Arrive, Answer, Goto, TypeOK, breaker
      <4> QED
        BY <2>3, <4>1
    <3> QED
      BY <2>4, <3>1, <3>2, <3>3, <3>4
  <2>5. ASSUME NEW p \in Procs, Crash(p), NEW r \in Requests PROVE Found(r)'
    <3>1. pc'[r] \in {pc[r], "idle"} /\ UNCHANGED <<state, failures, opensAt>>
      BY <2>5 DEF Crash, breaker
    <3>2. CASE pc'[r] = "idle"
      BY <3>2, FoundOutside DEF InProbe, InClose, InCount
    <3> QED
      BY <2>3, <3>1, <3>2
  <2>6. ASSUME UpstreamFails \/ UpstreamRecovers, NEW r \in Requests PROVE Found(r)'
    BY <2>3, <2>6 DEF UpstreamFails, UpstreamRecovers, breaker
  <2>7. \A r \in Requests : Found(r)'
    BY <1>4, <2>4, <2>5, <2>6 DEF MethodStep, Step, Usual
  <2> QED
    BY <1>1, <2>1, <2>2, <2>7 DEF FoundIInv, Found
<1>5. CASE UNCHANGED methodVars
  <2>1. UNCHANGED <<state, failures, opensAt, pc, found>>
    BY <1>5 DEF methodVars, vars
  <2>2. NoMethodFound'
    BY <2>1 DEF FoundIInv, NoMethodFound, InMethod, Keys
  <2>3. \A q \in Requests : ProbeFound(q)' /\ CloseFound(q)' /\ CountFound(q)'
    BY <1>1, <2>1 DEF Found, ProbeFound, CloseFound, CountFound, Keys, Elapsed,
       CountUp, Trips
  <2> QED
    BY <1>1, <1>2, <2>1, <2>2, <2>3 DEF FoundIInv
<1> QED
  BY <1>3, <1>4, <1>5 DEF MethodNext

\* In one process, at every command of a method and whatever failed before, how far
\* the method has got says how the keys in Redis differ from what it found.
THEOREM MethodInvariant == OneProcess => (MethodSpec => []FoundIInv)
<1> SUFFICES ASSUME OneProcess PROVE MethodSpec => []FoundIInv
  OBVIOUS
<1>1. MethodInit => FoundIInv
  <2> SUFFICES ASSUME MethodInit PROVE FoundIInv
    OBVIOUS
  <2>1. Init /\ found = Keys
    BY DEF MethodInit
  <2>2. IInv
    BY <2>1, InitIInv
  <2>3. Keys \in [state : States, failures : 0..FailureCap,
                  opensAt : 0..Recovery \cup {NoDeadline}]
    BY <2>2 DEF IInv, TypeOK, Keys
  <2>4. \A q \in Requests : pc[q] = "idle"
    BY <2>1 DEF Init
  <2>5. \A q \in Requests : ProbeFound(q) /\ CloseFound(q) /\ CountFound(q)
    BY <2>4 DEF ProbeFound, CloseFound, CountFound, InProbe, InClose
  <2> QED
    BY <2>1, <2>2, <2>3, <2>5 DEF FoundIInv, NoMethodFound
<1>2. FoundIInv /\ [MethodNext]_methodVars => FoundIInv'
  BY FoundStep
<1> QED
  BY <1>1, <1>2, PTL DEF MethodSpec

-----------------------------------------------------------------------------
\* What a method leaves behind.

LEMMA NotBegun ==
  ASSUME NEW q \in Requests, pc[q] \notin InProbe \cup InClose \cup InCount
  PROVE  LeavesWell(q) /\ ~LeavesAny(q)
  BY DEF LeavesWell, LeavesAny, Leaves

\* The keys are recorded with the step that leaves a method.
LEMMA RecordedAtTheEnd ==
  ASSUME MethodStep, Exclusive, NEW q \in Requests, pc[q] \in OnLoop,
         \A r \in Requests \ {q} : pc'[r] \in {pc[r], "idle"},
         pc'[q] \notin InProbe \cup InClose \cup InCount
  PROVE  found' = Keys'
  BY AloneInMethod DEF MethodStep

LEMMA ProbeEnds ==
  ASSUME FoundIInv, MethodStep, NEW q \in Requests, found' = Keys',
         pc[q] \in InProbe, Deadline(q) \/ HalfOpen(q), pc'[q] # "half_open"
  PROVE  LeavesWell(q)
<1>1. TypeOK /\ found = Keys /\ state = "OPEN"
  BY DEF FoundIInv, IInv, ProbeFound
<1>2. CASE Deadline(q)
  <2>1. pc'[q] = "idle" /\ UNCHANGED <<state, failures, opensAt>>
    BY <1>1, <1>2 DEF Deadline, Goto, TypeOK, breaker
  <2>2. found' = found
    BY <1>1, <2>1 DEF Keys
  <2> QED
    BY <2>1, <2>2 DEF LeavesWell, Leaves, ProbeLeaves, InProbe, InClose, InCount
<1>3. CASE HalfOpen(q)
  <2>1. /\ pc[q] = "half_open" /\ pc'[q] = "awaiting" /\ Elapsed
        /\ state' = "HALF_OPEN" /\ UNCHANGED <<failures, opensAt>>
    BY <1>1, <1>3 DEF HalfOpen, Forward, Goto, TypeOK, FoundIInv, ProbeFound
  <2>2. /\ found.state = "OPEN" /\ found.opensAt <= 0 /\ found'.state = "HALF_OPEN"
        /\ found'.failures = found.failures /\ found'.opensAt = found.opensAt
    BY <1>1, <2>1 DEF Keys, Elapsed
  <2>3. Method!Pass
    BY <2>2 DEF Method!Pass, Method!Passable
  <2> QED
    BY <2>1, <2>3 DEF LeavesWell, Leaves, ProbeLeaves, InProbe, InClose, InCount
<1> QED
  BY <1>2, <1>3

LEMMA CloseEnds ==
  ASSUME FoundIInv, NEW q \in Requests, found' = Keys', ClearDeadline(q)
  PROVE  LeavesWell(q)
<1>1. /\ pc[q] = "clear_deadline" /\ pc'[q] = "respond"
      /\ opensAt' = NoDeadline /\ UNCHANGED <<state, failures>>
  BY DEF FoundIInv, IInv, TypeOK, ClearDeadline, Goto
<1>2. state = "CLOSED" /\ failures = 0 /\ found.state # "CLOSED"
  BY <1>1 DEF FoundIInv, CloseFound, InClose
<1>3. found'.state = "CLOSED" /\ found'.failures = 0 /\ found'.opensAt = NoDeadline
  BY <1>1, <1>2 DEF Keys
<1>4. Method!Succeed
  BY <1>2, <1>3 DEF Method!Succeed, Method!NoDeadline, NoDeadline
<1> QED
  BY <1>1, <1>4 DEF LeavesWell, Leaves, CloseLeaves, InProbe, InClose, InCount

\* The two ways in which a recorded failure is complete.
LEMMA CountEnds ==
  ASSUME FoundIInv, NEW q \in Requests, found' = Keys',
         (Incr(q) /\ pc'[q] # "set_deadline") \/ Open(q)
  PROVE  LeavesWell(q)
<1> USE DEF Method!Trips, Method!CountUp, Trips, CountUp
<1>1. TypeOK /\ DeadlineCounts
  BY DEF FoundIInv, IInv
<1>2. CASE Incr(q) /\ pc'[q] # "set_deadline"
  <2>1. /\ pc[q] = "incr" /\ failures' = CountUp(failures)
        /\ UNCHANGED <<state, opensAt>> /\ ~Trips(seen[q], failures')
    BY <1>1, <1>2 DEF Incr, TripBegins, Goto, TypeOK
  <2>2. found = Keys /\ seen[q] = state
    BY <2>1 DEF FoundIInv, CountFound, IInv, Uninterrupted
  <2>3. /\ found'.failures = Method!CountUp(found.failures)
        /\ found'.state = found.state /\ found'.opensAt = found.opensAt
        /\ ~Method!Trips(found'.failures)
    BY <2>1, <2>2 DEF Keys
  <2>4. Method!FailBy(Recovery - sinceTrip')
    BY <2>3 DEF Method!FailBy
  <2> QED
    BY <1>2, <2>1, <2>4 DEF LeavesWell, Leaves, CountLeaves, InProbe, InClose, InCount
<1>3. CASE Open(q)
  <2>1. /\ pc[q] = "open" /\ state' = "OPEN" /\ UNCHANGED <<failures, opensAt, sinceTrip>>
    BY <1>3 DEF Open, history
  <2>2. opensAt = Recovery - sinceTrip
    BY <1>1, <2>1 DEF FoundIInv, IInv, Midway, DeadlineCounts
  <2>3. failures = CountUp(found.failures) /\ Trips(found.state, failures)
    BY <2>1 DEF FoundIInv, CountFound
  <2>4. /\ found'.failures = Method!CountUp(found.failures)
        /\ found'.state = "OPEN" /\ found'.opensAt = Recovery - sinceTrip'
        /\ Method!Trips(found'.failures)
    BY <2>1, <2>2, <2>3 DEF Keys
  <2>5. Method!FailBy(Recovery - sinceTrip')
    BY <2>4 DEF Method!FailBy
  <2> QED
    BY <1>3, <2>1, <2>5 DEF LeavesWell, Leaves, CountLeaves, InProbe, InClose, InCount
<1> QED
  BY <1>2, <1>3

\* A method that is cut short: its next command is not executed.
LEMMA CutShort ==
  ASSUME FoundIInv, NEW q \in Requests, found' = Keys',
         UNCHANGED <<state, failures, opensAt, sinceTrip>>,
         pc'[q] \in {"idle", "failure"}
  PROVE  LeavesWell(q)
<1> USE DEF Method!Trips, Method!CountUp, Trips, CountUp
<1>1. TypeOK /\ ProbeFound(q) /\ CloseFound(q) /\ CountFound(q)
  BY DEF FoundIInv, IInv
<1>2. Keys' = Keys
  BY DEF Keys
<1>3. CASE pc[q] \in InProbe \/ pc[q] = "close" \/ pc[q] = "incr"
  <2>1. found' = found
    BY <1>1, <1>2, <1>3 DEF ProbeFound, CloseFound, CountFound
  <2>2. ~Incr(q) \/ Method!FailBy(Recovery - sinceTrip')
    <3>1. SUFFICES ASSUME Incr(q) PROVE Method!FailBy(Recovery - sinceTrip')
      OBVIOUS
    <3>2. pc[q] = "incr" /\ pc'[q] # "set_deadline"
      BY <3>1 DEF Incr
    <3> QED
      BY <3>1, <3>2, CountEnds DEF LeavesWell, Leaves, CountLeaves, InCount
  <2>3. ~Open(q)
    BY <1>3 DEF Open, InProbe
  <2> QED
    BY <1>3, <2>1, <2>2, <2>3
       DEF LeavesWell, Leaves, ProbeLeaves, CloseLeaves, CountLeaves, InProbe, InClose, InCount
<1>4. CASE pc[q] \in {"clear_failures", "clear_deadline"}
  <2>1. /\ found.state # "CLOSED" /\ found'.state = "CLOSED"
        /\ found'.failures \in {found.failures, 0} /\ found'.opensAt = found.opensAt
    BY <1>1, <1>2, <1>4 DEF CloseFound, InClose, Keys
  <2>2. Method!TornSucceed
    BY <2>1 DEF Method!TornSucceed
  <2> QED
    BY <1>4, <2>2 DEF LeavesWell, Leaves, CloseLeaves, InProbe, InClose, InCount
<1>5. CASE pc[q] \in {"set_deadline", "open"}
  <2>1. /\ found'.state = found.state
        /\ found'.failures = Method!CountUp(found.failures)
        /\ Method!Trips(found'.failures)
    BY <1>1, <1>2, <1>5 DEF CountFound, Keys
  <2>2. found'.opensAt \in {found.opensAt, Recovery - sinceTrip'}
    BY <1>1, <1>2, <1>5 DEF CountFound, Keys, FoundIInv, IInv, Midway, DeadlineCounts
  <2>3. Method!TornFailBy(Recovery - sinceTrip')
    BY <2>1, <2>2 DEF Method!TornFailBy
  <2>4. ~Incr(q) /\ (Open(q) => LeavesWell(q))
    BY <1>5, CountEnds DEF Incr
  <2> QED
    BY <1>5, <2>3, <2>4 DEF LeavesWell, Leaves, CountLeaves, InProbe, InClose, InCount
<1>6. CASE pc[q] \notin InProbe \cup InClose \cup InCount
  BY <1>6, NotBegun
<1> QED
  BY <1>3, <1>4, <1>5, <1>6 DEF InProbe, InClose, InCount

LEMMA EveryLeaveStep ==
  ASSUME FoundIInv, MethodStep, NEW q \in Requests
  PROVE  LeavesWell(q)
<1>1. TypeOK /\ Exclusive
  BY DEF FoundIInv, IInv
<1>2. CASE pc[q] \notin InProbe \cup InClose \cup InCount
  BY <1>2, NotBegun
<1>3. CASE pc'[q] = pc[q]
  BY <1>3 DEF LeavesWell, Leaves
<1>4. CASE pc[q] \in InProbe \cup InClose \cup InCount /\ pc'[q] # pc[q]
  <2>1. pc[q] \in OnLoop
    BY <1>4, MethodIsOnLoop
  <2>2. \A r \in Requests \ {q} : ~Handle(r) /\ ~RedisError(r) /\ ~Arrive(r) /\ ~Answer(r)
    <3>1. \A r \in Requests \ {q} : pc[r] \notin OnLoop
      BY <1>1, <2>1 DEF Exclusive
    <3>2. \A r \in Requests \ {q} : ~Handle(r) /\ ~RedisError(r)
      BY <1>1, <3>1, OnTheLoop
    <3>3. \A r \in Requests \ {q} : ~Arrive(r) /\ ~Answer(r)
      BY <1>1, <1>4 DEF Arrive, Answer, Goto, TypeOK
    <3> QED
      BY <3>2, <3>3
  <2>3. ~Arrive(q) /\ ~Answer(q)
    BY <1>4 DEF Arrive, Answer, InProbe, InClose, InCount
  <2>4. ~UpstreamFails /\ ~UpstreamRecovers
    BY <1>4 DEF UpstreamFails, UpstreamRecovers
  <2>5. Handle(q) \/ RedisError(q) \/ \E p \in Procs : Crash(p)
    BY <2>2, <2>3, <2>4 DEF MethodStep, Step, Usual
  <2>6. ASSUME RedisError(q) \/ \E p \in Procs : Crash(p) PROVE LeavesWell(q)
    <3>1. \A r \in Requests \ {q} : pc'[r] \in {pc[r], "idle"}
      BY <1>1, <2>6 DEF RedisError, Crash, Goto, TypeOK
    <3>2. pc'[q] \in {"idle", "failure"}
      BY <1>1, <1>4, <2>6 DEF RedisError, Crash, Goto, TypeOK
    <3>3. UNCHANGED <<state, failures, opensAt, sinceTrip>>
      BY <2>6 DEF RedisError, Crash, breaker, history
    <3>4. found' = Keys'
      BY <1>1, <2>1, <3>1, <3>2, RecordedAtTheEnd DEF InProbe, InClose, InCount
    <3> QED
      BY <3>2, <3>3, <3>4, CutShort
  <2>7. ASSUME Handle(q) PROVE LeavesWell(q)
    <3>1. \A r \in Requests \ {q} : pc'[r] = pc[r]
      BY <1>1, <2>7, OnTheLoop
    <3>2. pc'[q] \notin InProbe \cup InClose \cup InCount => found' = Keys'
      BY <1>1, <2>1, <3>1, RecordedAtTheEnd
    <3>3. CASE Deadline(q) \/ HalfOpen(q)
      <4>1. pc[q] \in InProbe /\ pc'[q] \in {"idle", "half_open", "awaiting"}
        BY <1>1, <3>3 DEF Deadline, HalfOpen, Forward, Goto, TypeOK, InProbe
      <4>2. CASE pc'[q] = "half_open"
        BY <4>1, <4>2 DEF LeavesWell, Leaves, InProbe, InClose, InCount
      <4>3. CASE pc'[q] # "half_open"
        <5>1. found' = Keys'
          BY <3>2, <4>1, <4>3 DEF InProbe, InClose, InCount
        <5> QED
          BY <3>3, <4>1, <4>3, <5>1, ProbeEnds
      <4> QED
        BY <4>2, <4>3
    <3>4. CASE ClearDeadline(q)
      <4>1. pc'[q] = "respond"
        BY <1>1, <3>4 DEF ClearDeadline, Goto, TypeOK
      <4> QED
        BY <3>2, <3>4, <4>1, CloseEnds DEF InProbe, InClose, InCount
    <3>5. CASE Close(q) \/ ClearFailures(q) \/ SetDeadline(q)
      BY <1>1, <3>5 DEF Close, ClearFailures, SetDeadline, Goto, TypeOK,
         LeavesWell, Leaves, InProbe, InClose, InCount
    <3>6. CASE Incr(q)
      <4>1. pc[q] = "incr" /\ pc'[q] \in {"set_deadline", "idle"}
        BY <1>1, <3>6 DEF Incr, TripBegins, Goto, TypeOK
      <4>2. CASE pc'[q] = "set_deadline"
        BY <4>1, <4>2 DEF LeavesWell, Leaves, InProbe, InClose, InCount
      <4>3. CASE pc'[q] = "idle"
        BY <3>2, <3>6, <4>3, CountEnds DEF InProbe, InClose, InCount
      <4> QED
        BY <4>1, <4>2, <4>3
    <3>7. CASE Open(q)
      <4>1. pc'[q] = "idle"
        BY <1>1, <3>7 DEF Open, Goto, TypeOK
      <4> QED
        BY <3>2, <3>7, <4>1, CountEnds DEF InProbe, InClose, InCount
    <3>8. CASE CanRequest(q) \/ Success(q) \/ Respond(q) \/ Failure(q)
      BY <1>4, <3>8 DEF CanRequest, Success, Respond, Failure, InProbe, InClose, InCount
    <3> QED
      BY <2>7, <3>3, <3>4, <3>5, <3>6, <3>7, <3>8 DEF Handle
  <2> QED
    BY <2>5, <2>6, <2>7
<1> QED
  BY <1>2, <1>3, <1>4

\* Outside the methods no command writes a key.
LEMMA OnlyMethodsStep ==
  ASSUME FoundIInv, MethodStep
  PROVE  UNCHANGED found \/ \E q \in Requests : LeavesAny(q)
<1>1. CASE InMethod'
  BY <1>1 DEF MethodStep
<1>2. CASE ~InMethod' /\ InMethod
  <2>1. PICK q \in Requests : pc[q] \in InProbe \cup InClose \cup InCount
    BY <1>2 DEF InMethod
  <2>2. pc'[q] \notin InProbe \cup InClose \cup InCount
    BY <1>2 DEF InMethod
  <2> QED
    BY <2>1, <2>2 DEF LeavesAny, Leaves
<1>3. CASE ~InMethod' /\ ~InMethod
  <2>1. found = Keys /\ found' = Keys'
    BY <1>3 DEF FoundIInv, NoMethodFound, MethodStep
  <2>2. UNCHANGED <<state, failures, opensAt>>
    <3>1. ASSUME NEW q \in Requests, Handle(q)
          PROVE  UNCHANGED <<state, failures, opensAt>>
      <4>1. pc[q] \notin InProbe \cup InClose \cup InCount
        BY <1>3 DEF InMethod
      <4>2. ~HalfOpen(q) /\ ~Close(q) /\ ~ClearFailures(q) /\ ~ClearDeadline(q)
        BY <4>1 DEF HalfOpen, Close, ClearFailures, ClearDeadline, InProbe, InClose
      <4>3. ~Incr(q) /\ ~SetDeadline(q) /\ ~Open(q)
        BY <4>1 DEF Incr, SetDeadline, Open, InCount
      <4> QED
        BY <3>1, <4>2, <4>3 DEF Handle, CanRequest, Deadline, Success, Respond,
           Failure, breaker
    <3>2. ASSUME NEW q \in Requests, Arrive(q) \/ Answer(q) \/ RedisError(q)
          PROVE  UNCHANGED <<state, failures, opensAt>>
      BY <3>2 DEF Arrive, Answer, RedisError, breaker
    <3>3. ASSUME UpstreamFails \/ UpstreamRecovers \/ \E p \in Procs : Crash(p)
          PROVE  UNCHANGED <<state, failures, opensAt>>
      BY <3>3 DEF UpstreamFails, UpstreamRecovers, Crash, breaker
    <3> QED
      BY <3>1, <3>2, <3>3 DEF MethodStep, Step, Usual
  <2> QED
    BY <2>1, <2>2 DEF Keys
<1> QED
  BY <1>1, <1>2, <1>3

LEMMA LeaveStep ==
  FoundIInv /\ [MethodNext]_methodVars
    => [(\A q \in Requests : LeavesWell(q)) /\ OnlyMethodsChange]_methodVars
<1> SUFFICES ASSUME FoundIInv, [MethodNext]_methodVars, ~UNCHANGED methodVars
             PROVE  (\A q \in Requests : LeavesWell(q)) /\ OnlyMethodsChange
  OBVIOUS
<1>1. CASE MethodStep
  BY <1>1, EveryLeaveStep, OnlyMethodsStep DEF OnlyMethodsChange
<1>2. CASE MethodTick
  <2>1. \A q \in Requests : LeavesWell(q)
    BY <1>2 DEF MethodTick, Tick, LeavesWell, Leaves
  <2>2. found \in [state : States, failures : 0..FailureCap,
                   opensAt : 0..Recovery \cup {NoDeadline}]
    BY DEF FoundIInv
  <2>3. CASE found.opensAt > 0
    <3>1. /\ found'.opensAt = found.opensAt - 1
          /\ found'.state = found.state /\ found'.failures = found.failures
      BY <1>2, <2>2, <2>3 DEF MethodTick
    <3> QED
      BY <2>1, <2>3, <3>1 DEF Method!Tick, OnlyMethodsChange
  <2>4. CASE ~(found.opensAt > 0)
    <3>1. found' = found
      BY <1>2, <2>2, <2>4 DEF MethodTick
    <3> QED
      BY <2>1, <3>1 DEF OnlyMethodsChange
  <2> QED
    BY <2>3, <2>4
<1> QED
  BY <1>1, <1>2 DEF MethodNext

\* In one process, wherever a crash or a Redis error strikes: can_request lets a
\* probe through or leaves no trace; record_success and record_failure do what they
\* promise, or nothing, or leave one of the torn outcomes that Pipeline reckons with;
\* and nothing else writes the keys.
THEOREM MethodsLeaveWell == OneProcess => (MethodSpec => MethodsLeave)
<1> QED
  BY MethodInvariant, LeaveStep, PTL DEF MethodSpec, MethodsLeave
=============================================================================
