# Rate Guardian: TLA+ models and proofs

This directory holds TLA+ models of the gateway, the TLC runs that check them
on small instances, and TLAPS proofs of what holds for every instance. File
names without a directory are modules here; `app/...` is the gateway's source.

To check a run: `tlc -config LimiterSingle.cfg MCRateLimiter`.
To check the proofs of a module: `tlapm RateLimiterProofs.tla`.

## 1. The system

One uvicorn process (Dockerfile) with one asyncio event loop serves
`/proxy/...`; the `/rules`, `/dashboard` and `/logs` handlers are plain functions and
run in threads; a scheduler thread purges the log once a day. State is kept in
Redis (rate limits, circuit state, a copy of the rules) and in a SQL database
(rules, request log). Nothing in the code takes a lock or uses a transaction
over more than one statement. State in Redis makes several gateway processes
possible, so the models allow them and say what they cost.

| Component | State | Operations | What is hard | What makes it correct |
|---|---|---|---|---|
| Rate limiter (`rate_limiter.py`) | one sorted set of time stamps per client, with an expiry | `check` | four Redis calls, not one; floats against whole seconds; all rules of a client share a set | never more than the limit in the window; no spurious rejection; no admitted check forgotten |
| Circuit breaker (`circuit_breaker.py`) | three Redis keys per upstream | `can_request`, `record_success`, `record_failure` | late answers, partial writes at a crash, several processes | trips at the threshold, probes only after the recovery time, closes again |
| Rules and cache (`rule_repository.py`, `rules.py`) | `rules` table, Redis list with a TTL of 60 s | `create`, `set_active`, `delete`, `match` | a fill racing a commit, a lost invalidation, concurrent edits | cached rules are recent; deleted rules stay deleted |
| Pipeline (`pipeline.py`, `gateway.py`) | requests in flight | three steps, early returns, one `except` | interleaving at the awaits, exceptions after side effects | rejected requests are not sent; the breaker hears what the client is told; one log entry |
| Events and log service (`event_manager.py`, `log_listener.py`, `log_service.py`) | scheduled tasks | `emit`, `record_async`, `_write` | fire and forget | the log agrees with the answers and misses nothing sent |
| Request log (`log_repository.py`, `main.py`, `dashboard.py`) | `request_logs` table, a daily job | `create`, `stats`, `delete_older_than` | two SELECTs for one report, restarts, missed runs | reports add up; rows go in time and not early |
| Sessions and pool (`database.py`, `Depends(get_db)`) | the engine's 15 connections | check-out at the first statement, return at COMMIT or `close` | the loop waits for connections whose holders wait for the loop | nothing leaks, only a crowd makes a wait time out, everyone ends |
| Proxy (`proxy.py`) | none | `forward`: two awaits | either may raise | in Pipeline and CircuitBreaker |
| Dashboard page, schemas, contracts, composition root, demo | none of their own | rendering, validation, wiring | - | not modelled, see section 7 |

Interaction: the pipeline calls `RuleRepository.match`, the limiter and the
breaker synchronously on the event loop, awaits the proxy, calls the breaker
again and emits an event; the listener schedules a log write as a task on the
same loop. The `/rules` threads and the pipeline meet in the database, in
the Redis copy of the rules and in the connection pool.

## 2. Modules

| Module | Models | One action is |
|---|---|---|
| `RateLimiter` | `SlidingWindowRateLimiter.check` on one Redis key | one Redis round trip, or a clock tick |
| `SlidingWindow` | what `RateLimiterBase.check` promises: one decision from all checks ever allowed | a call, a decision, an answer |
| `CircuitBreaker` | `RedisCircuitBreaker` driven by `CircuitBreakerStep` and `ProxyStep`, one upstream | one Redis command, the await, or a tick |
| `AtomicBreaker` | what `CircuitBreakerBase` promises: three methods, one step each; and what they leave when cut short | one method |
| `BreakerMethods` | `CircuitBreaker` with a history of what the method under way found, mapped to `AtomicBreaker` | as in `CircuitBreaker` |
| `RuleCache` | `RuleRepository` and the `/rules` handlers | one SQL statement with its commit, or one Redis command |
| `Pipeline` | `GatewayPipeline.run`, the events and the log writes, composed with `AtomicBreaker` | what runs between two points where a step may end or raise |
| `RequestLog` | the log table, the reports and the purge | one SQL statement |
| `ConnectionPool` | the sessions of every handler and log write of one process | a check-out, a return, or the code between them |
| `MC...` | small instances of each | |
| `...Proofs` | theorems on `RateLimiter`, `CircuitBreaker`, `BreakerMethods`, `RuleCache`, `Pipeline`, `RequestLog`, `ConnectionPool` | |
| `ReplicasProofs` | theorems on `RateLimiter` with several processes | |

Common conventions: `pc`, `step`, `match`, `edit` and `report` say which call comes next;
variables commented as *history* are read by properties only; a definition
announced as a *mutated form* is a plausible bug that the property it is
paired with detects, and is part of no specification.

**RateLimiter.** `zset` is the sorted set (member = score = time stamp), `ttl` the
expiry; `Prune`, `Count`, `Add`, `Expire` and `Reject` are the calls of `check` in the order
of the code, `ReadClock` the reading of `time.time()`. Time is in ticks, `Second` to the
second, so that whole-second arithmetic (`EXPIRE window + 1`) is
distinguished from the floats. `CoarseClock` lets two readings coincide,
`Failures` lets a call raise, `MaxStall` bounds how long a check takes. What the code does
with the counts it has read goes into `pc`. `ResetIn` is the `reset_in` of a rejection, a
function of the state at its `ZRANGE`; `remaining`, and the `reset_in` of an allowed check, are not
looked at. `Ideal` maps the state to `SlidingWindow`: the stamps ever allowed are the history
`admitted`, the decision is taken at the ZCARD (`Verdict`). `SlidingWindow` allows a rule with the shortest
window (`Exact`) only below its limit, and rejects anyone only if that many checks were allowed in the window.

**CircuitBreaker.** `state`, `failures` and `opensAt` are the three keys; the deadline is kept
as the time left. A request holds the event loop of its process (`OnLoop`,
`LoopFree`) except in the await. `Answers` says what the await may end in. `Faults`
selects client disconnects, responses that cannot be built, Redis errors
(caught by `ProxyStep` inside `record_success`, fatal to the request elsewhere) and
crashes. `Usual` is what happens without the last two. `strays` is a history variable: the requests that have failed although the upstream never had.
`Atomic` maps the state to `AtomicBreaker`: a method takes effect with the command that decides it (the
GET of an OPEN circuit's deadline, the GET of `record_success`, the INCR), and the commands after it stutter.

**BreakerMethods.** With crashes and Redis errors there is no such command: a method may stop after any of them. `found` is a history
variable, the three keys as the method under way found them, with the deadline running on; it is brought up to date when nobody is in
a method. So `found` changes, but for the time, only when a method is left, and `Method` says by which of `AtomicBreaker`'s operators:
`Pass`, `Succeed` or `FailBy` if it is complete, `TornSucceed`, `TornFailBy` or nothing if it was cut short. These are the ones that `Pipeline` composes. The
deadline of a trip counts from its SET, a command before the method ends, hence the parameter of `FailBy`; in `Pipeline` a method takes no time.

**RuleCache.** A rule's pattern and limits never change, so a cached list is a set
of rules. `table` is the rules table, `cache` and `ttl` the Redis key. `Find` and `Toggle` are separate,
as `get_by_id` and the UPDATE are; a toggle whose row has gone raises
(StaleDataError). `age` records how long ago a list was the active one.

**Pipeline.** The answers of limiter and upstream are choices, those of the breaker are
`AtomicBreaker`'s, on keys that all requests share. A method that Redis fails in, or that a crash cuts short, leaves
what `TornSucceed` and `TornFail` say, or takes effect without its reply. `LoopFree` makes everything between
awaits atomic with respect to other requests and tasks. `lost` remembers about whom a log write was lost, `announced` whose RequestForwarded was
emitted, `succeeded` and `failed` what the breaker has heard, also from a method that took effect, whole or torn, and then raised.

**RequestLog.** Ages instead of clocks; a slot in `Rows` is reused once its row is deleted.
`Page(g)` runs on the event loop of `g` and so excludes its writes; `Json(g)` and the purge
are threads. The history `newcomers` is the rows written between the two counts of a report. A run of the purge can be lost to a restart, a failed DELETE or a scheduler that wakes too late for it (`Misfire`: APScheduler's grace time is a second);
the history `calm` counts the ticks since the last loss. A purge takes less than the interval between two (time stops for one that does not).

**ConnectionPool.** `held` is the set of sessions that have a connection, at most `Size` (the engine's
default: 5 and 10 more). A session takes one with its first statement and keeps it to a COMMIT
or to `close`. On the event loop (`Load`, `Render`, `WriteCheckout`) the wait for one stops the loop; in a thread
(`Checkout`) it does not. `get_db`'s `close` runs in a thread, but it is for the loop to start it (`Dispatch`), after the
handler has returned. `Expires` is the pool's timeout of 30 s: it can end a wait whenever the pool is empty. `losses` counts
how often the cached rules were missing, or could not be cached, and starts again whenever no gateway request has a connection.

## 3. Runs

| Run | Instance | Shows |
|---|---|---|
| LimiterSingle | 1 process, rules 2 per 1 s and 3 per 2 s on one key, 3 ticks a second, 12 ticks | `WindowBound`, `AdmittedRemembered`: the shortest rule is enforced exactly; `ImplementsSlidingWindow`; `IInv` is the invariant of the proofs |
| LimiterReplicas | 2 processes, limit 1, 4 ticks a second, 13 ticks | `WindowBound` with its slack of 2 per additional process, which is tight; nothing admitted is forgotten (part of `ReplicasIInv`, the invariant of the proof); `RetryAfterHonest` |
| LimiterFaults | 2 processes, coarse clock, failures | `RejectsOnlyWhenFull`: no spurious rejection whatever fails; `RacesIInv` |
| LimiterTwoWindows | as LimiterSingle | **violation** of `EveryRuleBounded` |
| BreakerFair | 1 process, 2 requests, threshold 2, recovery 2, fair | `ClosedBelowThreshold`, `TripsAtThreshold`, `ImplementsAtomicBreaker`, `Recovers` |
| BreakerCrash | 1 process, 3 requests, all faults | `OpenHasDeadline`, `HalfOpenWaits`; `OpensWithCause`: a healthy upstream is cut off only after a threshold of requests that failed otherwise; `MethodsLeave`: a method that is cut short leaves one of the torn outcomes of `AtomicBreaker`; `FoundIInv`, the invariant of the proofs, of which CircuitBreaker's `IInv` is a part |
| BreakerReplicas | 2 processes, 1 request each, crashes and Redis errors, fair | `Recovers`: no combination of half-written keys, and no interleaving of two processes, keeps the circuit from closing once the faults end |
| BreakerProbes | 1 process, 2 requests | **violation** of `SingleProbe` |
| RuleCacheFaults | 1 rule, 2 gateways, 2 editors, TTL 2, stall 1, Redis errors and crashes, fair | `CacheIsRecent`, `DeletedStaysDeleted`, `ChangesTakeEffect`, `IInv` |
| PipelineAll | 3 requests, threshold 2, recovery 1, all faults, fair | `OneEntryPerAnswer`, `RejectedNeverSent`, `ReportsMatchAnswers`, `OpenIsInTheLog`, `SentIsLogged`, `IInv` |
| LogTable | 3 rows, 1 process, window 1, retention 2, interval 2, stall 1, restarts, failed DELETEs, misfires | `PageAddsUp`, `ReportsAddUp`, `PurgedInTime`, `KeptForRetention`, `IInv` |
| PoolStalls | 2 gateway requests with their log writes, 1 page, 1 thread, 4 connections, 2 losses at a time, fair | `NoLeak`, `MissesNeedLosses`, `TimeoutsNeedCrowd`, `EveryoneEnds`, `IInv` |

Each module's `TypeOK` is checked as part of its inductive invariant. The largest run has two million states, the
longest takes about two minutes.

**Why the bounds are enough.** Limiter: the clock bound is the only one that
cuts behaviours; it lets the longest window slide past its own length and the
key expire after the last admission, and limits 2 and 3 differ so that each rule
can be the one that admits too many. Breaker: a threshold of 2 distinguishes
first and last failure, a recovery of 2 ticks *before*, *at* and *after*; `FailureCap` is above
the threshold so that late failures are still seen; three requests are a trip,
a late answer and a newcomer. In BreakerReplicas crashes, Redis errors and the other process leave all 27 combinations of
state, counter and deadline behind between requests, with a request of either process to repair or to worsen them. RuleCache: two editors make commits
race, two gateways make a stale fill overwrite a fresh one; one rule already yields two distinct lists
that come back (toggled on and off). Pipeline: three requests and their log writes
interleave at every await; two of them open the circuit, the third meets it OPEN, HALF_OPEN or torn. RequestLog: one row above, one on and one below a boundary.
TypeOK of RequestLog, CircuitBreaker and RuleCache has finite ranges: ages and counters stop
at a cap one above the largest value a property asks for. RequestLog adds a window to that: the window of a page moves on while
the page is being made, and a row whose age no longer grows must not come into it (without this `Shrinks` is not inductive). ConnectionPool: four connections are as many as two losses, a
page and a thread can take, so that the pool runs empty, waits do time out, and the bound of
`TimeoutsNeedCrowd` is met exactly; the caches may be missed again and again. An interval of 2 and a stall of 1 let a purge
be missed, hang and catch up; `calm` stops one above the time after which it tells something.

**Deadlock** is checked except in Pipeline, where a finite set of requests is served and
the system comes to rest.

## 4. Fairness

- *Breaker*: time passes (WF on `Tick`); code on the loop runs on (WF on `Handle`);
  a request or an answer that is ready gets the loop sooner or later, although
  others may be in between (SF on `Arrive`, `Answer`): asyncio serves ready callbacks first in,
  first out, and httpx has a timeout of 15 s, so every await ends. That clients keep
  coming is an assumption on them: without requests an OPEN circuit stays OPEN, since only
  `can_request` moves it.
- *RuleCache*: time passes, a match on the loop and a handler in a thread run to their end. Nobody
  has to start one.
- Faults of *Redis* and *crashes* may come at any time and for ever, so `Recovers` promises nothing while they do: its premise `<>[][Tick \/ Usual]_vars` says
  that they end. It is a premise of the property, not an assumption of the specification.
- *Pipeline*: as in the breaker, and a scheduled task is run (SF, for the same reason). Requests need not come.
- *ConnectionPool*: threads run and a wait for a connection ends, with one or with the pool's timeout (WF on `Runs` and `Write`);
  what waits for its turn on the loop, an answer, a session to close or a log write, gets it (SF on `Turn`, `WriteStart`). Without
  the timeout (`ExpiresNever`) `EveryoneEnds` fails: the loop waits for itself for ever.
- *RateLimiter* and *RequestLog* have safety properties only.

## 5. What is proved

`X!InductiveInvariant` is `Spec => []IInv` for module `X`, under the assumption named in the table; TLC checks the same `IInv` (CircuitBreaker's as the first part of `FoundIInv`).

| Theorem | Statement | Assumes |
|---|---|---|
| `RateLimiterProofs!TypeCorrect` | `Spec => []TypeOK` | constants only |
| `RateLimiterProofs!InductiveInvariant` | `AsDeployed => (Spec => []IInv)` | one process, a clock that moves between readings, no lost call, a check shorter than a second |
| `RateLimiterProofs!LimitEnforced` | the same for `WindowBound` | the same |
| `RateLimiterProofs!NothingLost` | the same for `AdmittedRemembered` | the same |
| `RateLimiterProofs!Refinement` | `AsDeployed => (Spec => ImplementsSlidingWindow)` | the same |
| `RateLimiterProofs!PromiseSuffices` | `AsDeployed => (ImplementsSlidingWindow => []WindowBound)` | one process, so that the bound has no slack; nothing about `check` |
| `ReplicasProofs!ReplicasInvariant` | `AsReplicated => (Spec => []ReplicasIInv)` | any number of processes; otherwise as above, and rules that share their window |
| `ReplicasProofs!OvershootBounded` | the same for `WindowBound`: at most `Limit[r] + 2 (N - 1)` in a window | the same |
| `ReplicasProofs!NothingForgottenByReplicas` | the same for `AdmittedRemembered` | the same |
| `RateLimiterProofs!RacesInvariant` | `WithinWindow => (Spec => []RacesIInv)` | any number of processes, any clock, all failures; a check no longer than a window of more than a tick |
| `RateLimiterProofs!NoSpuriousRejection` | `WithinWindow => (Spec => RejectsOnlyWhenFull)` | the same |
| `RateLimiterProofs!RetryHonest` | `WithinSecond => (Spec => RetryAfterHonest)` | any number of processes, any clock, all failures; a check no longer than a second of more than a tick |
| `CircuitBreakerProofs!TypeCorrect` | `Spec => []TypeOK` | constants only |
| `CircuitBreakerProofs!InductiveInvariant` | `OneProcess => (Spec => []IInv)` | one process; all faults |
| `CircuitBreakerProofs!OpenCarriesDeadline` | `OneProcess => (Spec => []OpenHasDeadline)` | the same |
| `CircuitBreakerProofs!ProbesWait` | `OneProcess => (Spec => HalfOpenWaits)` | the same |
| `CircuitBreakerProofs!MethodsAreAtomic` | `OneProcess /\ NothingLost => (Spec => ImplementsAtomicBreaker)` | one process, no crash and no Redis error |
| `BreakerMethodsProofs!MethodInvariant` | `OneProcess => (MethodSpec => []FoundIInv)` | one process; all faults |
| `BreakerMethodsProofs!MethodsLeaveWell` | `OneProcess => (MethodSpec => MethodsLeave)` | the same |
| `CircuitBreakerProofs!LockoutBounded` | `Spec => []NeverLockedOut` | constants only: any number of processes, all faults |
| `CircuitBreakerProofs!CountsInvariant` | `OneProcess /\ NothingLost => (Spec => []Counts)` | one process, no crash and no Redis error |
| `CircuitBreakerProofs!RoomWhenClosed` | `OneProcess /\ NothingLost => (Spec => []ClosedBelowThreshold)` | the same |
| `CircuitBreakerProofs!TripsInTime` | `OneProcess /\ NothingLost => (Spec => []TripsAtThreshold)` | the same |
| `CircuitBreakerProofs!CutOffWithCause` | `Spec => []OpensWithCause` | constants only: any number of processes, all faults |
| `RuleCacheProofs!TypeCorrect` | `Spec => []TypeOK` | constants only |
| `RuleCacheProofs!InductiveInvariant` | `Spec => []IInv` | constants only |
| `RuleCacheProofs!CacheRecent` | `Spec => []CacheIsRecent` | constants only |
| `RuleCacheProofs!DeletedForGood` | `Spec => DeletedStaysDeleted` | constants only |
| `PipelineProofs!TypeCorrect` | `Spec => []TypeOK` | constants only |
| `PipelineProofs!InductiveInvariant` | `Spec => []IInv` | constants only |
| `PipelineProofs!LogAgreesWithAnswers` | `Spec => []OneEntryPerAnswer` | constants only |
| `PipelineProofs!RejectionsHold` | `Spec => []RejectedNeverSent` | constants only |
| `PipelineProofs!ReportsMatch` | `Spec => []ReportsMatchAnswers` | constants only |
| `PipelineProofs!TripsExplained` | `Spec => []OpenIsInTheLog` | constants only |
| `RequestLogProofs!TypeCorrect` | `Spec => []TypeOK` | constants only |
| `RequestLogProofs!InductiveInvariant` | `Spec => []IInv` | constants only |
| `RequestLogProofs!ReportsConsistent` | `Spec => []ReportsAddUp` | constants only |
| `RequestLogProofs!PageConsistent` | `Spec => []PageAddsUp` | constants only |
| `RequestLogProofs!Purged` | `Spec => []PurgedInTime` | constants only |
| `RequestLogProofs!Kept` | `Spec => KeptForRetention` | constants only |
| `ConnectionPoolProofs!TypeCorrect` | `Spec => []TypeOK` | constants only |
| `ConnectionPoolProofs!InductiveInvariant` | `Spec => []IInv` | constants only |
| `ConnectionPoolProofs!NothingLeaks` | `Spec => []NoLeak` | constants only |
| `ConnectionPoolProofs!MissesBounded` | `Spec => []MissesNeedLosses` | constants only |
| `ConnectionPoolProofs!TimeoutsExplained` | `Spec => []TimeoutsNeedCrowd` | constants only |

*Rate limiter, one process.* `WindowBound` is not inductive: when a check adds a stamp one must know that the
set it counted contained every admitted stamp in the window. `IInv` adds that: stamps
are in the past (`StampsArePast`), the key outlives the windows of all its entries
(`KeyOutlives`, which is where the second of slack in `EXPIRE window + 1` and `MaxStall <= Second` are used), admitted stamps
in the window are stored (`StillStored`), and a check past its ZCARD knows fewer than `Limit` admitted in
its window (`Midway`). It is stated for rules with the shortest window on the key, the
only ones for which `StillStored` survives the pruning of others. The refinement needs two facts more:
whatever is counted was allowed (`OnlyAdmitted`), so that a rejection is backed by admissions, and is inside the
window of who counts it (`JustPruned`). Every step then maps to one of `SlidingWindow` or changes nothing there.
`PromiseSuffices` is the other half: the limit follows from `SlidingWindow` and its five variables alone (`PromiseIInv`), so nothing is lost by reading the promise instead of the code.

*Rate limiter, several processes.* `Lasting` says that admitted stamps stay in the set as long as the present window lasts. The key may be under an
expiry that is too early for the newest stamp, but then a check that is about to renew it has not done so yet, and the expiry is
later than this check can last (`Adopted`). That does not bound the stamps of an *earlier* stretch, whose end a stalled check may still ask about: `Overshoot`
counts, for each `t`, the stamps of the stretch that ends in `t` together with the checks that have been let in. While the set holds
them all, whoever counts sees them, so each process is at most one check ahead of the count: `Limit + N - 1`. A pruning that takes one of them
is by a check later than `t`; from then on only the *other* processes' checks that had read the clock by `t` and have not counted yet
(`Undecided`) can add to the stretch: another `N - 1`. Both happen in LimiterReplicas, so the slack is tight.

*Rate limiter, whatever happens.* `RejectsOnlyWhenFull` needs that ZCARD counts nothing outside the window (`CountsWindow`), also what others added
after the pruning; that holds because their stamps are not older than a check can last (`OnTime`). `RetryAfterHonest` uses the same bound against the
rounding to whole seconds; that there is an oldest entry is an argument by well-founded minimum.

*Circuit breaker.* A trip sets the deadline before the state. The
invariant needs that the loop runs one request at a time (`Exclusive`), so that no close gets in between, and
that `opensAt` is the recovery time after the latest trip (`DeadlineCounts`). For the refinement it also says that
what a method has read or written is still so at its next command (`Uninterrupted`): the state at the INCR is the one that was
read, the counter at the DEL of the deadline is still zero. `NothingLost` is necessary: a method that is cut short leaves keys that no atomic method leaves.
Which keys it does leave is `MethodsLeaveWell`: `FoundIInv` says at each command of a method how far the keys are from what it found
(in `record_success` the state is CLOSED first, then the counter is gone; in `record_failure` the counter is up, then the deadline set), and each way
out of a method, its last command, an exception or a crash, is then one of the operators that `Pipeline` assumes. With several processes methods meet each other's half-written keys and
the deadline may go missing, but it is never wrong: `DeadlineCounts` survives any interleaving and is what `LockoutBounded` needs. A missing deadline has passed (`Elapsed`), so
no circuit refuses anybody beyond the recovery time of its latest trip.
The threshold is then an argument about whole methods: `Counts` relates the streak of failures to the state and the counter that the
abstract breaker has, and the refinement (`AtomicMove`) says how these change. `OpensWithCause` needs no process to be alone: before the
first failure of the upstream the counter and the requests that are about to raise it (`Pending`) are at most the `strays`, so that with fewer of these than the threshold
the circuit is CLOSED and nobody is on the way to open it (`StraysCover`). A method that is torn may lose a count, never add one.

*Rule cache.* `InHand` bounds the age of a list between SELECT and SETEX by the time waited, `InCache` that of the
cached list by stall plus time in the cache.

*Pipeline.* What a request has done follows from where it stands: `ReportsFollow` says what `step` and answer imply about `sent` and the reports, `Due` which entries
its events have asked for (`announced` is the one for RequestForwarded), and `LogFollows` that the rows and the writes still scheduled are these and no others, but for what a crash or the database took. `OpenIsInTheLog` is a counting argument across requests: each failure the
breaker has counted has a request of its own that explains it, in the log or `lost` (`Explainers`), and the threshold is reached by as many of them.

*Request log.* `Swept` bounds the age of a row by the retention and the time since the cutoff of the last purge that has finished, which is one interval more
while a purge is under way; for the step that finishes it, `Scheduled` relates the age of its cutoff to the time until the next. A run that is lost ends that, but then the
next one is at most an interval away, so either the table is swept or `calm` is no further than the job has got since (`SweepsNext`); a process that is calm for longer than an interval and a stall has therefore swept. `ReportsAddUp` needs that, but for the `newcomers`, the rows of a window only become fewer between the two SELECTs (`Shrinks`): the window ages as the rows do,
and a purge takes rows away. For the page of a process that is alone there are no newcomers (`AloneUndisturbed`): writes are on the loop the page holds. That is `PageAddsUp`.

*Connection pool.* Only one request or write waits on the loop (`OneWaits`), so a loss that has not been made good has at most one request
waiting to do it (`StillMissing`), and each loss explains one connection in the gateway's hands (`LossesCover`); the rest of a full pool is pages and threads,
since a write that holds a connection is the only one on the loop (`EmptyHanded`).

*What stays with TLC.* Liveness under fairness is outside what the prover does: `Recovers`, `ChangesTakeEffect`, `SentIsLogged` and
`EveryoneEnds` are model-checked only. Every other property of a passing run is stated by a theorem above. Their hypotheses are those under which the properties hold: section 6 says what goes wrong with
several processes at one breaker, with lost calls in the limiter, and with several processes and windows on one key. That rules share their window
in `AsReplicated` is necessary.

## 6. Disagreements between code and documentation

Shown by a run (and listed under "findings" in PROJECT.json):

- Rules of one client share a Redis key: a check of a short window deletes entries a longer
  one has to count (`EveryRuleBounded`).
- "HALF_OPEN - allow exactly one probe": all requests pass (`SingleProbe`).

Behaviours that the models contain and no run is spent on. Each is a
counterexample TLC gives when the formula is added as an invariant or property
and the constants are changed as said (two processes need a second process in `Procs` and `Home`):

- *Two processes, two windows.* `AdmittedRemembered` in LimiterReplicas with `Rules = {short, long}`, `Limit <- RuleLimit` and `MaxClock = 9`: a check of the long rule adds
  to the key under an old expiry and has not renewed it; one of the short rule prunes all but this entry, adds its own stamp, and the key expires before either EXPIRE. The check
  is allowed and forgotten. `WindowBound` is lost with it: at `Second = MaxStall = 6` and `MaxClock = 21` a window of the short rule has five checks where limit and slack allow four (after the loss at
  tick 13 two processes race, and a late prune makes room for a stalled check). That run is large: TLC reaches the state in seconds if checks may start only at the ticks 0, 10 (long), 11, 13, 14, 15, 16 and 20.
- *"If count < limit: add the current timestamp and allow"* (`app/models/services/rate_limiter.py:21`):
  `[][\A p \in Procs : pc[p] = "add" /\ pc'[p] = "expire" => Cardinality(zset') = Cardinality(zset) + 1]_vars` in LimiterFaults. With equal clock
  readings the second stamp is the same member of the set, so its check uses no quota; hence `~CoarseClock` in section 5.
- *Lost EXPIRE.* `EveryRuleBounded` with one process, `Rules = {long}`, `Failures = TRUE` and `MaxClock = 14`: an entry whose EXPIRE was lost keeps the key under an older expiry,
  which may pass between the ZADD and the EXPIRE of a later check; that check is allowed and forgotten.
- *"Notify the breaker that the last request to upstream failed"* (`app/models/services/interfaces.py:76`): `~everDown => state = "CLOSED"` in BreakerCrash. A client that leaves while
  its body is read is a failure of the upstream; `OpensWithCause` is what remains.
- *Success and failure.* `succeeded \cap failed = {}` in PipelineAll: when the response cannot be built, or Redis raises after `record_success` took effect, the request is reported both
  ways; `ReportsMatchAnswers` is what remains.
- *"blocked / total * 100"* (`app/views/schemas/dashboard.py:10`): `PageAddsUp` with `Json` in place of `Page`. Rows written between the two counts of the JSON report make more blocked
  than total requests, a negative number of allowed ones and a saturation above 100; `ReportsAddUp` is what remains.
- *"After FAILURE_THRESHOLD consecutive failures"* (`app/models/services/circuit_breaker.py:25`):
  `[][state = "CLOSED" /\ state' = "OPEN" => streak >= Threshold]_vars` in CircuitBreaker, from `Init`. `record_success` in CLOSED leaves the counter as it is, so failures
  with successes between them add up.
- *"Schedule a non-blocking log write"* (`app/models/services/log_service.py:33`): `writing # NoOne /\ Writer \notin held => Available` in ConnectionPool.
  The write waits for a connection on the event loop and stops every other request while it does.
- *Late success.* `[][state = "OPEN" => state' # "CLOSED"]_vars` in CircuitBreaker: the answer to a request sent before the trip closes the circuit without a probe.
- *Two processes.* `HalfOpenWaits` with two processes: the DEL of a close can follow the SET of a trip's deadline.
- *Stale fill.* `match[g] = "get" /\ Cached => cache = Active` with no edit in progress, in RuleCache: `CacheIsRecent` is what remains.
- *RequestBlocked after the upstream.* `t.blocked_by # "none" => t.request \notin sent` in Pipeline: reason `upstream_error`.
- *RequestForwarded, then 502.* With `"response"` in Pipeline one request has both events; hence `Undelivered` in `OneEntryPerAnswer`.
- *Unlogged 500.* `SentIsLogged` without its last disjunct: `record_failure` raises before its event.
- *Restarts.* `PurgedInTime` without its premise: a process restarted every 23 hours never purges.
- *Sent while OPEN.* `[][\A q \in Requests : q \in sent' \ sent => state # "OPEN"]_vars` in Pipeline: the circuit may open while the body of a request that has passed it is read.

## 7. Not modelled, and the plan

Not modelled: HTML rendering, response schemas and header handling (formatting),
`fnmatch` and input validation (pure data; the bounds of `RuleCreate` are assumptions of RateLimiter), `get_state`, `get_all`, `top_ips`, `get_recent`
(single reads that change nothing), wiring at start-up, demo and tests. Of the sessions, that of the purge job is left out: it takes
a connection once a day and closes it in its own thread, without the loop. The number of threads is not a limit in
ConnectionPool (there are more of them than connections, and closing a session has a limit of its own in FastAPI).

Two gateway processes share no memory, so Pipeline and ConnectionPool are about one; what two do to each other through Redis
and the database is in RateLimiter, CircuitBreaker, RuleCache and RequestLog.

Done so far, the most important behaviour first: `RateLimiter` and its refinement of `SlidingWindow`; `CircuitBreaker` and its refinement of
`AtomicBreaker`; `RuleCache`; `Pipeline` on `AtomicBreaker`; `RequestLog`; `ConnectionPool`; `BreakerMethods`, which justifies what `Pipeline` takes from `AtomicBreaker`.
All of them have their safety properties proved, for one process or, where the code's promise extends to them, for several.

What is left, in this order:

1. `HalfOpenWaits` with several processes: which probes may be early (`LockoutBounded` says that none is late).
2. Several processes whose rules have different windows: which larger slack holds.
3. Liveness stays with TLC; what can be proved of it are the safety halves, that each fair step reduces what is left to do.
