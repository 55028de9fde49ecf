------------------------------ MODULE RequestLog ------------------------------
(***************************************************************************)
(* The request_logs table: the event loops that add rows to it, the two    *)
(* dashboards that count them and the job that deletes the old ones.       *)
(*                                                                         *)
(* One action is one SQL statement.  The database shows every statement    *)
(* the rows committed before it, so two SELECTs of one report may see      *)
(* different rows.  The HTML page runs on the event loop of its process    *)
(* and keeps that process from writing; the JSON report and the purge job  *)
(* run in threads.                                                         *)
(***************************************************************************)
EXTENDS Integers, FiniteSets

CONSTANTS
    Rows,        \* slots for rows; a slot is free again once its row is deleted
    Gateways,    \* processes that share the database
    Window,      \* since_minutes, in ticks
    Retention,   \* LOG_RETENTION_DAYS, in ticks
    Interval,    \* the 24 hours between two purges, in ticks
    MaxStall,    \* ticks within which a started report or purge has finished
    Faults       \* which of FaultKinds may happen

FaultKinds == {"restart", "database", "misfire"}

ASSUME ConstantsAssumption ==
    /\ IsFiniteSet(Rows)
    /\ Window \in Nat
    /\ Retention \in Nat
    /\ Interval \in Nat \ {0}
    /\ MaxStall \in Nat
    /\ Faults \subseteq FaultKinds

VARIABLES
    stored,    \* the rows in the table
    blocked,   \* those of them with blocked = TRUE
    age,       \* age[r]: ticks since created_at
    report,    \* report[w]: the next SELECT of a dashboard
    asked,     \* asked[w]: ticks since it computed "since"
    total,     \* total[w]: total_requests
    rejected,  \* rejected[w]: blocked_requests
    newcomers, \* history: newcomers[w] is the rows written between w's two counts
    untilRun,  \* untilRun[g]: ticks to the next run of the purge job of g
    purging,   \* purging[g]: is that job between its cutoff and its DELETE?
    cutAge,    \* cutAge[g]: ticks since it computed the cutoff
    calm       \* history: calm[g] is the ticks since g lost a run of its purge

reports == <<report, asked, total, rejected, newcomers>>
jobs == <<untilRun, purging, cutAge>>
vars == <<stored, blocked, age, report, asked, total, rejected, newcomers,
          untilRun, purging, cutAge, calm>>

\* GET / and GET /dashboard, one of each at a time in every process.
Page(g) == <<g, "page">>
Json(g) == <<g, "json">>
Dashboards == Gateways \X {"page", "json"}

\* What the oldest row may reach, and where the model stops counting: beyond
\* it, and beyond every window a report may still ask for.
Oldest == Retention + Interval + MaxStall
AgeCap == Oldest + Window + 1

\* A process that has lost no run for longer than that has purged since.
Settled == Interval + MaxStall

TypeOK ==
    /\ stored \subseteq Rows
    /\ blocked \subseteq stored
    /\ age \in [Rows -> 0..AgeCap]
    /\ report \in [Dashboards -> {"idle", "blocked", "average"}]
    /\ asked \in [Dashboards -> 0..MaxStall]
    /\ total \in [Dashboards -> 0..Cardinality(Rows)]
    /\ rejected \in [Dashboards -> 0..Cardinality(Rows)]
    /\ newcomers \in [Dashboards -> SUBSET Rows]
    /\ untilRun \in [Gateways -> 0..Interval]
    /\ purging \in [Gateways -> BOOLEAN]
    /\ cutAge \in [Gateways -> 0..MaxStall]
    /\ calm \in [Gateways -> 0..Settled + 1]

Init ==
    /\ stored = {}
    /\ blocked = {}
    /\ age = [r \in Rows |-> 0]
    /\ report = [w \in Dashboards |-> "idle"]
    /\ asked = [w \in Dashboards |-> 0]
    /\ total = [w \in Dashboards |-> 0]
    /\ rejected = [w \in Dashboards |-> 0]
    /\ newcomers = [w \in Dashboards |-> {}]
    /\ untilRun = [g \in Gateways |-> Interval]
    /\ purging = [g \in Gateways |-> FALSE]
    /\ cutAge = [g \in Gateways |-> 0]
    /\ calm = [g \in Gateways |-> Settled + 1]

-----------------------------------------------------------------------------
\* Time, and the rows the event loops write.

Aged(r) == IF r \in stored /\ age[r] < AgeCap THEN age[r] + 1 ELSE age[r]

\* One tick.  The scheduler starts a job that is due before the next one.
Tick ==
    /\ \A w \in Dashboards : report[w] # "idle" => asked[w] < MaxStall
    /\ \A g \in Gateways : purging[g] => cutAge[g] < MaxStall
    /\ \A g \in Gateways : untilRun[g] > 0
    /\ age' = [r \in Rows |-> Aged(r)]
    /\ asked' = [w \in Dashboards |->
                    IF report[w] = "idle" THEN 0 ELSE asked[w] + 1]
    /\ untilRun' = [g \in Gateways |-> untilRun[g] - 1]
    /\ cutAge' = [g \in Gateways |-> IF purging[g] THEN cutAge[g] + 1 ELSE 0]
    /\ calm' = [g \in Gateways |->
                   IF calm[g] > Settled THEN calm[g] ELSE calm[g] + 1]
    /\ UNCHANGED <<stored, blocked, report, total, rejected, newcomers, purging>>

LoopFree(g) == report[Page(g)] = "idle"

\* _write: INSERT with its commit, for a request that was or was not blocked.
Write(g, r) ==
    /\ LoopFree(g)
    /\ r \notin stored
    /\ stored' = stored \cup {r}
    /\ blocked' \in {blocked, blocked \cup {r}}
    /\ age' = [age EXCEPT ![r] = 0]
    /\ newcomers' = [w \in Dashboards |->
                        IF report[w] = "blocked" THEN newcomers[w] \cup {r}
                        ELSE newcomers[w]]
    /\ UNCHANGED <<report, asked, total, rejected, jobs, calm>>

-----------------------------------------------------------------------------
\* LogRepository.stats, from _root and from dashboard_json.

\* created_at >= since.
InWindow(w) == {r \in stored : age[r] <= Window + asked[w]}

\* since = utcnow() - window, and q.count().
CountTotal(w) ==
    /\ report[w] = "idle"
    /\ report' = [report EXCEPT ![w] = "blocked"]
    /\ total' = [total EXCEPT ![w] = Cardinality(InWindow(w))]
    /\ UNCHANGED <<stored, blocked, age, asked, rejected, newcomers, jobs, calm>>

\* Mutated form of BlockedInWindow: the filter on created_at lost.
BlockedEver(w) == blocked

\* q.filter(blocked): the rows of the first query that were blocked.
BlockedInWindow(w) == blocked \cap InWindow(w)

\* q.filter(blocked).count().
CountBlocked(w) ==
    /\ report[w] = "blocked"
    /\ report' = [report EXCEPT ![w] = "average"]
    /\ rejected' = [rejected EXCEPT ![w] = Cardinality(BlockedInWindow(w))]
    /\ UNCHANGED <<stored, blocked, age, asked, total, newcomers, jobs, calm>>

\* avg(latency_ms), then the SELECTs of top_ips and get_recent: the answer is
\* total_requests, blocked_requests and their difference.
Average(w) ==
    /\ report[w] = "average"
    /\ report' = [report EXCEPT ![w] = "idle"]
    /\ asked' = [asked EXCEPT ![w] = 0]
    /\ total' = [total EXCEPT ![w] = 0]
    /\ rejected' = [rejected EXCEPT ![w] = 0]
    /\ newcomers' = [newcomers EXCEPT ![w] = {}]
    /\ UNCHANGED <<stored, blocked, age, jobs, calm>>

-----------------------------------------------------------------------------
\* _purge_logs_job, on the thread of the scheduler of its process.

\* Mutated form of NextRun: every other run is left out.
NextRunLate == 2 * Interval

NextRun == Interval

\* The job is due: its next run is an interval away, its cutoff is computed.
StartPurge(g) ==
    /\ untilRun[g] = 0
    /\ ~purging[g]
    /\ untilRun' = [untilRun EXCEPT ![g] = NextRun]
    /\ purging' = [purging EXCEPT ![g] = TRUE]
    /\ UNCHANGED <<stored, blocked, age, cutAge, reports, calm>>

\* The scheduler wakes too late for a run that is due, and leaves it out.
Misfire(g) ==
    /\ "misfire" \in Faults
    /\ untilRun[g] = 0
    /\ ~purging[g]
    /\ untilRun' = [untilRun EXCEPT ![g] = NextRun]
    /\ calm' = [calm EXCEPT ![g] = 0]
    /\ UNCHANGED <<stored, blocked, age, purging, cutAge, reports>>

\* Mutated forms of Outdated: rows as old as the retention, and rows old
\* enough for two intervals.
OutdatedInclusive(g) == {r \in stored : age[r] >= Retention + cutAge[g]}
OutdatedLate(g) == {r \in stored : age[r] > Retention + Interval + cutAge[g]}

\* created_at < cutoff.
Outdated(g) == {r \in stored : age[r] > Retention + cutAge[g]}

\* delete_older_than: DELETE with its commit; what it raises is the
\* scheduler's to log, and the job tries again at its next run.
Purge(g) ==
    /\ purging[g]
    /\ purging' = [purging EXCEPT ![g] = FALSE]
    /\ \/ /\ stored' = stored \ Outdated(g)
          /\ blocked' = blocked \ Outdated(g)
          /\ age' = [r \in Rows |-> IF r \in Outdated(g) THEN 0 ELSE age[r]]
          /\ UNCHANGED calm
       \/ /\ "database" \in Faults
          /\ calm' = [calm EXCEPT ![g] = 0]
          /\ UNCHANGED <<stored, blocked, age>>
    /\ cutAge' = [cutAge EXCEPT ![g] = 0]
    /\ UNCHANGED <<reports, untilRun>>

\* The process restarts: its reports are gone, and add_job counts the interval
\* from the start (the job store is in memory).
Restart(g) ==
    /\ "restart" \in Faults
    /\ report' = [w \in Dashboards |-> IF w[1] = g THEN "idle" ELSE report[w]]
    /\ asked' = [w \in Dashboards |-> IF w[1] = g THEN 0 ELSE asked[w]]
    /\ total' = [w \in Dashboards |-> IF w[1] = g THEN 0 ELSE total[w]]
    /\ rejected' = [w \in Dashboards |-> IF w[1] = g THEN 0 ELSE rejected[w]]
    /\ newcomers' = [w \in Dashboards |-> IF w[1] = g THEN {} ELSE newcomers[w]]
    /\ untilRun' = [untilRun EXCEPT ![g] = Interval]
    /\ purging' = [purging EXCEPT ![g] = FALSE]
    /\ cutAge' = [cutAge EXCEPT ![g] = 0]
    /\ calm' = [calm EXCEPT ![g] = 0]
    /\ UNCHANGED <<stored, blocked, age>>

Report(w) == CountTotal(w) \/ CountBlocked(w) \/ Average(w)

Next ==
    \/ Tick
    \/ \E w \in Dashboards : Report(w)
    \/ \E g \in Gateways : StartPurge(g) \/ Misfire(g) \/ Purge(g) \/ Restart(g)
    \/ \E g \in Gateways, r \in Rows : Write(g, r)

Spec == Init /\ [][Next]_vars

-----------------------------------------------------------------------------
\* Properties.

\* The saturation is "blocked / total * 100" (schema of GET /dashboard), of two
\* SELECTs: the blocked requests of a report, from a thread or not and whatever is
\* purged meanwhile, exceed the total by no more than the rows that any process
\* wrote between the two.
OffBy(w) == Cardinality(newcomers[w])
ReportsAddUp ==
    \A w \in Dashboards : report[w] = "average" => rejected[w] <= total[w] + OffBy(w)

\* The page of a process that is alone with its database adds up exactly:
\* allowed_requests is not negative and the saturation not above 100, since the
\* loop writes nothing between the two and a purge only takes rows away.
PageAddsUp ==
    \A g \in Gateways :
        Gateways = {g} /\ report[Page(g)] = "average" => rejected[Page(g)] <= total[Page(g)]

\* A purge, however long it hangs between cutoff and DELETE, takes no row that
\* is not older than the retention.
KeptForRetention ==
    [][\A r \in stored \ stored' : age[r] > Retention]_vars

\* "old logs purged automatically" (README): no row is older than the retention,
\* the interval between two purges and the time a purge takes, if any process has
\* lost no run for an interval and a purge: runs that a restart, a failed DELETE
\* or a late scheduler loses are made up for by the next one that succeeds.
PurgedInTime ==
    (\E g \in Gateways : calm[g] > Settled) => \A r \in stored : age[r] <= Oldest

-----------------------------------------------------------------------------
\* Why they hold: the strengthening of them that every step preserves.

\* The next run was fixed when the cutoff was computed.
Scheduled(g) == cutAge[g] = IF purging[g] THEN Interval - untilRun[g] ELSE 0

\* No row is older than the retention by more than the time since the cutoff of
\* the last purge that has finished: a run more if one is under way.
Swept(g) ==
    \A r \in stored : age[r] <= Retention + Interval - untilRun[g]
                                + IF purging[g] THEN Interval ELSE 0

\* If a run was lost since the last purge, it is the next run, or the one under
\* way, that sweeps.
SweepsNext(g) ==
    calm[g] <= Interval + IF purging[g] THEN cutAge[g] ELSE -untilRun[g]

\* Between its counts no row comes into the window of a report but those that
\* are written then.
Shrinks(w) ==
    report[w] = "blocked" => Cardinality(InWindow(w) \ newcomers[w]) <= total[w]

\* While it makes its page a process writes nothing.
AloneUndisturbed ==
    \A g \in Gateways : Gateways = {g} => newcomers[Page(g)] = {}

IInv ==
    /\ TypeOK
    /\ stored # {} => Gateways # {}
    /\ \A g \in Gateways : Scheduled(g)
    /\ \A g \in Gateways : Swept(g) \/ SweepsNext(g)
    /\ \A w \in Dashboards : Shrinks(w) /\ (report[w] = "idle" => newcomers[w] = {})
    /\ ReportsAddUp
    /\ AloneUndisturbed
=============================================================================
