--------------------------- MODULE RequestLogProofs ---------------------------
(***************************************************************************)
(* Proofs about RequestLog for any number of processes, rows and           *)
(* dashboards, any window, retention and interval: what a report adds up   *)
(* to, and that rows are purged neither early nor late.                    *)
(***************************************************************************)
EXTENDS RequestLog, FiniteSetTheorems, TLAPS

\* Counting rows: what COUNT(*) returns over any filter, and over a narrower one.
LEMMA Counted ==
  ASSUME NEW S, S \subseteq Rows
  PROVE  IsFiniteSet(S) /\ Cardinality(S) \in 0..Cardinality(Rows)
<1>1. IsFiniteSet(S) /\ Cardinality(S) <= Cardinality(Rows)
  BY ConstantsAssumption, FS_Subset
<1>2. Cardinality(S) \in Nat /\ Cardinality(Rows) \in Nat
  BY <1>1, ConstantsAssumption, FS_CardinalityType
<1> QED
  BY <1>1, <1>2

LEMMA CountedLess ==
  ASSUME NEW S, S \subseteq Rows, NEW R, R \subseteq S
  PROVE  Cardinality(R) <= Cardinality(S)
  BY Counted, FS_Subset

LEMMA Bounds ==
  /\ Oldest \in Nat /\ AgeCap \in Nat /\ Settled \in Nat
  /\ \A i \in 0..MaxStall : Window + i < AgeCap
  BY ConstantsAssumption DEF Oldest, AgeCap, Settled

LEMMA PageType == \A g \in Gateways : Page(g) \in Dashboards
  BY DEF Page, Dashboards

-----------------------------------------------------------------------------
\* Type correctness.

LEMMA TickType ==
  ASSUME TypeOK, Tick  PROVE TypeOK'
<1> USE ConstantsAssumption DEF TypeOK, Tick
<1>1. age' \in [Rows -> 0..AgeCap]
  BY Bounds DEF Aged
<1>2. asked' \in [Dashboards -> 0..MaxStall]
  <2> SUFFICES ASSUME NEW w \in Dashboards
               PROVE  (IF report[w] = "idle" THEN 0 ELSE asked[w] + 1) \in 0..MaxStall
    OBVIOUS
  <2>1. asked[w] \in 0..MaxStall /\ (report[w] # "idle" => asked[w] < MaxStall)
    OBVIOUS
  <2> QED
    BY <2>1
<1>3. untilRun' \in [Gateways -> 0..Interval]
  OBVIOUS
<1>4. cutAge' \in [Gateways -> 0..MaxStall]
  <2> SUFFICES ASSUME NEW g \in Gateways
               PROVE  (IF purging[g] THEN cutAge[g] + 1 ELSE 0) \in 0..MaxStall
    OBVIOUS
  <2>1. cutAge[g] \in 0..MaxStall /\ (purging[g] => cutAge[g] < MaxStall)
    OBVIOUS
  <2>2. CASE purging[g]
    BY <2>1, <2>2
  <2>3. CASE ~purging[g]
    BY <2>3
  <2> QED
    BY <2>2, <2>3
<1>5. calm' \in [Gateways -> 0..Settled + 1]
  <2> SUFFICES ASSUME NEW g \in Gateways
               PROVE  (IF calm[g] > Settled THEN calm[g] ELSE calm[g] + 1) \in 0..Settled + 1
    OBVIOUS
  <2>1. calm[g] \in 0..Settled + 1
    OBVIOUS
  <2> QED
    BY <2>1, Bounds
<1> QED
  BY <1>1, <1>2, <1>3, <1>4, <1>5

LEMMA ReportType ==
  ASSUME TypeOK, NEW w \in Dashboards, Report(w)  PROVE TypeOK'
<1> USE ConstantsAssumption DEF TypeOK, jobs
<1>1. CASE CountTotal(w)
  <2>1. Cardinality(InWindow(w)) \in 0..Cardinality(Rows)
    BY Counted DEF InWindow
  <2> QED
    BY <1>1, <2>1 DEF CountTotal
<1>2. CASE CountBlocked(w)
  <2>1. Cardinality(BlockedInWindow(w)) \in 0..Cardinality(Rows)
    BY Counted DEF BlockedInWindow
  <2> QED
    BY <1>2, <2>1 DEF CountBlocked
<1>3. CASE Average(w)
  <2>1. 0 \in 0..Cardinality(Rows)
    BY Counted, FS_EmptySet
  <2> QED
    BY <1>3, <2>1 DEF Average
<1> QED
  BY <1>1, <1>2, <1>3 DEF Report

LEMMA JobType ==
  ASSUME TypeOK, NEW g \in Gateways,
         StartPurge(g) \/ Misfire(g) \/ Purge(g) \/ Restart(g)
  PROVE  TypeOK'
<1> USE ConstantsAssumption DEF TypeOK, reports
<1>1. CASE StartPurge(g)
  BY <1>1 DEF StartPurge, NextRun
<1>2. CASE Purge(g)
  <2>1. age' \in [Rows -> 0..AgeCap]
    BY <1>2, Bounds DEF Purge
  <2>2. stored' \subseteq Rows /\ blocked' \subseteq stored'
    BY <1>2 DEF Purge
  <2>3. calm' \in [Gateways -> 0..Settled + 1]
    <3>1. 0 \in 0..Settled + 1
      BY Bounds
    <3>2. calm' = calm \/ calm' = [calm EXCEPT ![g] = 0]
      BY <1>2 DEF Purge
    <3> QED
      BY <3>1, <3>2
  <2>4. /\ purging' \in [Gateways -> BOOLEAN] /\ cutAge' \in [Gateways -> 0..MaxStall]
        /\ UNCHANGED <<report, asked, total, rejected, newcomers, untilRun>>
    BY <1>2 DEF Purge
  <2> QED
    BY <2>1, <2>2, <2>3, <2>4
<1>3. CASE Restart(g)
  <2>1. 0 \in 0..Cardinality(Rows)
    BY Counted, FS_EmptySet
  <2>2. asked' \in [Dashboards -> 0..MaxStall]
    BY <1>3 DEF Restart
  <2>3. total' \in [Dashboards -> 0..Cardinality(Rows)]
    BY <1>3, <2>1 DEF Restart
  <2>4. /\ rejected' \in [Dashboards -> 0..Cardinality(Rows)]
        /\ newcomers' \in [Dashboards -> SUBSET Rows]
    BY <1>3, <2>1 DEF Restart
  <2>5. /\ report' \in [Dashboards -> {"idle", "blocked", "average"}]
        /\ calm' \in [Gateways -> 0..Settled + 1]
    BY <1>3, Bounds DEF Restart
  <2>6. /\ untilRun' \in [Gateways -> 0..Interval]
        /\ purging' \in [Gateways -> BOOLEAN]
        /\ cutAge' \in [Gateways -> 0..MaxStall]
    BY <1>3 DEF Restart
  <2> QED
    BY <1>3, <2>2, <2>3, <2>4, <2>5, <2>6 DEF Restart
<1>4. CASE Misfire(g)
  BY <1>4, Bounds DEF Misfire, NextRun
<1> QED
  BY <1>1, <1>2, <1>3, <1>4

LEMMA TypeStep == TypeOK /\ [Next]_vars => TypeOK'
<1> SUFFICES ASSUME TypeOK, [Next]_vars PROVE TypeOK'
  OBVIOUS
<1>1. ASSUME NEW g \in Gateways, NEW r \in Rows, Write(g, r) PROVE TypeOK'
  BY <1>1, Bounds DEF TypeOK, Write, reports, jobs
<1>2. CASE UNCHANGED vars
  BY <1>2 DEF TypeOK, vars, reports, jobs
<1> QED
  BY <1>1, <1>2, TickType, ReportType, JobType DEF Next

LEMMA InitType == Init => TypeOK
<1>1. 0 \in 0..Cardinality(Rows)
  BY Counted, FS_EmptySet
<1> QED
  BY <1>1, ConstantsAssumption, Bounds DEF Init, TypeOK

\* The table, the reports and the jobs stay well typed: counts are counts of
\* rows, and neither a report nor a purge outlives its stall.
THEOREM TypeCorrect == Spec => []TypeOK
  BY InitType, TypeStep, PTL DEF Spec

\* A DELETE takes only rows older than the retention, however long after its
\* cutoff it comes and whatever else runs meanwhile.
THEOREM Kept == Spec => KeptForRetention
<1>1. ASSUME TypeOK, [Next]_vars, NEW r \in stored \ stored'
      PROVE  age[r] > Retention
  <2>1. PICK g \in Gateways : Purge(g) /\ stored' = stored \ Outdated(g)
    BY <1>1 DEF Next, Tick, Report, CountTotal, CountBlocked, Average,
       StartPurge, Misfire, Purge, Restart, Write, vars
  <2>2. age[r] > Retention + cutAge[g]
    BY <1>1, <2>1 DEF Outdated
  <2> QED
    BY <1>1, <2>2, ConstantsAssumption DEF TypeOK
<1>2. TypeOK /\ [Next]_vars => [\A r \in stored \ stored' : age[r] > Retention]_vars
  BY <1>1
<1> QED
  BY <1>2, TypeCorrect, PTL DEF Spec, KeptForRetention

-----------------------------------------------------------------------------
\* The schedule of a job, and what its last purge has left.

LEMMA ScheduledStep ==
  ASSUME TypeOK, NEW g \in Gateways, Scheduled(g), [Next]_vars
  PROVE  Scheduled(g)'
<1> USE ConstantsAssumption DEF TypeOK, Scheduled
<1>1. CASE Tick
  <2>1. untilRun'[g] = untilRun[g] - 1 /\ purging' = purging
    BY <1>1 DEF Tick
  <2>2. cutAge'[g] = IF purging[g] THEN cutAge[g] + 1 ELSE 0
    BY <1>1 DEF Tick
  <2>3. CASE purging[g]
    BY <2>1, <2>2, <2>3
  <2>4. CASE ~purging[g]
    BY <2>1, <2>2, <2>4
  <2> QED
    BY <2>3, <2>4
<1>2. ASSUME NEW w \in Dashboards, Report(w) PROVE Scheduled(g)'
  BY <1>2 DEF Report, CountTotal, CountBlocked, Average, jobs
<1>3. ASSUME NEW h \in Gateways, StartPurge(h) PROVE Scheduled(g)'
  <2>1. CASE h = g
    <3>1. ~purging[g] /\ purging'[g] /\ untilRun'[g] = Interval /\ cutAge' = cutAge
      BY <1>3, <2>1 DEF StartPurge, NextRun
    <3> QED
      BY <3>1
  <2>2. CASE h # g
    BY <1>3, <2>2 DEF StartPurge
  <2> QED
    BY <2>1, <2>2
<1>4. ASSUME NEW h \in Gateways, Purge(h) PROVE Scheduled(g)'
  BY <1>4 DEF Purge
<1>5. ASSUME NEW h \in Gateways, Restart(h) PROVE Scheduled(g)'
  BY <1>5 DEF Restart
<1>6. ASSUME NEW h \in Gateways, NEW r \in Rows, Write(h, r) PROVE Scheduled(g)'
  BY <1>6 DEF Write, jobs
<1>7. ASSUME NEW h \in Gateways, Misfire(h) PROVE Scheduled(g)'
  BY <1>7 DEF Misfire
<1>8. CASE UNCHANGED vars
  BY <1>8 DEF vars, jobs
<1> QED
  BY <1>1, <1>2, <1>3, <1>4, <1>5, <1>6, <1>7, <1>8 DEF Next

\* A DELETE that succeeds sweeps; one that fails leaves it to the next run.
LEMMA OwnPurge ==
  ASSUME TypeOK, NEW g \in Gateways, Scheduled(g), Purge(g)
  PROVE  Swept(g)' \/ SweepsNext(g)'
<1>0. /\ purging[g] /\ ~purging'[g] /\ untilRun' = untilRun
      /\ untilRun[g] \in 0..Interval /\ cutAge[g] = Interval - untilRun[g]
  BY DEF Purge, Scheduled, TypeOK
<1>1. CASE calm'[g] = 0
  BY <1>0, <1>1, ConstantsAssumption DEF SweepsNext
<1>2. CASE calm'[g] # 0
  <2>1. stored' = stored \ Outdated(g) /\ \A r \in stored' : age'[r] = age[r]
    BY <1>2 DEF Purge, TypeOK
  <2>2. \A r \in stored' : age[r] \in Nat /\ age[r] <= Retention + cutAge[g]
    BY <1>0, <2>1, ConstantsAssumption DEF Outdated, TypeOK
  <2> QED
    BY <1>0, <2>1, <2>2, ConstantsAssumption DEF Swept
<1> QED
  BY <1>1, <1>2

\* After a run that is lost the next one is an interval away.
LEMMA RunLost ==
  ASSUME TypeOK, NEW g \in Gateways, Misfire(g) \/ Restart(g)
  PROVE  SweepsNext(g)'
<1>1. calm'[g] = 0 /\ ~purging'[g] /\ untilRun'[g] = Interval
  BY DEF Misfire, Restart, NextRun, TypeOK
<1> QED
  BY <1>1, ConstantsAssumption DEF SweepsNext

LEMMA SweptStep ==
  ASSUME TypeOK, NEW g \in Gateways, Scheduled(g), Swept(g), [Next]_vars
  PROVE  Swept(g)' \/ SweepsNext(g)'
<1> USE ConstantsAssumption DEF TypeOK
<1>1. CASE Tick
  <2>1. /\ untilRun'[g] = untilRun[g] - 1 /\ purging' = purging /\ stored' = stored
        /\ \A r \in Rows : age'[r] <= age[r] + 1
    BY <1>1, Bounds DEF Tick, Aged
  <2>2. \A r \in Rows : age[r] \in Nat /\ age'[r] \in Nat
    BY <1>1, Bounds DEF Tick, Aged
  <2>3. CASE purging[g]
    BY <2>1, <2>2, <2>3 DEF Swept
  <2>4. CASE ~purging[g]
    BY <2>1, <2>2, <2>4 DEF Swept
  <2> QED
    BY <2>3, <2>4
<1>2. ASSUME NEW w \in Dashboards, Report(w) PROVE Swept(g)'
  BY <1>2 DEF Report, CountTotal, CountBlocked, Average, jobs, Swept
<1>3. ASSUME NEW h \in Gateways, StartPurge(h) PROVE Swept(g)'
  <2>1. CASE h = g
    <3>1. ~purging[g] /\ purging'[g] /\ untilRun[g] = 0 /\ untilRun'[g] = Interval
      BY <1>3, <2>1 DEF StartPurge, NextRun
    <3>2. stored' = stored /\ age' = age
      BY <1>3 DEF StartPurge
    <3> QED
      BY <3>1, <3>2 DEF Swept
  <2>2. CASE h # g
    BY <1>3, <2>2 DEF StartPurge, Swept
  <2> QED
    BY <2>1, <2>2
<1>4. ASSUME NEW h \in Gateways, Purge(h) PROVE Swept(g)' \/ SweepsNext(g)'
  <2>1. CASE h = g
    BY <1>4, <2>1, OwnPurge
  <2>2. CASE h # g
    <3>1. /\ stored' \subseteq stored /\ untilRun' = untilRun
          /\ purging'[g] = purging[g] /\ \A r \in stored' : age'[r] = age[r]
      BY <1>4, <2>2 DEF Purge
    <3> QED
      BY <3>1 DEF Swept
  <2> QED
    BY <2>1, <2>2
<1>5. ASSUME NEW h \in Gateways, NEW r \in Rows, Write(h, r) PROVE Swept(g)'
  <2>1. /\ stored' = stored \cup {r} /\ age' = [age EXCEPT ![r] = 0]
        /\ untilRun' = untilRun /\ purging' = purging
    BY <1>5 DEF Write, jobs
  <2>2. untilRun[g] <= Interval /\ untilRun[g] \in Nat
    OBVIOUS
  <2>3. CASE purging[g]
    BY <2>1, <2>2, <2>3 DEF Swept
  <2>4. CASE ~purging[g]
    BY <2>1, <2>2, <2>4 DEF Swept
  <2> QED
    BY <2>3, <2>4
<1>6. ASSUME NEW h \in Gateways, Misfire(h) \/ Restart(h)
      PROVE  Swept(g)' \/ SweepsNext(g)'
  <2>1. CASE h = g
    BY <1>6, <2>1, RunLost
  <2>2. CASE h # g
    BY <1>6, <2>2 DEF Misfire, Restart, Swept
  <2> QED
    BY <2>1, <2>2
<1>7. CASE UNCHANGED vars
  BY <1>7 DEF vars, jobs, Swept
<1> QED
  BY <1>1, <1>2, <1>3, <1>4, <1>5, <1>6, <1>7 DEF Next

LEMMA SweepsNextStep ==
  ASSUME TypeOK, NEW g \in Gateways, Scheduled(g), SweepsNext(g), [Next]_vars
  PROVE  Swept(g)' \/ SweepsNext(g)'
<1> USE ConstantsAssumption DEF TypeOK
<1>0. /\ untilRun[g] \in 0..Interval /\ cutAge[g] \in 0..MaxStall
      /\ calm[g] \in 0..Settled + 1 /\ Settled \in Nat
  BY Bounds
<1>1. CASE Tick
  <2>1. /\ untilRun'[g] = untilRun[g] - 1 /\ purging' = purging
        /\ calm'[g] = IF calm[g] > Settled THEN calm[g] ELSE calm[g] + 1
        /\ cutAge'[g] = IF purging[g] THEN cutAge[g] + 1 ELSE 0
    BY <1>1 DEF Tick
  <2>2. CASE purging[g]
    BY <1>0, <2>1, <2>2 DEF SweepsNext
  <2>3. CASE ~purging[g]
    BY <1>0, <2>1, <2>3 DEF SweepsNext
  <2> QED
    BY <2>2, <2>3
<1>2. ASSUME NEW w \in Dashboards, Report(w) PROVE SweepsNext(g)'
  BY <1>2 DEF Report, CountTotal, CountBlocked, Average, jobs, SweepsNext
<1>3. ASSUME NEW h \in Gateways, StartPurge(h) PROVE SweepsNext(g)'
  <2>1. CASE h = g
    <3>1. /\ ~purging[g] /\ purging'[g] /\ untilRun[g] = 0
          /\ cutAge' = cutAge /\ calm' = calm
      BY <1>3, <2>1 DEF StartPurge
    <3> QED
      BY <1>0, <3>1 DEF SweepsNext
  <2>2. CASE h # g
    BY <1>3, <2>2 DEF StartPurge, SweepsNext
  <2> QED
    BY <2>1, <2>2
<1>4. ASSUME NEW h \in Gateways, Purge(h) PROVE Swept(g)' \/ SweepsNext(g)'
  <2>1. CASE h = g
    BY <1>4, <2>1, OwnPurge
  <2>2. CASE h # g
    <3>1. /\ untilRun' = untilRun /\ purging'[g] = purging[g]
          /\ cutAge'[g] = cutAge[g] /\ calm'[g] = calm[g]
      BY <1>4, <2>2 DEF Purge
    <3> QED
      BY <3>1 DEF SweepsNext
  <2> QED
    BY <2>1, <2>2
<1>5. ASSUME NEW h \in Gateways, NEW r \in Rows, Write(h, r) PROVE SweepsNext(g)'
  BY <1>5 DEF Write, jobs, SweepsNext
<1>6. ASSUME NEW h \in Gateways, Misfire(h) \/ Restart(h) PROVE SweepsNext(g)'
  <2>1. CASE h = g
    BY <1>6, <2>1, RunLost
  <2>2. CASE h # g
    BY <1>6, <2>2 DEF Misfire, Restart, SweepsNext
  <2> QED
    BY <2>1, <2>2
<1>7. CASE UNCHANGED vars
  BY <1>7 DEF vars, jobs, SweepsNext
<1> QED
  BY <1>1, <1>2, <1>3, <1>4, <1>5, <1>6, <1>7 DEF Next

-----------------------------------------------------------------------------
\* The reports.

\* What every step of another dashboard and of the jobs leaves as it is: no row
\* comes into the window of a report.
LEMMA Undisturbed ==
  ASSUME TypeOK, NEW w \in Dashboards, Shrinks(w),
         InWindow(w)' \subseteq InWindow(w),
         report'[w] = report[w], total'[w] = total[w], newcomers'[w] = newcomers[w]
  PROVE  Shrinks(w)'
<1> DEFINE S == InWindow(w) \ newcomers[w]
           R == InWindow(w)' \ newcomers[w]
<1>1. S \subseteq Rows /\ R \subseteq S /\ total[w] \in Nat
  BY ConstantsAssumption, FS_CardinalityType DEF TypeOK, InWindow
<1>2. Cardinality(R) <= Cardinality(S)
  BY <1>1, CountedLess
<1>3. Cardinality(R) \in Nat /\ Cardinality(S) \in Nat
  BY <1>1, Counted
<1> HIDE DEF S, R
<1>4. report[w] = "blocked" => Cardinality(R) <= total[w]
  <2>1. report[w] = "blocked" => Cardinality(S) <= total[w]
    BY DEF Shrinks, S
  <2> QED
    BY <1>1, <1>2, <1>3, <2>1
<1> QED
  BY <1>4 DEF Shrinks, R

\* A row that is written between the counts is known as such.
LEMMA WriteStep ==
  ASSUME TypeOK, NEW w \in Dashboards, NEW g \in Gateways, NEW r \in Rows,
         Write(g, r), Shrinks(w)
  PROVE  Shrinks(w)'
<1> DEFINE S == InWindow(w) \ newcomers[w]
           R == InWindow(w)' \ newcomers'[w]
<1> SUFFICES ASSUME report'[w] = "blocked" PROVE Cardinality(R) <= total'[w]
  BY DEF Shrinks
<1>1. /\ report[w] = "blocked" /\ newcomers'[w] = newcomers[w] \cup {r}
      /\ total'[w] = total[w] /\ asked' = asked /\ stored' = stored \cup {r}
      /\ \A s \in Rows \ {r} : age'[s] = age[s]
  BY DEF Write, TypeOK
<1>2. S \subseteq Rows /\ total[w] \in Nat
  BY ConstantsAssumption, FS_CardinalityType DEF TypeOK, InWindow
<1>3. R \subseteq S
  BY <1>1 DEF InWindow, TypeOK
<1>4. Cardinality(R) <= Cardinality(S)
  BY <1>2, <1>3, CountedLess
<1>5. Cardinality(R) \in Nat /\ Cardinality(S) \in Nat
  BY <1>2, <1>3, Counted
<1>6. Cardinality(S) <= total[w]
  BY <1>1 DEF Shrinks
<1> HIDE DEF S, R
<1> QED
  BY <1>1, <1>2, <1>4, <1>5, <1>6

LEMMA ShrinksStep ==
  ASSUME TypeOK, NEW w \in Dashboards, Shrinks(w), [Next]_vars
  PROVE  Shrinks(w)'
<1>1. CASE Tick
  <2>1. CASE report[w] = "idle"
    BY <1>1, <2>1 DEF Tick, Shrinks
  <2>2. CASE report[w] # "idle"
    <3>1. asked'[w] = asked[w] + 1 /\ asked'[w] \in 0..MaxStall /\ stored' = stored
      BY <1>1, <2>2, TickType DEF Tick, TypeOK
    <3>2. \A r \in stored : \/ age'[r] = age[r] + 1
                            \/ age'[r] = age[r] /\ age[r] >= AgeCap
      BY <1>1, Bounds DEF Tick, Aged, TypeOK
    <3>3. Window + asked'[w] < AgeCap /\ asked[w] \in Nat /\ Window \in Nat
      <4>1. Window + asked'[w] < AgeCap
        BY <3>1, Bounds
      <4>2. asked[w] \in 0..MaxStall
        BY DEF TypeOK
      <4> QED
        BY <4>1, <4>2, ConstantsAssumption
    <3>4. \A r \in stored : age[r] \in Nat
      BY DEF TypeOK
    <3>5. ASSUME NEW r \in stored, age'[r] <= Window + asked'[w]
          PROVE  age[r] <= Window + asked[w]
      BY <3>1, <3>2, <3>3, <3>4, <3>5, Bounds
    <3>6. InWindow(w)' \subseteq InWindow(w)
      BY <3>1, <3>5 DEF InWindow
    <3> QED
      BY <1>1, <3>6, Undisturbed DEF Tick
  <2> QED
    BY <2>1, <2>2
<1>2. ASSUME NEW v \in Dashboards, Report(v) PROVE Shrinks(w)'
  <2>1. CASE v # w
    <3>1. /\ report'[w] = report[w] /\ total'[w] = total[w] /\ asked'[w] = asked[w]
          /\ newcomers'[w] = newcomers[w] /\ stored' = stored /\ age' = age
      BY <1>2, <2>1 DEF Report, CountTotal, CountBlocked, Average, TypeOK
    <3> QED
      BY <3>1, Undisturbed DEF InWindow
  <2>2. CASE v = w /\ CountTotal(w)
    <3>1. /\ InWindow(w)' = InWindow(w) /\ newcomers' = newcomers
          /\ total'[w] = Cardinality(InWindow(w))
      BY <2>2 DEF CountTotal, TypeOK, InWindow
    <3>2. InWindow(w) \subseteq Rows /\ InWindow(w) \ newcomers[w] \subseteq InWindow(w)
      BY DEF InWindow, TypeOK
    <3> QED
      BY <3>1, <3>2, CountedLess DEF Shrinks
  <2>3. CASE v = w /\ (CountBlocked(w) \/ Average(w))
    BY <2>3 DEF CountBlocked, Average, TypeOK, Shrinks
  <2> QED
    BY <1>2, <2>1, <2>2, <2>3 DEF Report
<1>3. ASSUME NEW h \in Gateways, StartPurge(h) \/ Misfire(h) PROVE Shrinks(w)'
  BY <1>3, Undisturbed DEF StartPurge, Misfire, reports, InWindow
<1>4. ASSUME NEW h \in Gateways, Purge(h) PROVE Shrinks(w)'
  <2>1. stored' \subseteq stored /\ \A r \in stored' : age'[r] = age[r]
    BY <1>4 DEF Purge, TypeOK
  <2>2. UNCHANGED reports
    BY <1>4 DEF Purge
  <2>3. InWindow(w)' \subseteq InWindow(w)
    BY <2>1, <2>2 DEF InWindow, reports
  <2> QED
    BY <2>2, <2>3, Undisturbed DEF reports
<1>5. ASSUME NEW h \in Gateways, Restart(h) PROVE Shrinks(w)'
  <2>1. CASE w[1] = h
    BY <1>5, <2>1 DEF Restart, Shrinks
  <2>2. CASE w[1] # h
    <3>1. /\ report'[w] = report[w] /\ total'[w] = total[w] /\ asked'[w] = asked[w]
          /\ newcomers'[w] = newcomers[w] /\ stored' = stored /\ age' = age
      BY <1>5, <2>2 DEF Restart
    <3> QED
      BY <3>1, Undisturbed DEF InWindow
  <2> QED
    BY <2>1, <2>2
<1>6. ASSUME NEW h \in Gateways, NEW r \in Rows, Write(h, r) PROVE Shrinks(w)'
  BY <1>6, WriteStep
<1>7. CASE UNCHANGED vars
  BY <1>7, Undisturbed DEF vars, InWindow
<1> QED
  BY <1>1, <1>2, <1>3, <1>4, <1>5, <1>6, <1>7 DEF Next

\* What a report counts as blocked it has counted before, or it is new.
LEMMA BlockedCounted ==
  ASSUME TypeOK, NEW w \in Dashboards, Shrinks(w), report[w] = "blocked"
  PROVE  Cardinality(BlockedInWindow(w)) <= total[w] + OffBy(w)
<1> DEFINE S == InWindow(w) \ newcomers[w]
<1>1. /\ S \subseteq Rows /\ newcomers[w] \subseteq Rows
      /\ S \cup newcomers[w] \subseteq Rows
      /\ BlockedInWindow(w) \subseteq S \cup newcomers[w]
  BY DEF TypeOK, InWindow, BlockedInWindow
<1>2. /\ IsFiniteSet(S) /\ IsFiniteSet(newcomers[w])
      /\ Cardinality(S) \in Nat /\ Cardinality(newcomers[w]) \in Nat
  BY <1>1, Counted
<1>3. Cardinality(BlockedInWindow(w)) <= Cardinality(S \cup newcomers[w])
  BY <1>1, CountedLess
<1>4. /\ Cardinality(BlockedInWindow(w)) \in Nat
      /\ Cardinality(S \cup newcomers[w]) \in Nat
  BY <1>1, Counted
<1>5. S \cap newcomers[w] = {}
  OBVIOUS
<1>6. Cardinality(S) <= total[w] /\ total[w] \in Nat
  BY ConstantsAssumption, FS_CardinalityType DEF Shrinks, TypeOK
<1> HIDE DEF S
<1>7. Cardinality(S \cup newcomers[w]) = Cardinality(S) + Cardinality(newcomers[w])
  <2> DEFINE T == newcomers[w]
  <2>1. IsFiniteSet(S) /\ IsFiniteSet(T) /\ S \cap T = {}
    BY <1>2, <1>5
  <2>2. Cardinality(S) \in Nat /\ Cardinality(T) \in Nat
    BY <1>2
  <2>3. Cardinality({}) = 0
    BY FS_EmptySet
  <2> HIDE DEF T
  <2>4. Cardinality(S \cup T) = Cardinality(S) + Cardinality(T) - Cardinality(S \cap T)
    BY <2>1, FS_Union
  <2>5. Cardinality(S \cap T) = 0
    BY <2>1, <2>3
  <2>6. Cardinality(S \cup T) = Cardinality(S) + Cardinality(T)
    BY <2>2, <2>4, <2>5
  <2> QED
    BY <2>6 DEF T
<1> QED
  BY <1>2, <1>3, <1>4, <1>6, <1>7 DEF OffBy

LEMMA AddsUpStep ==
  ASSUME TypeOK, NEW w \in Dashboards, Shrinks(w), ReportsAddUp, [Next]_vars,
         report'[w] = "average"
  PROVE  rejected'[w] <= total'[w] + OffBy(w)'
<1>1. ASSUME report'[w] = report[w], rejected'[w] = rejected[w],
             total'[w] = total[w], newcomers'[w] = newcomers[w]
      PROVE  rejected'[w] <= total'[w] + OffBy(w)'
  BY <1>1 DEF ReportsAddUp, OffBy
<1>2. ASSUME NEW v \in Dashboards, Report(v)
      PROVE  rejected'[w] <= total'[w] + OffBy(w)'
  <2>1. CASE v # w
    BY <1>1, <1>2, <2>1 DEF Report, CountTotal, CountBlocked, Average, TypeOK
  <2>2. CASE v = w
    <3>1. CountBlocked(w)
      BY <1>2, <2>2 DEF Report, CountTotal, Average, TypeOK
    <3>2. /\ report[w] = "blocked" /\ total' = total /\ newcomers' = newcomers
          /\ rejected'[w] = Cardinality(BlockedInWindow(w))
      BY <3>1 DEF CountBlocked, TypeOK
    <3> QED
      BY <3>2, BlockedCounted DEF OffBy
  <2> QED
    BY <2>1, <2>2
<1>3. CASE Tick
  BY <1>1, <1>3 DEF Tick
<1>4. ASSUME NEW h \in Gateways, StartPurge(h) \/ Misfire(h) \/ Purge(h)
      PROVE  rejected'[w] <= total'[w] + OffBy(w)'
  BY <1>1, <1>4 DEF StartPurge, Misfire, Purge, reports
<1>5. ASSUME NEW h \in Gateways, Restart(h)
      PROVE  rejected'[w] <= total'[w] + OffBy(w)'
  BY <1>1, <1>5 DEF Restart
<1>6. ASSUME NEW h \in Gateways, NEW r \in Rows, Write(h, r)
      PROVE  rejected'[w] <= total'[w] + OffBy(w)'
  BY <1>1, <1>6 DEF Write
<1>7. CASE UNCHANGED vars
  BY <1>1, <1>7 DEF vars
<1> QED
  BY <1>2, <1>3, <1>4, <1>5, <1>6, <1>7 DEF Next

LEMMA NewcomersStep ==
  ASSUME TypeOK, [Next]_vars,
         \A w \in Dashboards : report[w] = "idle" => newcomers[w] = {},
         AloneUndisturbed
  PROVE  /\ \A w \in Dashboards : report'[w] = "idle" => newcomers'[w] = {}
         /\ AloneUndisturbed'
<1> USE DEF TypeOK, AloneUndisturbed
<1>1. ASSUME \A w \in Dashboards : \/ newcomers'[w] = {}
                                   \/ /\ newcomers'[w] = newcomers[w]
                                      /\ report'[w] = "idle" => report[w] = "idle"
      PROVE  /\ \A w \in Dashboards : report'[w] = "idle" => newcomers'[w] = {}
             /\ AloneUndisturbed'
  BY <1>1, PageType
<1>2. ASSUME NEW v \in Dashboards, Report(v)
      PROVE  \A w \in Dashboards : \/ newcomers'[w] = {}
                                   \/ /\ newcomers'[w] = newcomers[w]
                                      /\ report'[w] = "idle" => report[w] = "idle"
  BY <1>2 DEF Report, CountTotal, CountBlocked, Average
<1>3. CASE Tick
  BY <1>1, <1>3 DEF Tick
<1>4. ASSUME NEW h \in Gateways, StartPurge(h) \/ Misfire(h) \/ Purge(h)
      PROVE  \A w \in Dashboards : newcomers'[w] = newcomers[w] /\ report'[w] = report[w]
  BY <1>4 DEF StartPurge, Misfire, Purge, reports
<1>5. ASSUME NEW h \in Gateways, Restart(h)
      PROVE  \A w \in Dashboards : \/ newcomers'[w] = {}
                                   \/ newcomers'[w] = newcomers[w] /\ report'[w] = report[w]
  BY <1>5 DEF Restart
<1>6. ASSUME NEW h \in Gateways, NEW r \in Rows, Write(h, r)
      PROVE  /\ \A w \in Dashboards : report'[w] = "idle" => newcomers'[w] = {}
             /\ AloneUndisturbed'
  <2>1. report' = report /\ report[Page(h)] = "idle"
    BY <1>6 DEF Write, LoopFree
  <2>2. \A w \in Dashboards : report[w] # "blocked" => newcomers'[w] = newcomers[w]
    BY <1>6 DEF Write
  <2> QED
    BY <2>1, <2>2, PageType
<1>7. CASE UNCHANGED vars
  BY <1>1, <1>7 DEF vars
<1> QED
  BY <1>1, <1>2, <1>3, <1>4, <1>5, <1>6, <1>7 DEF Next

-----------------------------------------------------------------------------
\* All of it together.

\* Every reachable state satisfies the inductive invariant.
THEOREM InductiveInvariant == Spec => []IInv
<1>1. Init => IInv
  <2> SUFFICES ASSUME Init PROVE IInv
    OBVIOUS
  <2>1. \A g \in Gateways : Scheduled(g) /\ Swept(g)
    BY DEF Init, Scheduled, Swept
  <2>2. /\ \A w \in Dashboards : report[w] = "idle" /\ newcomers[w] = {}
        /\ ReportsAddUp /\ AloneUndisturbed
    BY PageType DEF Init, ReportsAddUp, AloneUndisturbed
  <2>3. \A w \in Dashboards : Shrinks(w)
    BY <2>2 DEF Shrinks
  <2> QED
    BY <2>1, <2>2, <2>3, InitType DEF Init, IInv
<1>2. IInv /\ [Next]_vars => IInv'
  <2> SUFFICES ASSUME IInv, [Next]_vars PROVE IInv'
    OBVIOUS
  <2>1. TypeOK'
    BY TypeStep DEF IInv
  <2>2. stored' # {} => Gateways # {}
    BY DEF IInv, Next, Tick, Report, CountTotal, CountBlocked, Average,
       StartPurge, Misfire, Purge, Restart, Write, vars
  <2>3. \A g \in Gateways : Scheduled(g)'
    BY ScheduledStep DEF IInv
  <2>4. \A g \in Gateways : Swept(g)' \/ SweepsNext(g)'
    BY SweptStep, SweepsNextStep DEF IInv
  <2>5. \A w \in Dashboards : Shrinks(w)'
    BY ShrinksStep DEF IInv
  <2>6. ReportsAddUp'
    BY AddsUpStep DEF IInv, ReportsAddUp
  <2>7. /\ \A w \in Dashboards : report'[w] = "idle" => newcomers'[w] = {}
        /\ AloneUndisturbed'
    BY NewcomersStep DEF IInv
  <2> QED
    BY <2>1, <2>2, <2>3, <2>4, <2>5, <2>6, <2>7 DEF IInv
<1> QED
  BY <1>1, <1>2, PTL DEF Spec

\* No row gets older than the retention, the interval between two purges and the
\* time a purge may take, once a single process has lost no run to a restart, a
\* failed DELETE or a late scheduler for an interval and a purge.
THEOREM Purged == Spec => []PurgedInTime
<1>1. IInv => PurgedInTime
  <2> SUFFICES ASSUME IInv, NEW g \in Gateways, calm[g] > Settled, NEW r \in stored
               PROVE  age[r] <= Oldest
    BY DEF PurgedInTime
  <2>0. /\ age[r] \in Nat /\ untilRun[g] \in 0..Interval
        /\ cutAge[g] \in 0..MaxStall /\ calm[g] \in Nat
    BY Bounds DEF IInv, TypeOK
  <2>1. ~SweepsNext(g)
    BY <2>0, ConstantsAssumption DEF SweepsNext, Settled
  <2>2. Scheduled(g) /\ Swept(g)
    BY <2>1 DEF IInv
  <2>3. CASE purging[g]
    BY <2>0, <2>2, <2>3, ConstantsAssumption DEF Scheduled, Swept, Oldest
  <2>4. CASE ~purging[g]
    BY <2>0, <2>2, <2>4, ConstantsAssumption DEF Swept, Oldest
  <2> QED
    BY <2>3, <2>4
<1> QED
  BY <1>1, InductiveInvariant, PTL

\* No report, of any number of processes and whatever is purged meanwhile, counts
\* more blocked than total requests by more than the rows written in between.
THEOREM ReportsConsistent == Spec => []ReportsAddUp
<1>1. IInv => ReportsAddUp
  BY DEF IInv
<1> QED
  BY <1>1, InductiveInvariant, PTL

\* The page of a process alone with its database never counts more blocked than
\* total requests.
THEOREM PageConsistent == Spec => []PageAddsUp
<1>1. IInv => PageAddsUp
  <2> SUFFICES ASSUME IInv, NEW g \in Gateways, Gateways = {g},
                      report[Page(g)] = "average"
               PROVE  rejected[Page(g)] <= total[Page(g)]
    BY DEF PageAddsUp
  <2>1. /\ rejected[Page(g)] <= total[Page(g)] + OffBy(Page(g))
        /\ newcomers[Page(g)] = {}
    BY PageType DEF IInv, ReportsAddUp, AloneUndisturbed
  <2>2. OffBy(Page(g)) = 0
    BY <2>1, FS_EmptySet DEF OffBy
  <2>3. total[Page(g)] \in Nat
    BY PageType, ConstantsAssumption, FS_CardinalityType DEF IInv, TypeOK
  <2> QED
    BY <2>1, <2>2, <2>3
<1> QED
  BY <1>1, InductiveInvariant, PTL
=============================================================================
