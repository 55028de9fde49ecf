-------------------------- MODULE RateLimiterProofs --------------------------
(***************************************************************************)
(* Proofs about RateLimiter: type correctness for every value of the       *)
(* constants, and, for the deployment the repository ships (one process),  *)
(* that no stretch of a window's length sees more allowed checks of a rule *)
(* than its limit, however long the windows and however many the rules.    *)
(***************************************************************************)
EXTENDS RateLimiter, FiniteSetTheorems, WellFoundedInduction, TLAPS

LEMMA SpanType == \A r \in Rules : Span(r) \in Nat /\ Expiry(r) \in Nat
  BY ConstantsAssumption DEF Span, Expiry

\* A step keeps every variable in its type.
LEMMA TypeStep == TypeOK /\ [Next]_vars => TypeOK'
<1> SUFFICES ASSUME TypeOK, [Next]_vars PROVE TypeOK'
  OBVIOUS
<1> USE ConstantsAssumption DEF TypeOK
<1>0. ASSUME Advance
      PROVE  clock' \in Nat /\ zset' \in SUBSET Nat /\ ttl' \in Nat \cup {NoTTL}
  <2>1. clock' \in Nat
    BY <1>0 DEF Advance
  <2>2. CASE ttl # NoTTL /\ ttl <= clock + 1
    BY <1>0, <2>1, <2>2 DEF Advance
  <2>3. CASE ~(ttl # NoTTL /\ ttl <= clock + 1)
    BY <1>0, <2>1, <2>3 DEF Advance
  <2> QED
    BY <2>2, <2>3
<1>1. CASE Tick
  BY <1>0, <1>1 DEF Tick
<1>2. ASSUME NEW p \in Procs, NEW r \in Rules, ReadClock(p, r) PROVE TypeOK'
  <2>1. clock' \in Nat /\ zset' \in SUBSET Nat /\ ttl' \in Nat \cup {NoTTL}
    BY <1>0, <1>2 DEF ReadClock
  <2> QED
    BY <1>2, <2>1 DEF ReadClock, Goto
<1>3. ASSUME NEW p \in Procs, Prune(p) PROVE TypeOK'
  BY <1>3 DEF Prune, Store, InWindow, Goto, NoTTL
<1>4. ASSUME NEW p \in Procs, Count(p) PROVE TypeOK'
  BY <1>4 DEF Count, Goto
<1>5. ASSUME NEW p \in Procs, Add(p) PROVE TypeOK'
  BY <1>5 DEF Add, Stamp, Goto
<1>6. ASSUME NEW p \in Procs, Expire(p) PROVE TypeOK'
  <2>1. ttl' \in Nat \cup {NoTTL}
    BY <1>6, SpanType DEF Expire
  <2>2. admitted' \in [Rules -> SUBSET Nat]
    BY <1>6 DEF Expire
  <2> QED
    BY <1>6, <2>1, <2>2 DEF Expire, Goto
<1>7. ASSUME NEW p \in Procs, Reject(p) PROVE TypeOK'
  BY <1>7 DEF Reject, Goto
<1>8. ASSUME NEW p \in Procs, Fail(p) PROVE TypeOK'
  BY <1>8 DEF Fail, Goto
<1>9. CASE UNCHANGED vars
  BY <1>9 DEF vars
<1> QED
  BY <1>1, <1>2, <1>3, <1>4, <1>5, <1>6, <1>7, <1>8, <1>9 DEF Next, Check

\* The state of the limiter stays well typed, whatever the number of
\* processes, the clock and the failures: the sorted set holds past or present
\* clock readings and nothing else.
THEOREM TypeCorrect == Spec => []TypeOK
<1>1. Init => TypeOK
  BY DEF Init, TypeOK, NoTTL
<1> QED
  BY <1>1, TypeStep, PTL DEF Spec

-----------------------------------------------------------------------------
\* The inductive invariant.  Each lemma takes one kind of step.

\* The types the arithmetic below rests on.
LEMMA Numbers ==
  ASSUME IInv
  PROVE  /\ clock \in Nat
         /\ zset \subseteq Nat
         /\ ttl \in Nat \cup {NoTTL}
         /\ \A p \in Procs : now[p] \in Nat /\ rule[p] \in Rules
         /\ \A r \in Rules : admitted[r] \subseteq Nat
         /\ \A r \in Rules : Span(r) \in Nat
  BY SpanType DEF IInv, TypeOK

\* A tick of the clock drops no allowed stamp that a window still holds: the
\* key expires later than a second after the stamp has left the window.
LEMMA NothingForgotten ==
  ASSUME AsDeployed, IInv, Advance,
         NEW p \in Procs, NEW r \in Rules, Shortest(r),
         NEW s \in admitted[r], s > Present(p) - Span(r)
  PROVE  s \in zset'
<1> USE ConstantsAssumption
<1>1. s \in zset
  BY DEF IInv, Enforced, StillStored
<1>2. /\ s \in Nat /\ clock \in Nat /\ now[p] \in Nat /\ Span(r) \in Nat
      /\ ttl \in Nat \cup {NoTTL}
  BY SpanType DEF IInv, TypeOK
<1>3. ~Pending(s)
  BY <1>2 DEF IInv, StampsArePast, Pending
<1>4. ttl = NoTTL \/ ttl > s + Span(r) + Second
  BY <1>1, <1>3 DEF IInv, Enforced, KeyOutlives
<1>5. ~(ttl # NoTTL /\ ttl <= clock + 1)
  <2> SUFFICES ASSUME ttl # NoTTL PROVE ttl > clock + 1
    BY <1>2 DEF NoTTL
  <2>1. CASE pc[p] = "idle"
    BY <1>2, <1>4, <2>1 DEF Present, NoTTL
  <2>2. CASE pc[p] # "idle"
    <3>1. clock + 1 - now[p] < MaxStall
      BY <2>2 DEF Advance
    <3> QED
      BY <1>2, <1>4, <2>2, <3>1 DEF Present, NoTTL, AsDeployed
  <2> QED
    BY <2>1, <2>2
<1> QED
  BY <1>1, <1>5 DEF Advance

LEMMA TickKeeps ==
  ASSUME AsDeployed, IInv, Tick  PROVE IInv'
<1> USE ConstantsAssumption
<1>0. /\ clock \in Nat /\ clock' = clock + 1
      /\ \/ zset' = {} /\ ttl' = NoTTL
         \/ zset' = zset /\ ttl' = ttl
  BY DEF Tick, Advance, IInv, TypeOK
<1>1. TypeOK'
  BY TypeStep DEF IInv, Next
<1>2. (zset = {} => ttl = NoTTL)'
  BY <1>0 DEF IInv
<1>3. FiniteHistory'
  BY <1>0, FS_EmptySet DEF IInv, FiniteHistory, Tick
<1>4. StampsArePast'
  <2>0. /\ zset' \subseteq zset /\ zset \subseteq Nat
        /\ \A r \in Rules : admitted[r] \subseteq Nat
        /\ \A p \in Procs : now[p] \in Nat
    BY <1>0 DEF IInv, TypeOK
  <2>1. \A s \in zset' : s < clock'
    BY <1>0, <2>0 DEF IInv, StampsArePast
  <2>2. \A r \in Rules : \A s \in admitted[r] : s < clock'
    BY <1>0, <2>0 DEF IInv, StampsArePast
  <2>3. ASSUME NEW p \in Procs, pc[p] # "idle"
        PROVE  now[p] < clock' /\ clock' <= now[p] + Second
    <3>1. clock + 1 - now[p] < MaxStall /\ MaxStall <= Second
      BY <2>3 DEF Tick, Advance, AsDeployed
    <3>2. now[p] < clock
      BY <2>3 DEF IInv, StampsArePast
    <3> QED
      BY <1>0, <2>0, <3>1, <3>2
  <2>4. ASSUME NEW p \in Procs, pc[p] # "idle"
        PROVE  \A s \in zset' : s < now[p] \/ (pc[p] = "expire" /\ s = now[p])
    BY <2>0, <2>4 DEF IInv, StampsArePast
  <2> QED
    BY <2>1, <2>2, <2>3, <2>4 DEF IInv, StampsArePast, Tick
<1>5. ASSUME NEW r \in Rules, Shortest(r) PROVE Enforced(r)'
  <2>0. Enforced(r)
    BY <1>5 DEF IInv
  <2>1. KeyOutlives(r)'
    BY <1>0, <2>0 DEF Enforced, KeyOutlives, Pending, Tick
  <2>2. StillStored(r)'
    <3> SUFFICES ASSUME NEW p \in Procs, NEW s \in admitted[r], s > Present(p)' - Span(r)
                 PROVE  s \in zset'
      BY DEF StillStored, Tick
    <3>1. s \in Nat /\ now[p] \in Nat /\ Span(r) \in Nat
      BY SpanType DEF IInv, TypeOK
    <3>2. s > Present(p) - Span(r)
      BY <1>0, <3>1 DEF Present, Tick
    <3> QED
      BY <1>5, <3>2, NothingForgotten DEF Tick
  <2>3. ASSUME NEW p \in Procs, rule'[p] = r PROVE Midway(p, r)'
    <3>0. Midway(p, r)
      BY <2>0, <2>3 DEF Enforced, Tick
    <3>2. ASSUME pc[p] = "expire"
          PROVE  now[p] \in zset' /\ (ttl' = NoTTL \/ ttl' > now[p] + Second)
      <4>1. now[p] \in zset /\ (ttl = NoTTL \/ ttl > now[p] + Second)
        BY <3>0, <3>2 DEF Midway
      <4>2. clock + 1 - now[p] < MaxStall /\ MaxStall <= Second
        BY <3>2 DEF Tick, Advance, AsDeployed
      <4>3. now[p] \in Nat /\ ttl \in Nat \cup {NoTTL}
        BY DEF IInv, TypeOK
      <4>4. ~(ttl # NoTTL /\ ttl <= clock + 1)
        BY <1>0, <4>1, <4>2, <4>3 DEF NoTTL
      <4> QED
        BY <4>1, <4>4 DEF Tick, Advance
    <3> QED
      BY <3>0, <3>2 DEF Midway, Tick
  <2>4. Bounded(r)'
    BY <2>0 DEF Enforced, Bounded, Tick
  <2> QED
    BY <2>1, <2>2, <2>3, <2>4 DEF Enforced
<1>6. OnlyAdmitted' /\ JustPruned'
  BY <1>0 DEF IInv, OnlyAdmitted, JustPruned, Pending, Tick
<1> QED
  BY <1>6, <1>1, <1>2, <1>3, <1>4, <1>5 DEF IInv, Shortest

LEMMA ReadClockKeeps ==
  ASSUME AsDeployed, IInv, NEW p \in Procs, NEW q \in Rules, ReadClock(p, q)
  PROVE  IInv'
<1> USE ConstantsAssumption
<1>0. /\ Advance
      /\ pc[p] = "idle"
      /\ pc' = [pc EXCEPT ![p] = "prune"]
      /\ now' = [now EXCEPT ![p] = clock]
      /\ rule' = [rule EXCEPT ![p] = q]
      /\ admitted' = admitted
  BY DEF ReadClock, Goto, AsDeployed
<1>1. /\ clock' = clock + 1
      /\ \/ zset' = {} /\ ttl' = NoTTL
         \/ zset' = zset /\ ttl' = ttl
  BY <1>0 DEF Advance
<1>2. TypeOK'
  BY TypeStep DEF IInv, Next
<1>3. (zset = {} => ttl = NoTTL)'
  BY <1>1 DEF IInv
<1>4. FiniteHistory'
  BY <1>0, <1>1, FS_EmptySet DEF IInv, FiniteHistory
<1>5. \A o \in Procs : o = p
  BY DEF AsDeployed
<1>6. pc'[p] = "prune" /\ now'[p] = clock /\ rule'[p] = q
  BY <1>0 DEF IInv, TypeOK
<1>7. StampsArePast'
  <2>1. \A s \in zset' : s < clock' /\ s < clock
    BY <1>1, Numbers DEF IInv, StampsArePast
  <2>2. \A r \in Rules : \A s \in admitted'[r] : s < clock' /\ s < clock
    BY <1>0, <1>1, Numbers DEF IInv, StampsArePast
  <2>3. clock < clock' /\ clock' <= clock + Second
    BY <1>1, Numbers
  <2> QED
    BY <1>5, <1>6, <2>1, <2>2, <2>3 DEF StampsArePast
<1>8. ASSUME NEW r \in Rules, Shortest(r) PROVE Enforced(r)'
  <2>0. Enforced(r)
    BY <1>8 DEF IInv
  <2>1. KeyOutlives(r)'
    <3>1. \A s \in zset : ~Pending(s)
      BY <1>0, <1>5 DEF Pending
    <3> QED
      BY <1>1, <2>0, <3>1 DEF Enforced, KeyOutlives
  <2>2. StillStored(r)'
    <3> SUFFICES ASSUME NEW s \in admitted[r], s > clock - Span(r)
                 PROVE  s \in zset'
      BY <1>0, <1>5, <1>6 DEF StillStored, Present
    <3> QED
      BY <1>0, <1>8, NothingForgotten DEF Present
  <2>3. \A o \in Procs : Midway(o, r)'
    BY <1>5, <1>6 DEF Midway
  <2>4. Bounded(r)'
    BY <1>0, <2>0 DEF Enforced, Bounded
  <2> QED
    BY <2>1, <2>2, <2>3, <2>4 DEF Enforced
<1>9. OnlyAdmitted' /\ JustPruned'
  <2>1. \A s \in zset : \E r \in Rules : s \in admitted[r]
    BY <1>0, <1>5 DEF IInv, OnlyAdmitted, Pending
  <2> QED
    BY <1>0, <1>1, <1>5, <1>6, <2>1 DEF OnlyAdmitted, JustPruned
<1> QED
  BY <1>9, <1>2, <1>3, <1>4, <1>7, <1>8 DEF IInv, Shortest

LEMMA PruneKeeps ==
  ASSUME AsDeployed, IInv, NEW p \in Procs, Prune(p)  PROVE IInv'
<1> USE ConstantsAssumption
<1>0. /\ pc[p] = "prune"
      /\ zset' = InWindow(p)
      /\ ttl' = IF InWindow(p) = {} THEN NoTTL ELSE ttl
      /\ pc' = [pc EXCEPT ![p] = "count"]
      /\ UNCHANGED <<clock, now, rule, admitted>>
  BY DEF Prune, Store, Goto
<1>1. \A o \in Procs : o = p
  BY DEF AsDeployed
<1>2. zset' \subseteq zset /\ pc'[p] = "count"
  BY <1>0 DEF InWindow, IInv, TypeOK
<1>3. TypeOK'
  BY TypeStep DEF IInv, Next, Check
<1>4. (zset = {} => ttl = NoTTL)'
  BY <1>0
<1>5. FiniteHistory'
  BY <1>0, <1>2, FS_Subset DEF IInv, FiniteHistory
<1>6. StampsArePast'
  BY <1>0, <1>1, <1>2 DEF IInv, StampsArePast
<1>7. ASSUME NEW r \in Rules, Shortest(r) PROVE Enforced(r)'
  <2>0. Enforced(r)
    BY <1>7 DEF IInv
  <2>1. KeyOutlives(r)'
    <3>1. \A s \in zset : ~Pending(s)
      BY <1>0, <1>1 DEF Pending
    <3> QED
      BY <1>0, <1>2, <2>0, <3>1 DEF Enforced, KeyOutlives
  <2>2. StillStored(r)'
    <3> SUFFICES ASSUME NEW s \in admitted[r], s > now[p] - Span(r)
                 PROVE  s \in InWindow(p)
      BY <1>0, <1>1, <1>2 DEF StillStored, Present
    <3>1. s \in zset
      BY <1>0, <2>0 DEF Enforced, StillStored, Present
    <3>2. s > now[p] - Span(rule[p])
      BY <1>7, Numbers DEF Shortest
    <3> QED
      BY <3>1, <3>2 DEF InWindow
  <2>3. ASSUME rule[p] = r PROVE Midway(p, r)'
    BY <1>2, <2>3 DEF Midway
  <2>4. Bounded(r)'
    BY <1>0, <2>0 DEF Enforced, Bounded
  <2> QED
    BY <1>0, <1>1, <2>1, <2>2, <2>3, <2>4 DEF Enforced
<1>8. OnlyAdmitted'
  BY <1>0, <1>1, <1>2 DEF IInv, OnlyAdmitted, Pending
<1>9. JustPruned'
  BY <1>0, <1>1 DEF JustPruned, InWindow
<1> QED
  BY <1>8, <1>9, <1>3, <1>4, <1>5, <1>6, <1>7 DEF IInv, Shortest

LEMMA CountKeeps ==
  ASSUME AsDeployed, IInv, NEW p \in Procs, Count(p)  PROVE IInv'
<1> USE ConstantsAssumption
<1>0. /\ pc[p] = "count"
      /\ pc' = [pc EXCEPT ![p] = IF HasRoom(p) THEN "add" ELSE "oldest"]
      /\ UNCHANGED <<clock, zset, ttl, now, rule, admitted>>
  BY DEF Count, Goto
<1>1. \A o \in Procs : o = p
  BY DEF AsDeployed
<1>2. pc'[p] = IF HasRoom(p) THEN "add" ELSE "oldest"
  BY <1>0 DEF IInv, TypeOK
<1>3. TypeOK'
  BY TypeStep DEF IInv, Next, Check
<1>4. (zset = {} => ttl = NoTTL)' /\ FiniteHistory'
  BY <1>0 DEF IInv, FiniteHistory
<1>5. StampsArePast'
  BY <1>0, <1>1, <1>2 DEF IInv, StampsArePast
<1>6. ASSUME NEW r \in Rules, Shortest(r) PROVE Enforced(r)'
  <2>0. Enforced(r)
    BY <1>6 DEF IInv
  <2>1. KeyOutlives(r)'
    BY <1>0, <1>1, <1>2, <2>0 DEF Enforced, KeyOutlives, Pending
  <2>2. StillStored(r)'
    BY <1>0, <1>1, <1>2, <2>0 DEF Enforced, StillStored, Present
  <2>3. ASSUME rule[p] = r PROVE Midway(p, r)'
    <3> DEFINE Recent == {s \in admitted[r] : s > now[p] - Span(r)}
    <3>2. ASSUME HasRoom(p) PROVE Cardinality(Recent) < Limit[r]
      <4>1. Recent \subseteq zset
        BY <1>0, <2>0 DEF Enforced, StillStored, Present
      <4>2. IsFiniteSet(zset) /\ Cardinality(zset) \in Nat
        BY FS_CardinalityType DEF IInv, FiniteHistory
      <4>3. Cardinality(Recent) \in Nat /\ Cardinality(Recent) <= Cardinality(zset)
        BY <4>1, <4>2, FS_Subset, FS_CardinalityType
      <4>4. Cardinality(zset) < Limit[r]
        BY <2>3, <3>2 DEF HasRoom
      <4> QED
        BY <4>2, <4>3, <4>4
    <3>3. pc'[p] \in {"add", "expire"} => HasRoom(p)
      BY <1>2
    <3>4. pc'[p] # "expire"
      BY <1>2
    <3> QED
      BY <1>0, <3>2, <3>3, <3>4 DEF Midway
  <2>4. Bounded(r)'
    BY <1>0, <2>0 DEF Enforced, Bounded
  <2> QED
    BY <1>0, <1>1, <2>1, <2>2, <2>3, <2>4 DEF Enforced
<1>7. OnlyAdmitted'
  BY <1>0, <1>1 DEF IInv, OnlyAdmitted, Pending
<1>8. JustPruned'
  BY <1>0, <1>1 DEF IInv, JustPruned
<1> QED
  BY <1>7, <1>8, <1>3, <1>4, <1>5, <1>6 DEF IInv, Shortest

LEMMA AddKeeps ==
  ASSUME AsDeployed, IInv, NEW p \in Procs, Add(p)  PROVE IInv'
<1> USE ConstantsAssumption
<1>0. /\ pc[p] = "add"
      /\ zset' = zset \cup {now[p]}
      /\ pc' = [pc EXCEPT ![p] = "expire"]
      /\ UNCHANGED <<clock, ttl, now, rule, admitted>>
  BY DEF Add, Stamp, Goto
<1>1. \A o \in Procs : o = p
  BY DEF AsDeployed
<1>2. pc'[p] = "expire"
  BY <1>0 DEF IInv, TypeOK
<1>3. TypeOK'
  BY TypeStep DEF IInv, Next, Check
<1>4. (zset = {} => ttl = NoTTL)'
  BY <1>0
<1>5. FiniteHistory'
  BY <1>0, FS_AddElement DEF IInv, FiniteHistory
<1>6. StampsArePast'
  BY <1>0, <1>1, <1>2 DEF IInv, StampsArePast
<1>7. ASSUME NEW r \in Rules, Shortest(r) PROVE Enforced(r)'
  <2>0. Enforced(r)
    BY <1>7 DEF IInv
  <2>1. KeyOutlives(r)'
    <3>1. \A s \in zset : ttl = NoTTL \/ ttl > s + Span(r) + Second
      BY <1>0, <1>1, <2>0 DEF Enforced, KeyOutlives, Pending
    <3> QED
      BY <1>0, <1>2, <3>1 DEF KeyOutlives, Pending
  <2>2. StillStored(r)'
    BY <1>0, <1>1, <1>2, <2>0 DEF Enforced, StillStored, Present
  <2>3. ASSUME rule[p] = r PROVE Midway(p, r)'
    <3>0. Midway(p, r)
      BY <2>0, <2>3 DEF Enforced
    <3>1. ttl = NoTTL \/ ttl > now[p] + Second
      <4>1. CASE zset = {}
        BY <4>1 DEF IInv
      <4>2. ASSUME NEW s \in zset PROVE ttl = NoTTL \/ ttl > now[p] + Second
        <5>1. s > now[p] - Span(r)
          BY <1>0, <2>3 DEF IInv, JustPruned
        <5>2. ttl = NoTTL \/ ttl > s + Span(r) + Second
          BY <1>0, <1>1, <2>0 DEF Enforced, KeyOutlives, Pending
        <5> QED
          BY <5>1, <5>2, Numbers DEF NoTTL
      <4> QED
        BY <4>1, <4>2
    <3> QED
      BY <1>0, <1>2, <3>0, <3>1 DEF Midway
  <2>4. Bounded(r)'
    BY <1>0, <2>0 DEF Enforced, Bounded
  <2> QED
    BY <1>0, <1>1, <2>1, <2>2, <2>3, <2>4 DEF Enforced
<1>8. OnlyAdmitted'
  BY <1>0, <1>1, <1>2 DEF IInv, OnlyAdmitted, Pending
<1>9. JustPruned'
  BY <1>1, <1>2 DEF JustPruned
<1> QED
  BY <1>8, <1>9, <1>3, <1>4, <1>5, <1>6, <1>7 DEF IInv, Shortest

LEMMA RejectKeeps ==
  ASSUME AsDeployed, IInv, NEW p \in Procs, Reject(p)  PROVE IInv'
<1> USE ConstantsAssumption
<1>0. /\ pc[p] = "oldest"
      /\ pc' = [pc EXCEPT ![p] = "idle"]
      /\ UNCHANGED <<clock, zset, ttl, now, rule, admitted>>
  BY DEF Reject, Goto
<1>1. \A o \in Procs : o = p
  BY DEF AsDeployed
<1>2. pc'[p] = "idle"
  BY <1>0 DEF IInv, TypeOK
<1>3. TypeOK'
  BY TypeStep DEF IInv, Next, Check
<1>4. (zset = {} => ttl = NoTTL)' /\ FiniteHistory'
  BY <1>0 DEF IInv, FiniteHistory
<1>5. StampsArePast'
  BY <1>0, <1>1, <1>2 DEF IInv, StampsArePast
<1>6. ASSUME NEW r \in Rules, Shortest(r) PROVE Enforced(r)'
  <2>0. Enforced(r)
    BY <1>6 DEF IInv
  <2>1. KeyOutlives(r)'
    BY <1>0, <1>1, <1>2, <2>0 DEF Enforced, KeyOutlives, Pending
  <2>2. StillStored(r)'
    <3>1. now[p] < clock
      BY <1>0 DEF IInv, StampsArePast
    <3>2. \A s \in admitted[r] : s > clock - Span(r) => s > now[p] - Span(r)
      BY <3>1, Numbers
    <3> QED
      BY <1>0, <1>1, <1>2, <2>0, <3>2 DEF Enforced, StillStored, Present
  <2>3. \A o \in Procs : Midway(o, r)'
    BY <1>1, <1>2 DEF Midway
  <2>4. Bounded(r)'
    BY <1>0, <2>0 DEF Enforced, Bounded
  <2> QED
    BY <2>1, <2>2, <2>3, <2>4 DEF Enforced
<1>7. OnlyAdmitted' /\ JustPruned'
  BY <1>0, <1>1, <1>2 DEF IInv, OnlyAdmitted, JustPruned, Pending
<1> QED
  BY <1>7, <1>3, <1>4, <1>5, <1>6 DEF IInv, Shortest

LEMMA NoSlack == AsDeployed => Slack = 0
<1> SUFFICES ASSUME NEW p, Procs = {p} PROVE Slack = 0
  BY DEF AsDeployed
<1>1. Cardinality({p}) = 1
  BY FS_Singleton
<1> QED
  BY <1>1 DEF Slack

\* The check that is allowed is the newest of its window, and the window
\* before it held fewer allowed checks than the limit.
LEMMA ExpireKeepsBound ==
  ASSUME AsDeployed, IInv, NEW p \in Procs, Expire(p),
         NEW r \in Rules, Shortest(r)
  PROVE  Bounded(r)'
<1> USE ConstantsAssumption
<1>0. /\ pc[p] = "expire"
      /\ admitted' = [admitted EXCEPT ![rule[p]] = @ \cup {now[p]}]
  BY DEF Expire
<1>1. Bounded(r)
  BY DEF IInv, Enforced
<1>2. CASE rule[p] # r
  <2>1. admitted'[r] = admitted[r]
    BY <1>0, <1>2 DEF IInv, TypeOK
  <2> QED
    BY <1>1, <2>1 DEF Bounded
<1>3. CASE rule[p] = r
  <2>1. admitted'[r] = admitted[r] \cup {now[p]}
    BY <1>0, <1>3 DEF IInv, TypeOK
  <2>2. now[p] \in Nat /\ admitted[r] \subseteq Nat /\ Span(r) \in Nat /\ Limit[r] \in Nat
    BY Numbers
  <2>3. \A s \in admitted[r] : s < now[p]
    BY <1>0 DEF IInv, StampsArePast
  <2> SUFFICES ASSUME NEW t \in admitted'[r]
               PROVE  Cardinality({s \in admitted'[r] : t - Span(r) < s /\ s <= t})
                        <= Limit[r] + Slack
    BY DEF Bounded
  <2>4. CASE t \in admitted[r]
    <3>1. {s \in admitted'[r] : t - Span(r) < s /\ s <= t}
            = {s \in admitted[r] : t - Span(r) < s /\ s <= t}
      BY <2>1, <2>2, <2>3, <2>4
    <3> QED
      BY <1>1, <2>4, <3>1 DEF Bounded
  <2>5. CASE t = now[p]
    <3> DEFINE Recent == {s \in admitted[r] : s > now[p] - Span(r)}
    <3>1. Cardinality(Recent) < Limit[r]
      BY <1>0, <1>3 DEF IInv, Enforced, Midway
    <3>2. IsFiniteSet(Recent)
      BY FS_Subset DEF IInv, FiniteHistory
    <3>3. now[p] \notin Recent
      BY <2>2, <2>3
    <3>4. {s \in admitted'[r] : t - Span(r) < s /\ s <= t} \subseteq Recent \cup {now[p]}
      BY <2>1, <2>2, <2>5
    <3>5. Cardinality(Recent \cup {now[p]}) = Cardinality(Recent) + 1
      BY <3>2, <3>3, FS_AddElement
    <3>6. IsFiniteSet(Recent \cup {now[p]})
      BY <3>2, FS_AddElement
    <3> HIDE DEF Recent
    <3>7. /\ Cardinality({s \in admitted'[r] : t - Span(r) < s /\ s <= t})
               <= Cardinality(Recent \cup {now[p]})
          /\ Cardinality({s \in admitted'[r] : t - Span(r) < s /\ s <= t}) \in Nat
      BY <3>4, <3>6, FS_Subset, FS_CardinalityType
    <3>8. Cardinality(Recent) \in Nat
      BY <3>2, FS_CardinalityType
    <3> QED
      BY <2>2, <3>1, <3>5, <3>7, <3>8, NoSlack
  <2> QED
    BY <2>1, <2>4, <2>5
<1> QED
  BY <1>2, <1>3

LEMMA ExpireKeeps ==
  ASSUME AsDeployed, IInv, NEW p \in Procs, Expire(p)  PROVE IInv'
<1> USE ConstantsAssumption
<1>0. /\ pc[p] = "expire"
      /\ ttl' = IF zset = {} THEN NoTTL ELSE clock + Expiry(rule[p])
      /\ admitted' = [admitted EXCEPT ![rule[p]] = @ \cup {now[p]}]
      /\ pc' = [pc EXCEPT ![p] = "idle"]
      /\ UNCHANGED <<clock, zset, now, rule>>
  BY DEF Expire, Goto
<1>1. \A o \in Procs : o = p
  BY DEF AsDeployed
<1>2. pc'[p] = "idle"
  BY <1>0 DEF IInv, TypeOK
<1>3. TypeOK'
  BY TypeStep DEF IInv, Next, Check
<1>4. \A r \in Rules : admitted'[r] = IF r = rule[p] THEN admitted[r] \cup {now[p]}
                                      ELSE admitted[r]
  BY <1>0 DEF IInv, TypeOK
<1>5. (zset = {} => ttl = NoTTL)'
  BY <1>0
<1>6. FiniteHistory'
  <2>1. \A r \in Rules : IsFiniteSet(admitted[r]) /\ IsFiniteSet(admitted[r] \cup {now[p]})
    BY FS_AddElement DEF IInv, FiniteHistory
  <2>2. \A r \in Rules : IsFiniteSet(admitted'[r])
    BY <1>4, <2>1
  <2> QED
    BY <1>0, <2>2 DEF IInv, FiniteHistory
<1>7. now[p] < clock
  BY <1>0 DEF IInv, StampsArePast
<1>8. StampsArePast'
  <2>1. \A s \in zset : s < clock
    BY DEF IInv, StampsArePast
  <2>2. ASSUME NEW r \in Rules, NEW s \in admitted'[r] PROVE s < clock
    <3>1. s \in admitted[r] \/ s = now[p]
      BY <1>4
    <3>2. s \in admitted[r] => s < clock
      BY DEF IInv, StampsArePast
    <3> QED
      BY <1>7, <3>1, <3>2
  <2> QED
    BY <1>0, <1>1, <1>2, <2>1, <2>2 DEF StampsArePast
<1>9. ASSUME NEW r \in Rules, Shortest(r) PROVE Enforced(r)'
  <2>0. Enforced(r)
    BY <1>9 DEF IInv
  <2>1. KeyOutlives(r)'
    <3> SUFFICES ASSUME NEW s \in zset PROVE ttl' > s + Span(r) + Second
      BY <1>0 DEF KeyOutlives
    <3>1. ttl' = clock + Span(rule[p]) + Second
      BY <1>0, Numbers DEF Expiry
    <3>2. s < clock /\ Span(r) <= Span(rule[p])
      BY <1>9, Numbers DEF IInv, StampsArePast, Shortest
    <3> QED
      BY <3>1, <3>2, Numbers
  <2>2. StillStored(r)'
    <3> SUFFICES ASSUME NEW s \in admitted'[r], s > clock - Span(r)
                 PROVE  s \in zset
      BY <1>0, <1>1, <1>2 DEF StillStored, Present
    <3>1. CASE s \in admitted[r]
      <4>1. s > now[p] - Span(r)
        BY <1>7, <3>1, Numbers
      <4> QED
        BY <1>0, <2>0, <3>1, <4>1 DEF Enforced, StillStored, Present
    <3>2. CASE s = now[p] /\ rule[p] = r
      BY <1>0, <2>0, <3>2 DEF Enforced, Midway
    <3> QED
      BY <1>4, <3>1, <3>2
  <2>3. \A o \in Procs : Midway(o, r)'
    BY <1>1, <1>2 DEF Midway
  <2>4. Bounded(r)'
    BY <1>9, ExpireKeepsBound
  <2> QED
    BY <2>1, <2>2, <2>3, <2>4 DEF Enforced
<1>10. OnlyAdmitted'
  <2>1. \A s \in zset : s = now[p] \/ \E r \in Rules : s \in admitted[r]
    BY <1>0, <1>1 DEF IInv, OnlyAdmitted, Pending
  <2>2. rule[p] \in Rules
    BY DEF IInv, TypeOK
  <2>3. now[p] \in admitted'[rule[p]] /\ \A r \in Rules : admitted[r] \subseteq admitted'[r]
    BY <1>4, <2>2
  <2> QED
    BY <1>0, <2>1, <2>2, <2>3 DEF OnlyAdmitted
<1>11. JustPruned'
  BY <1>1, <1>2 DEF JustPruned
<1> QED
  BY <1>10, <1>11, <1>3, <1>5, <1>6, <1>8, <1>9 DEF IInv, Shortest

\* As deployed, what the sorted set holds, when its key expires and what was allowed
\* fit together between any two of the calls of check.
THEOREM InductiveInvariant == AsDeployed => (Spec => []IInv)
<1> SUFFICES ASSUME AsDeployed PROVE Spec => []IInv
  OBVIOUS
<1>1. Init => IInv
  <2> SUFFICES ASSUME Init PROVE IInv
    OBVIOUS
  <2>1. TypeOK
    BY DEF Init, TypeOK, NoTTL
  <2>2. FiniteHistory
    BY FS_EmptySet DEF Init, FiniteHistory
  <2>3. StampsArePast
    BY DEF Init, StampsArePast
  <2>4. \A r \in Rules : Enforced(r)
    BY DEF Init, Enforced, KeyOutlives, StillStored, Midway, Bounded
  <2>5. OnlyAdmitted /\ JustPruned
    BY DEF Init, OnlyAdmitted, JustPruned
  <2> QED
    BY <2>1, <2>2, <2>3, <2>4, <2>5 DEF Init, IInv
<1>2. IInv /\ [Next]_vars => IInv'
  <2> SUFFICES ASSUME IInv, [Next]_vars PROVE IInv'
    OBVIOUS
  <2>1. CASE Tick
    BY <2>1, TickKeeps
  <2>2. ASSUME NEW p \in Procs, NEW r \in Rules, ReadClock(p, r) PROVE IInv'
    BY <2>2, ReadClockKeeps
  <2>3. ASSUME NEW p \in Procs, Prune(p) PROVE IInv'
    BY <2>3, PruneKeeps
  <2>4. ASSUME NEW p \in Procs, Count(p) PROVE IInv'
    BY <2>4, CountKeeps
  <2>5. ASSUME NEW p \in Procs, Add(p) PROVE IInv'
    BY <2>5, AddKeeps
  <2>6. ASSUME NEW p \in Procs, Expire(p) PROVE IInv'
    BY <2>6, ExpireKeeps
  <2>7. ASSUME NEW p \in Procs, Reject(p) PROVE IInv'
    BY <2>7, RejectKeeps
  <2>8. ASSUME NEW p \in Procs, Fail(p) PROVE IInv'
    BY <2>8 DEF Fail, AsDeployed
  <2>9. CASE UNCHANGED vars
    <3>1. UNCHANGED <<clock, zset, ttl, pc, now, rule, admitted>>
      BY <2>9 DEF vars
    <3>2. TypeOK' /\ (zset = {} => ttl = NoTTL)' /\ FiniteHistory'
      BY <3>1 DEF IInv, TypeOK, FiniteHistory
    <3>3. StampsArePast'
      BY <3>1 DEF IInv, StampsArePast
    <3>4. ASSUME NEW r \in Rules, Shortest(r) PROVE Enforced(r)'
      BY <3>1, <3>4 DEF IInv, Enforced, KeyOutlives, StillStored, Midway,
          Bounded, Pending, Present
    <3>5. OnlyAdmitted' /\ JustPruned'
      BY <3>1 DEF IInv, OnlyAdmitted, JustPruned, Pending
    <3> QED
      BY <3>2, <3>3, <3>4, <3>5 DEF IInv, Shortest
  <2> QED
    BY <2>1, <2>2, <2>3, <2>4, <2>5, <2>6, <2>7, <2>8, <2>9 DEF Next, Check
<1> QED
  BY <1>1, <1>2, PTL DEF Spec

\* As deployed, the limiter enforces the limit of every rule that no other
\* rule on its key undercuts: never more than Limit[r] allowed checks in any
\* stretch of Span(r) ticks, for every limit, window and number of rules.
THEOREM LimitEnforced == AsDeployed => (Spec => []WindowBound)
<1>1. IInv => WindowBound
  BY DEF IInv, Enforced, WindowBound
<1> QED
  BY <1>1, InductiveInvariant, PTL

\* As deployed, no allowed check is forgotten while its window lasts: pruning
\* by other rules and the expiry of the key, one second longer than the
\* window, leave it in the sorted set.
THEOREM NothingLost == AsDeployed => (Spec => []AdmittedRemembered)
<1> SUFFICES ASSUME AsDeployed PROVE Spec => []AdmittedRemembered
  OBVIOUS
<1>1. IInv => AdmittedRemembered
  <2> SUFFICES ASSUME IInv, NEW r \in Rules, Shortest(r),
                      NEW s \in admitted[r], s > clock - Span(r)
               PROVE  s \in zset
    BY DEF AdmittedRemembered
  <2> PICK p : Procs = {p}
    BY DEF AsDeployed
  <2>1. pc[p] # "idle" => now[p] < clock
    BY DEF IInv, StampsArePast
  <2>2. s > Present(p) - Span(r)
    BY <2>1, Numbers DEF Present
  <2> QED
    BY <2>2 DEF IInv, Enforced, StillStored
<1> QED
  BY <1>1, InductiveInvariant, PTL

-----------------------------------------------------------------------------
\* The refinement.  Count is where the ideal limiter decides: the set it counts
\* lies between the rule's own admissions and anybody's.

LEMMA OneProcess == AsDeployed => Only \in Procs /\ \A p \in Procs : p = Only
  BY DEF AsDeployed, Only

\* The set that is counted holds every check of a shortest rule that its window
\* still contains.
LEMMA RoomForOwn ==
  ASSUME AsDeployed, IInv, pc[Only] = "count", HasRoom(Only),
         Shortest(rule[Only])
  PROVE  Cardinality({s \in admitted[rule[Only]] :
                        s > now[Only] - Span(rule[Only])}) < Limit[rule[Only]]
<1> DEFINE Own == {s \in admitted[rule[Only]] : s > now[Only] - Span(rule[Only])}
<1>1. Only \in Procs /\ rule[Only] \in Rules
  BY OneProcess, Numbers
<1>2. StillStored(rule[Only])
  BY <1>1 DEF IInv, Enforced
<1>3. Own \subseteq zset
  BY <1>1, <1>2 DEF StillStored, Present
<1>4. IsFiniteSet(zset) /\ Cardinality(zset) \in Nat
  BY FS_CardinalityType DEF IInv, FiniteHistory
<1>5. Cardinality(Own) \in Nat /\ Cardinality(Own) <= Cardinality(zset)
  BY <1>3, <1>4, FS_Subset, FS_CardinalityType
<1>6. Limit[rule[Only]] \in Nat
  BY <1>1, ConstantsAssumption
<1> QED
  BY <1>4, <1>5, <1>6 DEF HasRoom

\* Everything that is counted is an allowed check of the window.
LEMMA FullOfAnyones ==
  ASSUME AsDeployed, IInv, pc[Only] = "count", ~HasRoom(Only)
  PROVE  Cardinality({s \in UNION {admitted[r] : r \in Rules} :
                        s > now[Only] - Span(rule[Only])}) >= Limit[rule[Only]]
<1> DEFINE Anyones == {s \in UNION {admitted[r] : r \in Rules} :
                         s > now[Only] - Span(rule[Only])}
<1>1. Only \in Procs /\ rule[Only] \in Rules
  BY OneProcess, Numbers
<1>2. \A s \in zset : \E r \in Rules : s \in admitted[r]
  BY OneProcess DEF IInv, OnlyAdmitted, Pending
<1>3. \A s \in zset : s > now[Only] - Span(rule[Only])
  BY <1>1 DEF IInv, JustPruned
<1>4. zset \subseteq Anyones
  BY <1>2, <1>3
<1>5. Anyones \subseteq 0..clock
  BY Numbers DEF IInv, StampsArePast
<1>6. clock \in Nat
  BY Numbers
<1>7. IsFiniteSet(0..clock)
  BY <1>6, FS_Interval
<1>8. IsFiniteSet(Anyones)
  BY <1>5, <1>7, FS_Subset
<1> HIDE DEF Anyones
<1>9. /\ Cardinality(zset) \in Nat /\ Cardinality(Anyones) \in Nat
      /\ Cardinality(zset) <= Cardinality(Anyones)
  BY <1>4, <1>8, FS_Subset, FS_CardinalityType
<1>10. Limit[rule[Only]] \in Nat
  BY <1>1, ConstantsAssumption
<1>11. Cardinality(Anyones) >= Limit[rule[Only]]
  BY <1>9, <1>10 DEF HasRoom
<1> QED
  BY <1>11 DEF Anyones

\* The abstract module counts as this one does.
LEMMA SameCount == \A S : Ideal!Cardinality(S) = Cardinality(S)
  BY DEF Cardinality, Ideal!Cardinality, IsFiniteSet, Ideal!IsFiniteSet

LEMMA IdealStep ==
  ASSUME AsDeployed, IInv, [Next]_vars
  PROVE  [Ideal!Next]_(Ideal!vars)
<1> USE DEF Ideal!vars
<1>0. TypeOK /\ Only \in Procs /\ \A p \in Procs : p = Only
  BY OneProcess DEF IInv
<1>1. CASE Tick
  BY <1>1 DEF Tick, Advance, Ideal!Next, Ideal!Tick
<1>2. ASSUME NEW r \in Rules, ReadClock(Only, r) PROVE Ideal!Ask(r)
  <2>1. pc[Only] = "idle" /\ pc'[Only] = "prune"
    BY <1>0, <1>2 DEF ReadClock, Goto, TypeOK
  <2>2. now'[Only] = clock /\ rule'[Only] = r /\ clock' = clock + 1
    BY <1>0, <1>2 DEF ReadClock, TypeOK, AsDeployed, Advance
  <2> QED
    BY <1>2, <2>1, <2>2 DEF ReadClock, Ideal!Ask, Verdict
<1>3. ASSUME Prune(Only) PROVE UNCHANGED Ideal!vars
  <2>1. pc[Only] = "prune" /\ pc'[Only] = "count"
    BY <1>0, <1>3 DEF Prune, Goto, TypeOK
  <2> QED
    BY <1>3, <2>1 DEF Prune, Verdict
<1>4. ASSUME Count(Only) PROVE Ideal!Next
  <2>1. pc[Only] = "count" /\ pc'[Only] = IF HasRoom(Only) THEN "add" ELSE "oldest"
    BY <1>0, <1>4 DEF Count, Goto, TypeOK
  <2>2. rule[Only] \in Rules
    BY <1>0, Numbers
  <2>3. CASE HasRoom(Only)
    BY <1>4, <2>1, <2>2, <2>3, RoomForOwn, SameCount
       DEF Count, Verdict, Span, Ideal!Next, Ideal!Allow, Ideal!Own, Ideal!Start
  <2>4. CASE ~HasRoom(Only)
    BY <1>4, <2>1, <2>2, <2>4, FullOfAnyones, SameCount
       DEF Count, Verdict, Span, Ideal!Next, Ideal!Reject, Ideal!Anyones, Ideal!Start
  <2> QED
    BY <2>3, <2>4
<1>5. ASSUME Add(Only) PROVE UNCHANGED Ideal!vars
  <2>1. pc[Only] = "add" /\ pc'[Only] = "expire"
    BY <1>0, <1>5 DEF Add, Goto, TypeOK
  <2> QED
    BY <1>5, <2>1 DEF Add, Verdict
<1>6. ASSUME Expire(Only) PROVE Ideal!Answer
  <2>1. pc[Only] = "expire" /\ pc'[Only] = "idle"
    BY <1>0, <1>6 DEF Expire, Goto, TypeOK
  <2> QED
    BY <1>6, <2>1 DEF Expire, Verdict, Ideal!Answer
<1>7. ASSUME Reject(Only) PROVE Ideal!Answer
  <2>1. pc[Only] = "oldest" /\ pc'[Only] = "idle"
    BY <1>0, <1>7 DEF Reject, Goto, TypeOK
  <2> QED
    BY <1>7, <2>1 DEF Reject, Verdict, Ideal!Answer
<1>8. ~Fail(Only)
  BY DEF Fail, AsDeployed
<1>9. CASE UNCHANGED vars
  BY <1>9 DEF vars
<1> QED
  BY <1>0, <1>1, <1>2, <1>3, <1>4, <1>5, <1>6, <1>7, <1>8, <1>9
     DEF Next, Check, Ideal!Next

\* As deployed, check is as good as one atomic step on a memory of everything
\* ever allowed: the limit of a shortest rule is never exceeded, a rejection
\* always has as many allowed checks in the window as the limit asks for.
THEOREM Refinement == AsDeployed => (Spec => ImplementsSlidingWindow)
<1> SUFFICES ASSUME AsDeployed PROVE Spec => ImplementsSlidingWindow
  OBVIOUS
<1>1. Init => Ideal!Init
  BY OneProcess DEF Init, Ideal!Init, Verdict
<1>2. IInv /\ [Next]_vars => [Ideal!Next]_(Ideal!vars)
  BY IdealStep
<1> QED
  BY <1>1, <1>2, InductiveInvariant, PTL DEF Spec, ImplementsSlidingWindow, Ideal!Spec

-----------------------------------------------------------------------------
\* The promise is worth something: the limit follows from SlidingWindow alone,
\* from its five variables and its actions, whatever implements it.

Asked == Verdict(pc[Only]) \in {"due", "allowed"}

PromiseIInv ==
    /\ clock \in Nat /\ now[Only] \in Nat /\ rule[Only] \in Rules
    /\ now[Only] <= clock /\ (Verdict(pc[Only]) # "none" => now[Only] < clock)
    /\ admitted \in [Rules -> SUBSET Nat]
    /\ \A r \in Rules : IsFiniteSet(admitted[r])
    /\ \A r \in Rules : \A s \in admitted[r] : s < clock /\ (Asked => s < now[Only])
    /\ Verdict(pc[Only]) = "allowed" /\ Shortest(rule[Only]) =>
          Cardinality({s \in admitted[rule[Only]] :
                         s > now[Only] - Span(rule[Only])}) < Limit[rule[Only]]
    /\ WindowBound

LEMMA PromiseAnswer ==
  ASSUME AsDeployed, PromiseIInv, Verdict(pc[Only]) = "allowed",
         admitted' = [admitted EXCEPT ![rule[Only]] = @ \cup {now[Only]}],
         NEW r \in Rules, Shortest(r)
  PROVE  Bounded(r)'
<1>1. Bounded(r)
  BY DEF PromiseIInv, WindowBound
<1>2. CASE rule[Only] # r
  <2>1. admitted'[r] = admitted[r]
    BY <1>2 DEF PromiseIInv
  <2> QED
    BY <1>1, <2>1 DEF Bounded
<1>3. CASE rule[Only] = r
  <2>1. admitted'[r] = admitted[r] \cup {now[Only]}
    BY <1>3 DEF PromiseIInv
  <2>2. now[Only] \in Nat /\ admitted[r] \subseteq Nat /\ Span(r) \in Nat /\ Limit[r] \in Nat
    BY ConstantsAssumption, SpanType DEF PromiseIInv
  <2>3. \A s \in admitted[r] : s < now[Only]
    BY DEF PromiseIInv, Asked
  <2> SUFFICES ASSUME NEW t \in admitted'[r]
               PROVE  Cardinality({s \in admitted'[r] : t - Span(r) < s /\ s <= t})
                        <= Limit[r] + Slack
    BY DEF Bounded
  <2>4. CASE t \in admitted[r]
    <3>1. {s \in admitted'[r] : t - Span(r) < s /\ s <= t}
            = {s \in admitted[r] : t - Span(r) < s /\ s <= t}
      BY <2>1, <2>2, <2>3, <2>4
    <3> QED
      BY <1>1, <2>4, <3>1 DEF Bounded
  <2>5. CASE t = now[Only]
    <3> DEFINE Recent == {s \in admitted[r] : s > now[Only] - Span(r)}
    <3>1. Cardinality(Recent) < Limit[r]
      BY <1>3 DEF PromiseIInv
    <3>2. IsFiniteSet(Recent)
      BY FS_Subset DEF PromiseIInv
    <3>3. now[Only] \notin Recent
      BY <2>2, <2>3
    <3>4. {s \in admitted'[r] : t - Span(r) < s /\ s <= t} \subseteq Recent \cup {now[Only]}
      BY <2>1, <2>2, <2>5
    <3>5. Cardinality(Recent \cup {now[Only]}) = Cardinality(Recent) + 1
      BY <3>2, <3>3, FS_AddElement
    <3>6. IsFiniteSet(Recent \cup {now[Only]})
      BY <3>2, FS_AddElement
    <3> HIDE DEF Recent
    <3>7. /\ Cardinality({s \in admitted'[r] : t - Span(r) < s /\ s <= t})
               <= Cardinality(Recent \cup {now[Only]})
          /\ Cardinality({s \in admitted'[r] : t - Span(r) < s /\ s <= t}) \in Nat
      BY <3>4, <3>6, FS_Subset, FS_CardinalityType
    <3>8. Cardinality(Recent) \in Nat
      BY <3>2, FS_CardinalityType
    <3> QED
      BY <2>2, <3>1, <3>5, <3>7, <3>8, NoSlack
  <2> QED
    BY <2>1, <2>4, <2>5
<1> QED
  BY <1>2, <1>3

LEMMA PromiseStep ==
  AsDeployed /\ PromiseIInv /\ [Ideal!Next]_(Ideal!vars) => PromiseIInv'
<1> SUFFICES ASSUME AsDeployed, PromiseIInv, [Ideal!Next]_(Ideal!vars) PROVE PromiseIInv'
  OBVIOUS
<1>0. WindowBound /\ UNCHANGED admitted => WindowBound'
  BY DEF WindowBound, Bounded
<1>1. CASE Ideal!Tick
  BY <1>0, <1>1 DEF Ideal!Tick, PromiseIInv, Asked
<1>2. ASSUME NEW r \in Rules, Ideal!Ask(r) PROVE PromiseIInv'
  BY <1>0, <1>2 DEF Ideal!Ask, PromiseIInv, Asked
<1>3. CASE Ideal!Allow
  <2>1. Shortest(rule[Only]) =>
          Cardinality({s \in admitted[rule[Only]] :
                         s > now[Only] - Span(rule[Only])}) < Limit[rule[Only]]
    BY <1>3, SameCount DEF Ideal!Allow, Ideal!Own, Ideal!Start, Span, PromiseIInv
  <2>2. /\ Verdict(pc[Only]) = "due" /\ Verdict(pc[Only])' = "allowed"
        /\ UNCHANGED <<clock, now[Only], rule[Only], admitted>>
    BY <1>3 DEF Ideal!Allow
  <2> QED
    BY <1>0, <2>1, <2>2 DEF PromiseIInv, Asked
<1>4. CASE Ideal!Reject
  BY <1>0, <1>4 DEF Ideal!Reject, PromiseIInv, Asked
<1>5. CASE Ideal!Answer /\ UNCHANGED admitted
  BY <1>0, <1>5 DEF Ideal!Answer, PromiseIInv, Asked
<1>6. CASE Ideal!Answer /\ Verdict(pc[Only]) = "allowed"
  <2>1. /\ admitted' = [admitted EXCEPT ![rule[Only]] = @ \cup {now[Only]}]
        /\ Verdict(pc[Only])' = "none" /\ UNCHANGED <<clock, now[Only], rule[Only]>>
    BY <1>6 DEF Ideal!Answer
  <2>2. WindowBound'
    BY <1>6, <2>1, PromiseAnswer DEF WindowBound, Shortest
  <2>3. admitted' \in [Rules -> SUBSET Nat]
    BY <2>1 DEF PromiseIInv
  <2>4. ASSUME NEW r \in Rules
        PROVE  IsFiniteSet(admitted'[r]) /\ \A s \in admitted'[r] : s < clock
    <3>1. admitted'[r] \subseteq admitted[r] \cup {now[Only]}
      BY <2>1 DEF PromiseIInv
    <3>2. IsFiniteSet(admitted[r] \cup {now[Only]})
      BY FS_AddElement DEF PromiseIInv
    <3>3. IsFiniteSet(admitted'[r])
      BY <3>1, <3>2, FS_Subset
    <3>4. now[Only] < clock /\ \A s \in admitted[r] : s < clock
      BY <1>6 DEF PromiseIInv
    <3> QED
      BY <3>1, <3>3, <3>4
  <2> QED
    BY <2>1, <2>2, <2>3, <2>4 DEF PromiseIInv, Asked
<1>7. CASE UNCHANGED Ideal!vars
  BY <1>0, <1>7 DEF Ideal!vars, PromiseIInv, Asked
<1> QED
  BY <1>1, <1>2, <1>3, <1>4, <1>5, <1>6, <1>7 DEF Ideal!Next, Ideal!Answer

\* What RateLimiterBase promises its callers implies the limit: a limiter that decides
\* in one step from all it ever allowed never lets a shortest rule exceed its limit,
\* whatever it does inside.
THEOREM PromiseSuffices == AsDeployed => (ImplementsSlidingWindow => []WindowBound)
<1> SUFFICES ASSUME AsDeployed PROVE ImplementsSlidingWindow => []WindowBound
  OBVIOUS
<1>1. Ideal!Init => PromiseIInv
  <2> SUFFICES ASSUME Ideal!Init PROVE PromiseIInv
    OBVIOUS
  <2>1. \A r \in Rules : admitted[r] = {}
    BY DEF Ideal!Init
  <2>2. WindowBound
    BY <2>1 DEF WindowBound, Bounded
  <2> QED
    BY <2>1, <2>2, FS_EmptySet DEF Ideal!Init, PromiseIInv, Asked
<1>2. PromiseIInv /\ [Ideal!Next]_(Ideal!vars) => PromiseIInv'
  BY PromiseStep
<1>3. PromiseIInv => WindowBound
  BY DEF PromiseIInv
<1> QED
  BY <1>1, <1>2, <1>3, PTL DEF ImplementsSlidingWindow, Ideal!Spec

-----------------------------------------------------------------------------
\* Any number of processes, whatever fails.

\* The readings and the rules of the checks a step leaves alone.
LEMMA RacesTypes ==
  ASSUME RacesIInv
  PROVE  /\ clock \in Nat /\ zset \subseteq Nat
         /\ \A p \in Procs : now[p] \in Nat /\ rule[p] \in Rules /\ Span(rule[p]) \in Nat
  BY SpanType DEF RacesIInv, TypeOK

\* Where the clock advances, the check that has just read it included.
LEMMA AdvanceOnTime ==
  ASSUME RacesIInv, Advance
  PROVE  /\ clock' = clock + 1
         /\ zset' \subseteq zset
         /\ IsFiniteSet(zset')
         /\ \A p \in Procs : pc[p] # "idle" =>
               now[p] <= clock' /\ (clock' <= now[p] + 1 \/ clock' < now[p] + MaxStall)
<1>1. clock' = clock + 1 /\ zset' \subseteq zset
  BY DEF Advance
<1>2. IsFiniteSet(zset')
  BY FS_EmptySet DEF Advance, RacesIInv
<1>3. ASSUME NEW p \in Procs, pc[p] # "idle"
      PROVE  now[p] <= clock' /\ clock' < now[p] + MaxStall
  BY <1>1, <1>3, RacesTypes, ConstantsAssumption DEF Advance, RacesIInv, OnTime
<1> QED
  BY <1>1, <1>2, <1>3

LEMMA RacesStep ==
  ASSUME WithinWindow, RacesIInv, [Next]_vars  PROVE RacesIInv'
<1> USE ConstantsAssumption
<1>0. TypeOK /\ TypeOK' /\ IsFiniteSet(zset)
  BY TypeStep DEF RacesIInv
<1>1. CASE Tick
  <2>1. OnTime'
    BY <1>1, AdvanceOnTime, RacesTypes DEF Tick, RacesIInv, OnTime
  <2>2. CountsWindow'
    BY <1>1, AdvanceOnTime DEF Tick, RacesIInv, CountsWindow
  <2> QED
    BY <1>0, <1>1, <2>1, <2>2, AdvanceOnTime DEF Tick, RacesIInv
<1>2. ASSUME NEW p \in Procs, NEW r \in Rules, ReadClock(p, r) PROVE RacesIInv'
  <2>1. /\ pc'[p] = "prune" /\ now'[p] = clock
        /\ \A q \in Procs \ {p} : pc'[q] = pc[q] /\ now'[q] = now[q] /\ rule'[q] = rule[q]
    BY <1>0, <1>2 DEF ReadClock, Goto, TypeOK
  <2>2. /\ clock' \in {clock, clock + 1}
        /\ zset' \subseteq zset /\ IsFiniteSet(zset')
        /\ \A q \in Procs \ {p} : pc[q] # "idle" =>
              now[q] <= clock' /\ (clock' <= now[q] + 1 \/ clock' < now[q] + MaxStall)
    <3>1. CASE Advance
      BY <3>1, AdvanceOnTime
    <3>2. CASE UNCHANGED <<clock, zset, ttl>>
      BY <1>0, <3>2 DEF RacesIInv, OnTime
    <3> QED
      BY <1>2, <3>1, <3>2 DEF ReadClock
  <2>3. now'[p] <= clock' /\ clock' <= now'[p] + 1
    BY <2>1, <2>2, RacesTypes
  <2>4. \A s \in zset' : s <= clock'
    BY <2>2, RacesTypes DEF RacesIInv, OnTime
  <2>5. OnTime'
    BY <2>1, <2>2, <2>3, <2>4 DEF OnTime
  <2>6. CountsWindow'
    BY <2>1, <2>2 DEF RacesIInv, CountsWindow
  <2> QED
    BY <1>0, <2>2, <2>5, <2>6 DEF RacesIInv
<1>3. ASSUME NEW p \in Procs, Prune(p) PROVE RacesIInv'
  <2>1. /\ zset' = InWindow(p) /\ zset' \subseteq zset
        /\ pc[p] = "prune" /\ pc' = [pc EXCEPT ![p] = "count"]
        /\ UNCHANGED <<clock, now, rule>>
    BY <1>3 DEF Prune, Store, Goto, InWindow
  <2>2. IsFiniteSet(zset')
    BY <1>0, <2>1, FS_Subset
  <2>3. OnTime'
    BY <1>0, <2>1 DEF RacesIInv, OnTime, TypeOK
  <2>4. \A q \in Procs : pc'[q] = "count" => q = p \/ pc[q] = "count"
    BY <1>0, <2>1 DEF TypeOK
  <2>5. CountsWindow'
    BY <2>1, <2>4 DEF RacesIInv, CountsWindow, InWindow
  <2> QED
    BY <1>0, <2>2, <2>3, <2>5 DEF RacesIInv
<1>4. ASSUME NEW p \in Procs, Add(p) PROVE RacesIInv'
  <2>1. /\ zset' = zset \cup {now[p]}
        /\ pc[p] = "add" /\ pc' = [pc EXCEPT ![p] = "expire"]
        /\ UNCHANGED <<clock, now, rule>>
    BY <1>4 DEF Add, Stamp, Goto
  <2>2. IsFiniteSet(zset')
    BY <1>0, <2>1, FS_AddElement
  <2>3. now[p] <= clock /\ (clock <= now[p] + 1 \/ clock < now[p] + MaxStall)
    BY <2>1 DEF RacesIInv, OnTime
  <2>4. OnTime'
    BY <1>0, <2>1, <2>3 DEF RacesIInv, OnTime, TypeOK
  <2>5. ASSUME NEW q \in Procs, pc'[q] = "count" PROVE \A s \in zset' : s > now[q] - Span(rule[q])
    <3>1. pc[q] = "count"
      BY <1>0, <2>1, <2>5 DEF TypeOK
    <3>2. now[q] <= clock
      BY <3>1 DEF RacesIInv, OnTime
    <3>3. 1 < Span(rule[q]) /\ MaxStall <= Span(rule[q])
      BY RacesTypes DEF WithinWindow
    <3>4. now[p] > now[q] - Span(rule[q])
      BY <2>3, <3>2, <3>3, RacesTypes
    <3> QED
      BY <2>1, <3>1, <3>4 DEF RacesIInv, CountsWindow
  <2> QED
    BY <1>0, <2>1, <2>2, <2>4, <2>5 DEF RacesIInv, CountsWindow
<1>5. ASSUME NEW p \in Procs, Count(p) \/ Expire(p) \/ Reject(p) \/ Fail(p) PROVE RacesIInv'
  <2>1. /\ UNCHANGED <<clock, zset, now, rule>>
        /\ pc[p] # "idle"
        /\ \E label \in {"add", "oldest", "idle"} : pc' = [pc EXCEPT ![p] = label]
    BY <1>5 DEF Count, Expire, Reject, Fail, Goto
  <2>2. \A q \in Procs : /\ pc'[q] # "idle" => pc[q] # "idle"
                         /\ pc'[q] = "count" => pc[q] = "count"
    BY <1>0, <2>1 DEF TypeOK
  <2> QED
    BY <1>0, <2>1, <2>2 DEF RacesIInv, OnTime, CountsWindow
<1>6. CASE UNCHANGED vars
  BY <1>0, <1>6 DEF vars, RacesIInv, OnTime, CountsWindow
<1> QED
  BY <1>1, <1>2, <1>3, <1>4, <1>5, <1>6 DEF Next, Check

\* Whatever is counted, in any number of processes, is in the window of the check
\* that counts it, also what others add between its zremrangebyscore and its zcard.
THEOREM RacesInvariant == WithinWindow => (Spec => []RacesIInv)
<1> SUFFICES ASSUME WithinWindow PROVE Spec => []RacesIInv
  OBVIOUS
<1>1. Init => RacesIInv
  BY FS_EmptySet DEF Init, RacesIInv, TypeOK, NoTTL, OnTime, CountsWindow
<1>2. RacesIInv /\ [Next]_vars => RacesIInv'
  BY RacesStep
<1> QED
  BY <1>1, <1>2, PTL DEF Spec

\* No spurious 429: a check that is rejected has as many entries as its limit in
\* its own window, whatever other processes, rules and failures do meanwhile.
THEOREM NoSpuriousRejection == WithinWindow => (Spec => RejectsOnlyWhenFull)
<1> SUFFICES ASSUME WithinWindow PROVE Spec => RejectsOnlyWhenFull
  OBVIOUS
<1>1. RacesIInv /\ [Next]_vars =>
        [\A p \in Procs : Rejects(p) => Cardinality(InWindow(p)) >= Limit[rule[p]]]_vars
  <2> SUFFICES ASSUME RacesIInv, [Next]_vars, NEW p \in Procs, Rejects(p)
               PROVE  Cardinality(InWindow(p)) >= Limit[rule[p]]
    OBVIOUS
  <2>1. TypeOK /\ IsFiniteSet(zset)
    BY DEF RacesIInv
  <2>2. Count(p)
    BY <2>1 DEF Rejects, Next, Check, Tick, ReadClock, Prune, Add, Expire, Reject,
       Fail, Count, Goto, TypeOK, vars
  <2>3. ~HasRoom(p)
    BY <2>1, <2>2 DEF Rejects, Count, Goto, TypeOK
  <2>4. InWindow(p) = zset
    BY DEF Rejects, RacesIInv, CountsWindow, InWindow
  <2>5. Cardinality(zset) \in Nat /\ Limit[rule[p]] \in Nat
    BY <2>1, FS_CardinalityType, RacesTypes, ConstantsAssumption
  <2> QED
    BY <2>3, <2>4, <2>5 DEF HasRoom
<1> QED
  BY <1>1, RacesInvariant, PTL DEF Spec, RejectsOnlyWhenFull

\* The oldest entry is one of the entries.
LEMMA OldestThere ==
  ASSUME TypeOK, zset # {}  PROVE Oldest \in zset
<1>1. zset \subseteq Nat
  BY DEF TypeOK
<1>2. PICK s \in zset : \A t \in zset : <<t, s>> \notin OpToRel(<, Nat)
  BY <1>1, NatLessThanWellFounded, WFMin, Zenon
<1>3. \A t \in zset : ~(t < s)
  BY <1>1, <1>2 DEF OpToRel
<1>4. \A t \in zset : s <= t
  BY <1>1, <1>3
<1> QED
  BY <1>4 DEF Oldest

\* Rounding down loses less than a second.
LEMMA WholeSecondsBounds ==
  ASSUME NEW t \in Int, NEW w \in Nat
  PROVE  /\ WholeSeconds(t) \in Nat
         /\ (WholeSeconds(t) + 1) * Second > t
         /\ t < w * Second + Second => WholeSeconds(t) <= w
<1> USE ConstantsAssumption
<1>1. CASE t > 0
  <2>1. t \div Second \in Nat /\ (t \div Second) * Second <= t
        /\ t < (t \div Second) * Second + Second
    BY <1>1
  <2> DEFINE n == t \div Second
  <2> HIDE DEF n
  <2>2. n \in Nat /\ n * Second <= t /\ t < n * Second + Second
    BY <2>1 DEF n
  <2>3. (n + 1) * Second = n * Second + Second
    BY <2>2
  <2>4. n > w => n * Second >= w * Second + Second
    BY <2>2
  <2>5. WholeSeconds(t) = n
    BY <1>1 DEF WholeSeconds, n
  <2> QED
    BY <2>2, <2>3, <2>4, <2>5
<1>2. CASE ~(t > 0)
  BY <1>2 DEF WholeSeconds
<1> QED
  BY <1>1, <1>2

\* A rejected client is told to wait no longer than the window and, but for the
\* fraction of a second that is rounded off, long enough, although other processes
\* prune and add between its zcard and its zrange.
THEOREM RetryHonest == WithinSecond => (Spec => RetryAfterHonest)
<1> SUFFICES ASSUME WithinSecond PROVE Spec => RetryAfterHonest
  OBVIOUS
<1> USE ConstantsAssumption
<1>1. WithinWindow
  <2>1. \A w \in Nat \ {0} : w * Second >= Second
    OBVIOUS
  <2>2. \A r \in Rules : Span(r) >= Second
    BY <2>1 DEF Span
  <2> QED
    BY <2>2, SpanType DEF WithinSecond, WithinWindow
<1>2. ASSUME RacesIInv, NEW p \in Procs, pc[p] = "oldest"
      PROVE  /\ ResetIn(p) <= Window[rule[p]]
             /\ zset # {} => (ResetIn(p) + 1) * Second > Remaining(p, Oldest)
  <2>1. Window[rule[p]] \in Nat /\ Span(rule[p]) = Window[rule[p]] * Second
    BY <1>2, RacesTypes DEF Span
  <2>2. CASE zset = {}
    BY <2>1, <2>2 DEF ResetIn
  <2>3. CASE zset # {}
    <3>1. Oldest \in Nat /\ Oldest <= clock
      BY <1>2, <2>3, OldestThere, RacesTypes DEF RacesIInv, OnTime
    <3>2. clock < now[p] + Second
      BY <1>2, RacesTypes DEF RacesIInv, OnTime, WithinSecond
    <3>3. /\ Remaining(p, Oldest) \in Int
          /\ Remaining(p, Oldest) < Window[rule[p]] * Second + Second
      BY <1>2, <2>1, <3>1, <3>2, RacesTypes DEF Remaining
    <3> QED
      BY <2>1, <2>3, <3>3, WholeSecondsBounds DEF ResetIn
  <2> QED
    BY <2>2, <2>3
<1>3. RacesIInv =>
        [\A p \in Procs : Rejected(p) =>
           /\ ResetIn(p) <= Window[rule[p]]
           /\ zset # {} => (ResetIn(p) + 1) * Second > Remaining(p, Oldest)]_vars
  BY <1>2 DEF Rejected
<1> QED
  BY <1>1, <1>3, RacesInvariant, PTL DEF Spec, RetryAfterHonest

-----------------------------------------------------------------------------
\* A clock that never returns a value twice, any number of processes.

LEMMA OwnStampStep ==
  ASSUME ~CoarseClock, TypeOK, OwnStamp, [Next]_vars  PROVE OwnStamp'
<1> USE DEF TypeOK
<1>0. clock \in Nat /\ zset \subseteq Nat /\ \A p \in Procs : now[p] \in Nat
  OBVIOUS
<1>1. ASSUME Advance
      PROVE  /\ clock' = clock + 1
             /\ zset' \subseteq zset
             /\ \A s \in zset' : s < clock /\ s < clock'
             /\ \A p \in Procs : pc[p] # "idle" => now[p] < clock'
  <2>1. clock' = clock + 1 /\ zset' \subseteq zset
    BY <1>1 DEF Advance
  <2>2. (\A s \in zset : s < clock) /\ \A p \in Procs : pc[p] # "idle" => now[p] < clock
    BY DEF OwnStamp
  <2>3. \A n \in Nat : n < clock => n < clock'
    BY <1>0, <2>1
  <2> QED
    BY <1>0, <2>1, <2>2, <2>3
<1>2. CASE Tick
  BY <1>1, <1>2 DEF Tick, OwnStamp
<1>3. ASSUME NEW p \in Procs, NEW r \in Rules, ReadClock(p, r) PROVE OwnStamp'
  <2>1. /\ Advance
        /\ pc'[p] = "prune" /\ now'[p] = clock
        /\ \A q \in Procs \ {p} : pc'[q] = pc[q] /\ now'[q] = now[q]
    BY <1>3 DEF ReadClock, Goto
  <2>2. now'[p] < clock' /\ now'[p] \notin zset'
    BY <1>0, <1>1, <2>1
  <2>3. \A q \in Procs \ {p} : pc[q] # "idle" => now[q] # clock
    BY <1>0 DEF OwnStamp
  <2> QED
    BY <1>1, <2>1, <2>2, <2>3 DEF OwnStamp
<1>4. ASSUME NEW p \in Procs, Add(p) PROVE OwnStamp'
  <2>1. /\ zset' = zset \cup {now[p]} /\ UNCHANGED <<clock, now>>
        /\ pc[p] = "add" /\ pc'[p] = "expire"
        /\ \A q \in Procs \ {p} : pc'[q] = pc[q]
    BY <1>4 DEF Add, Stamp, Goto
  <2> QED
    BY <2>1 DEF OwnStamp
<1>5. ASSUME NEW p \in Procs, Prune(p) \/ Count(p) \/ Expire(p) \/ Reject(p) \/ Fail(p)
      PROVE  OwnStamp'
  <2>1. zset' \subseteq zset /\ UNCHANGED <<clock, now>>
    BY <1>5 DEF Prune, Store, InWindow, Count, Expire, Reject, Fail
  <2>2. \A q \in Procs : /\ pc'[q] # "idle" => pc[q] # "idle"
                         /\ pc'[q] \in {"prune", "count", "add"} => pc[q] \in {"prune", "count", "add"}
    BY <1>5 DEF Prune, Count, Expire, Reject, Fail, Goto
  <2> QED
    BY <2>1, <2>2 DEF OwnStamp
<1>6. CASE UNCHANGED vars
  BY <1>6 DEF vars, OwnStamp
<1> QED
  BY <1>2, <1>3, <1>4, <1>5, <1>6 DEF Next, Check
=============================================================================
