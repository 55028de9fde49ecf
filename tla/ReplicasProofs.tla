--------------------------- MODULE ReplicasProofs ---------------------------
(***************************************************************************)
(* Proofs about RateLimiter when several gateway processes share the Redis *)
(* server: a rule's limit is exceeded by at most two checks for every      *)
(* process beyond the first, whatever the interleaving of their calls.     *)
(***************************************************************************)
EXTENDS RateLimiterProofs

\* The types the arithmetic below rests on; every window is the same.
LEMMA ReplicaNumbers ==
  ASSUME AsReplicated, TypeOK
  PROVE  /\ clock \in Nat /\ zset \subseteq Nat /\ ttl \in Nat \cup {NoTTL}
         /\ \A p \in Procs : now[p] \in Nat /\ rule[p] \in Rules
         /\ \A r \in Rules : admitted[r] \subseteq Nat
         /\ Second \in Nat \ {0}
         /\ \A r \in Rules : Span(r) \in Nat /\ Span(r) >= Second
         /\ \A q, r \in Rules : Span(q) = Span(r)
<1> USE ConstantsAssumption
<1>1. \A w \in Nat \ {0} : w * Second >= Second
  OBVIOUS
<1>2. \A r \in Rules : Span(r) >= Second
  BY <1>1 DEF Span
<1>3. \A q, r \in Rules : Span(q) <= Span(r) /\ Span(r) <= Span(q)
  BY DEF AsReplicated, Shortest
<1>4. \A q, r \in Rules : Span(q) = Span(r)
  BY <1>3, SpanType
<1> QED
  BY <1>2, <1>4, SpanType DEF TypeOK

-----------------------------------------------------------------------------
\* What keeps the stamps in the set.

\* A tick, alone or in a reading of the clock, drops the key only when nobody has
\* an EXPIRE to do and every entry has left its window more than a second ago.
LEMMA AdvanceLasting ==
  ASSUME AsReplicated, Lasting, Advance
  PROVE  /\ clock' = clock + 1
         /\ zset' = {} => ttl' = NoTTL
         /\ \A p \in Procs : pc[p] # "idle" => clock' < now[p] + Second
         /\ \/ zset' = zset /\ ttl' = ttl
            \/ /\ zset' = {}
               /\ \A p \in Procs : pc[p] # "expire"
               /\ \A r \in Rules : \A s \in zset : s + Span(r) + Second <= clock
<1>0. TypeOK
  BY DEF Lasting
<1>1. clock' = clock + 1
  BY DEF Advance
<1>2. ASSUME NEW p \in Procs, pc[p] # "idle" PROVE clock' < now[p] + Second
  <2>1. clock + 1 - now[p] < MaxStall /\ MaxStall <= Second /\ MaxStall \in Nat
    BY <1>2, ConstantsAssumption DEF Advance, AsReplicated
  <2> QED
    BY <1>0, <1>1, <2>1, ReplicaNumbers
<1>3. CASE ~(ttl # NoTTL /\ ttl <= clock + 1)
  BY <1>1, <1>2, <1>3 DEF Advance, Lasting
<1>4. CASE ttl # NoTTL /\ ttl <= clock + 1
  <2>1. zset' = {} /\ ttl' = NoTTL
    BY <1>4 DEF Advance
  <2>2. \A p \in Procs : pc[p] = "expire" => ~(ttl > now[p] + Second)
    BY <1>0, <1>1, <1>2, <1>4, ReplicaNumbers DEF NoTTL
  <2>3. \A p \in Procs : pc[p] # "expire"
    BY <1>4, <2>2 DEF Lasting, Adopted
  <2>4. ASSUME NEW r \in Rules, NEW s \in zset PROVE s + Span(r) + Second <= clock
    <3>1. ttl > s + Span(r) + Second
      BY <1>4, <2>3 DEF Lasting, KeyOutlives, Pending
    <3> QED
      BY <1>0, <1>4, <3>1, ReplicaNumbers DEF NoTTL
  <2> QED
    BY <1>1, <1>2, <2>1, <2>3, <2>4
<1> QED
  BY <1>3, <1>4

\* Tick and ReadClock.
LEMMA TimeLasts ==
  ASSUME AsReplicated, Lasting, TypeOK', OwnStamp', Advance, UNCHANGED admitted,
         \A p \in Procs :
            \/ pc'[p] = pc[p] /\ now'[p] = now[p] /\ rule'[p] = rule[p]
            \/ pc[p] = "idle" /\ pc'[p] = "prune" /\ now'[p] = clock
  PROVE  Lasting'
<1>0. /\ TypeOK /\ clock' = clock + 1
      /\ \A p \in Procs : pc[p] # "idle" => clock' < now[p] + Second
      /\ zset' = {} => ttl' = NoTTL
      /\ \/ zset' = zset /\ ttl' = ttl
         \/ /\ zset' = {}
            /\ \A p \in Procs : pc[p] # "expire"
            /\ \A r \in Rules : \A s \in zset : s + Span(r) + Second <= clock
  BY AdvanceLasting DEF Lasting
<1>1. FiniteHistory'
  BY <1>0, FS_EmptySet DEF Lasting, FiniteHistory
<1>2. StampsDiffer'
  <2>1. \A p \in Procs : pc'[p] # "idle" => clock' <= now'[p] + Second
    BY <1>0, ReplicaNumbers
  <2>2. \A r \in Rules : \A s \in admitted[r] :
          s < clock /\ \A p \in Procs : pc[p] # "idle" => s # now[p]
    BY DEF Lasting, StampsDiffer
  <2>3. \A r \in Rules : \A s \in admitted[r] : s < clock' /\ s # clock
    BY <1>0, <2>2, ReplicaNumbers
  <2> QED
    BY <2>1, <2>2, <2>3 DEF StampsDiffer
<1>3. JustPruned'
  BY <1>0 DEF Lasting, JustPruned
<1>4. Adopted'
  BY <1>0 DEF Lasting, Adopted
<1>5. AdmittedRemembered'
  <2> SUFFICES ASSUME NEW r \in Rules, NEW s \in admitted[r], s > clock' - Span(r)
               PROVE  s \in zset'
    BY DEF AdmittedRemembered
  <2>1. s \in Nat /\ Span(r) \in Nat /\ clock \in Nat /\ Second \in Nat
    BY <1>0, ReplicaNumbers
  <2>2. s > clock - Span(r)
    BY <1>0, <2>1
  <2>3. s \in zset
    BY <2>2 DEF Lasting, AdmittedRemembered, AsReplicated
  <2>4. ~(s + Span(r) + Second <= clock)
    BY <1>0, <2>1
  <2> QED
    BY <1>0, <2>3, <2>4
<1>6. ASSUME NEW r \in Rules PROVE KeyOutlives(r)'
  <2>1. \A s : Pending(s) => Pending(s)'
    BY DEF Pending
  <2> QED
    BY <1>0, <2>1 DEF Lasting, KeyOutlives
<1> QED
  BY <1>0, <1>1, <1>2, <1>3, <1>4, <1>5, <1>6 DEF Lasting

LEMMA PruneLasts ==
  ASSUME AsReplicated, Lasting, TypeOK', OwnStamp', NEW p \in Procs, Prune(p)
  PROVE  Lasting'
<1>0. /\ TypeOK /\ zset' = InWindow(p) /\ zset' \subseteq zset
      /\ ttl' = IF zset' = {} THEN NoTTL ELSE ttl
      /\ pc[p] = "prune" /\ pc' = [pc EXCEPT ![p] = "count"]
      /\ UNCHANGED <<clock, now, rule, admitted>>
  BY DEF Lasting, Prune, Store, Goto, InWindow
<1>1. FiniteHistory'
  BY <1>0, FS_Subset DEF Lasting, FiniteHistory
<1>2. StampsDiffer'
  BY <1>0 DEF Lasting, StampsDiffer, TypeOK
<1>3. JustPruned'
  BY <1>0 DEF Lasting, JustPruned, TypeOK, InWindow
<1>4. now[p] \in Nat /\ now[p] < clock /\ clock \in Nat
  BY <1>0, ReplicaNumbers DEF Lasting, StampsDiffer, OwnStamp
<1>5. \A q \in Procs : pc'[q] = "expire" <=> pc[q] = "expire"
  BY <1>0 DEF TypeOK
<1>6. ASSUME NEW q \in Procs, pc[q] = "expire" PROVE now[q] \in zset'
  <2>1. now[q] \in zset /\ clock <= now[q] + Second
    BY <1>6 DEF Lasting, Adopted, StampsDiffer
  <2>2. now[q] > now[p] - Span(rule[p])
    BY <1>0, <1>4, <2>1, ReplicaNumbers
  <2> QED
    BY <1>0, <2>1, <2>2 DEF InWindow
<1>7. Adopted'
  BY <1>0, <1>5, <1>6 DEF Lasting, Adopted
<1>8. AdmittedRemembered'
  <2> SUFFICES ASSUME NEW r \in Rules, NEW s \in admitted[r], s > clock - Span(r)
               PROVE  s \in zset'
    BY <1>0 DEF AdmittedRemembered
  <2>1. s \in zset
    BY DEF Lasting, AdmittedRemembered, AsReplicated
  <2>2. s > now[p] - Span(rule[p])
    BY <1>0, <1>4, ReplicaNumbers
  <2> QED
    BY <1>0, <2>1, <2>2 DEF InWindow
<1>9. ASSUME NEW r \in Rules PROVE KeyOutlives(r)'
  <2>1. \A s : Pending(s) => Pending(s)'
    BY <1>0, <1>5 DEF Pending
  <2> QED
    BY <1>0, <2>1 DEF Lasting, KeyOutlives
<1> QED
  BY <1>0, <1>1, <1>2, <1>3, <1>7, <1>8, <1>9 DEF Lasting

\* Count and Reject.
LEMMA ReadLasts ==
  ASSUME AsReplicated, Lasting, TypeOK', OwnStamp', NEW p \in Procs, Count(p) \/ Reject(p)
  PROVE  Lasting'
<1>0. /\ TypeOK /\ UNCHANGED <<clock, zset, ttl, now, rule, admitted>>
      /\ pc[p] \in {"count", "oldest"}
      /\ \/ pc[p] = "count" /\ pc' = [pc EXCEPT ![p] = "add"]
         \/ pc' = [pc EXCEPT ![p] = "oldest"] \/ pc' = [pc EXCEPT ![p] = "idle"]
  BY DEF Lasting, Count, Reject, Goto
<1>1. \A q \in Procs : /\ pc'[q] = "expire" <=> pc[q] = "expire"
                       /\ pc'[q] # "idle" => pc[q] # "idle"
                       /\ pc'[q] \in {"count", "add"} => pc[q] \in {"count", "add"}
  BY <1>0 DEF TypeOK
<1>2. StampsDiffer' /\ FiniteHistory'
  BY <1>0, <1>1 DEF Lasting, StampsDiffer, FiniteHistory
<1>3. JustPruned' /\ Adopted' /\ AdmittedRemembered'
  BY <1>0, <1>1 DEF Lasting, JustPruned, Adopted, AdmittedRemembered
<1>4. \A r \in Rules : KeyOutlives(r)'
  BY <1>0, <1>1 DEF Lasting, KeyOutlives, Pending
<1> QED
  BY <1>0, <1>2, <1>3, <1>4 DEF Lasting

LEMMA AddLasts ==
  ASSUME AsReplicated, Lasting, TypeOK', OwnStamp', NEW p \in Procs, Add(p)
  PROVE  Lasting'
<1>0. /\ TypeOK /\ zset' = zset \cup {now[p]}
      /\ pc[p] = "add" /\ pc' = [pc EXCEPT ![p] = "expire"]
      /\ UNCHANGED <<clock, ttl, now, rule, admitted>>
  BY DEF Lasting, Add, Stamp, Goto
<1>1. \A q \in Procs : /\ pc'[q] = "expire" <=> (q = p \/ pc[q] = "expire")
                       /\ pc'[q] # "idle" <=> pc[q] # "idle"
                       /\ pc'[q] \in {"count", "add"} => pc[q] \in {"count", "add"}
  BY <1>0 DEF TypeOK
<1>2. FiniteHistory'
  BY <1>0, FS_AddElement DEF Lasting, FiniteHistory
<1>3. StampsDiffer'
  BY <1>0, <1>1 DEF Lasting, StampsDiffer
<1>4. now[p] \in Nat /\ now[p] < clock /\ clock \in Nat /\ clock <= now[p] + Second
  BY <1>0, ReplicaNumbers DEF Lasting, StampsDiffer, OwnStamp
<1>5. JustPruned'
  <2> SUFFICES ASSUME NEW q \in Procs, pc'[q] \in {"count", "add"}
               PROVE  \A s \in zset' : s > now[q] - Span(rule[q])
    BY <1>0 DEF JustPruned
  <2>1. \A s \in zset : s > now[q] - Span(rule[q])
    BY <1>1 DEF Lasting, JustPruned
  <2>2. now[q] < clock
    BY <1>1 DEF Lasting, StampsDiffer, OwnStamp
  <2>3. now[p] > now[q] - Span(rule[q])
    BY <1>0, <1>4, <2>2, ReplicaNumbers
  <2> QED
    BY <1>0, <2>1, <2>3
<1>6. Adopted'
  <2>1. \A q \in Procs : pc'[q] = "expire" => now[q] \in zset'
    BY <1>0, <1>1 DEF Lasting, Adopted
  <2>2. ttl = NoTTL \/ \E q \in Procs : (q = p \/ pc[q] = "expire") /\ ttl > now[q] + Second
    <3>1. CASE zset = {}
      BY <3>1 DEF Lasting
    <3>2. CASE \E s \in zset : ~Pending(s)
      <4>1. PICK s \in zset : ~Pending(s)
        BY <3>2
      <4>2. ttl = NoTTL \/ ttl > s + Span(rule[p]) + Second
        BY <1>0, <4>1, ReplicaNumbers DEF Lasting, KeyOutlives
      <4>3. s > now[p] - Span(rule[p])
        BY <1>0, <4>1 DEF Lasting, JustPruned
      <4> QED
        BY <1>0, <1>4, <4>2, <4>3, ReplicaNumbers DEF NoTTL
    <3>3. CASE \E s \in zset : Pending(s)
      BY <3>3 DEF Lasting, Adopted, Pending
    <3> QED
      BY <3>1, <3>2, <3>3
  <2> QED
    BY <1>0, <1>1, <2>1, <2>2 DEF Adopted
<1>7. AdmittedRemembered'
  BY <1>0 DEF Lasting, AdmittedRemembered
<1>8. ASSUME NEW r \in Rules PROVE KeyOutlives(r)'
  <2>1. /\ \A s : Pending(s) => Pending(s)'
        /\ Pending(now[p])'
    BY <1>0, <1>1 DEF Pending
  <2> QED
    BY <1>0, <2>1 DEF Lasting, KeyOutlives
<1> QED
  BY <1>0, <1>2, <1>3, <1>5, <1>6, <1>7, <1>8 DEF Lasting

LEMMA ExpireLasts ==
  ASSUME AsReplicated, Lasting, TypeOK', OwnStamp', NEW p \in Procs, Expire(p)
  PROVE  Lasting'
<1>0. /\ TypeOK /\ pc[p] = "expire" /\ pc' = [pc EXCEPT ![p] = "idle"]
      /\ admitted' = [admitted EXCEPT ![rule[p]] = @ \cup {now[p]}]
      /\ UNCHANGED <<clock, zset, now, rule>>
  BY DEF Lasting, Expire, Goto
<1>1. now[p] \in zset /\ now[p] < clock
  BY <1>0 DEF Lasting, Adopted, StampsDiffer, OwnStamp
<1>2. ttl' = clock + Span(rule[p]) + Second
  <2>1. ttl' = clock + Expiry(rule[p])
    BY <1>1 DEF Expire
  <2> QED
    BY <1>0, <2>1, ReplicaNumbers DEF Expiry
<1>3. \A q \in Procs : /\ pc'[q] = "expire" <=> (q # p /\ pc[q] = "expire")
                       /\ pc'[q] # "idle" <=> (q # p /\ pc[q] # "idle")
                       /\ pc'[q] \in {"count", "add"} => pc[q] \in {"count", "add"}
  BY <1>0 DEF TypeOK
<1>4. \A r \in Rules : admitted'[r] = IF r = rule[p] THEN admitted[r] \cup {now[p]} ELSE admitted[r]
  BY <1>0 DEF TypeOK
<1>5. FiniteHistory'
  <2>1. IsFiniteSet(zset) /\ \A r \in Rules : IsFiniteSet(admitted[r])
    BY DEF Lasting, FiniteHistory
  <2>2. \A r \in Rules : IsFiniteSet(admitted[r] \cup {now[p]})
    BY <2>1, FS_AddElement
  <2>3. \A r \in Rules : IsFiniteSet(admitted'[r])
    BY <1>4, <2>1, <2>2
  <2> QED
    BY <1>0, <2>1, <2>3 DEF FiniteHistory
<1>6. StampsDiffer'
  <2>1. \A q \in Procs : pc'[q] # "idle" => now[q] # now[p]
    BY <1>0, <1>3 DEF Lasting, StampsDiffer, OwnStamp
  <2> QED
    BY <1>0, <1>1, <1>3, <1>4, <2>1 DEF Lasting, StampsDiffer
<1>7. JustPruned'
  BY <1>0, <1>3 DEF Lasting, JustPruned
<1>8. Adopted'
  <2>1. \A q \in Procs : pc'[q] = "expire" => now[q] \in zset'
    BY <1>0, <1>3 DEF Lasting, Adopted
  <2>2. \A q \in Procs : pc'[q] = "expire" => ttl' > now[q] + Second
    <3>1. \A q \in Procs : pc'[q] = "expire" => now[q] < clock
      BY <1>3 DEF Lasting, StampsDiffer, OwnStamp
    <3> QED
      BY <1>0, <1>2, <3>1, ReplicaNumbers
  <2> QED
    BY <1>0, <2>1, <2>2 DEF Adopted
<1>9. AdmittedRemembered'
  BY <1>0, <1>1, <1>4 DEF Lasting, AdmittedRemembered
<1>10. ASSUME NEW r \in Rules PROVE KeyOutlives(r)'
  <2>1. \A s \in zset : s < clock
    BY DEF Lasting, StampsDiffer, OwnStamp
  <2>2. \A s \in zset : ttl' > s + Span(r) + Second
    BY <1>0, <1>2, <2>1, ReplicaNumbers
  <2> QED
    BY <1>0, <2>2 DEF KeyOutlives
<1> QED
  BY <1>0, <1>1, <1>5, <1>6, <1>7, <1>8, <1>9, <1>10 DEF Lasting

LEMMA LastingStep ==
  ASSUME AsReplicated, Lasting, [Next]_vars  PROVE Lasting'
<1>0. TypeOK' /\ OwnStamp' /\ TypeOK
  BY TypeStep, OwnStampStep DEF Lasting, StampsDiffer, AsReplicated
<1>1. CASE Tick
  <2>1. /\ Advance /\ UNCHANGED admitted
        /\ \A p \in Procs : pc'[p] = pc[p] /\ now'[p] = now[p] /\ rule'[p] = rule[p]
    BY <1>1 DEF Tick
  <2> QED
    BY <1>0, <2>1, TimeLasts
<1>2. ASSUME NEW p \in Procs, NEW r \in Rules, ReadClock(p, r) PROVE Lasting'
  <2>1. /\ Advance /\ UNCHANGED admitted
        /\ \A q \in Procs :
             \/ pc'[q] = pc[q] /\ now'[q] = now[q] /\ rule'[q] = rule[q]
             \/ pc[q] = "idle" /\ pc'[q] = "prune" /\ now'[q] = clock
    BY <1>0, <1>2 DEF ReadClock, Goto, AsReplicated, TypeOK
  <2> QED
    BY <1>0, <2>1, TimeLasts
<1>3. ASSUME NEW p \in Procs, Check(p) PROVE Lasting'
  <2>1. ~Fail(p)
    BY DEF Fail, AsReplicated
  <2> QED
    BY <1>0, <1>3, <2>1, PruneLasts, ReadLasts, AddLasts, ExpireLasts DEF Check
<1>4. CASE UNCHANGED vars
  BY <1>4 DEF vars, Lasting, TypeOK, FiniteHistory, StampsDiffer, OwnStamp, JustPruned,
     Adopted, AdmittedRemembered, KeyOutlives, Pending
<1> QED
  BY <1>1, <1>2, <1>3, <1>4 DEF Next

-----------------------------------------------------------------------------
\* The number of stamps.

\* What is counted can be counted.
LEMMA Countable ==
  ASSUME AsReplicated, Lasting, NEW r \in Rules, NEW t \in Nat
  PROVE  /\ IsFiniteSet(Granted(r, t)) /\ Cardinality(Granted(r, t)) \in Nat
         /\ IsFiniteSet(Granting(r, t, "add")) /\ Cardinality(Granting(r, t, "add")) \in Nat
         /\ IsFiniteSet(Undecided(t)) /\ Cardinality(Undecided(t)) \in Nat
         /\ IsFiniteSet(Procs) /\ Cardinality(Procs) \in Nat \ {0}
         /\ Limit[r] \in Nat /\ Slack = 2 * (Cardinality(Procs) - 1)
<1>1. IsFiniteSet(Procs) /\ Cardinality(Procs) \in Nat \ {0}
  BY FS_CardinalityType, FS_EmptySet DEF AsReplicated
<1>2. Granting(r, t, "add") \subseteq Procs /\ Undecided(t) \subseteq Procs
  BY DEF Granting, Undecided
<1>3. Granted(r, t) \in SUBSET Nat /\ \A s \in Granted(r, t) : s <= t
  BY ReplicaNumbers DEF Lasting, Granted, Granting, Within
<1>4. IsFiniteSet(Granted(r, t))
  BY <1>3, FS_BoundedSetOfNaturals
<1>5. Limit[r] \in Nat
  BY ConstantsAssumption
<1> QED
  BY <1>1, <1>2, <1>4, <1>5, FS_Subset, FS_CardinalityType DEF Slack

\* Nothing of the window that ends in the present is missing from the set.
LEMMA NewestThere ==
  ASSUME AsReplicated, Lasting, NEW r \in Rules  PROVE Granted(r, clock) \subseteq zset
<1>1. \A s \in admitted[r] : s > clock - Span(r) => s \in zset
  BY DEF Lasting, AdmittedRemembered, AsReplicated
<1>2. \A s \in admitted[r] : Within(r, clock, s) => s > clock - Span(r)
  BY ReplicaNumbers DEF Lasting, Within
<1>3. \A p \in Procs : pc[p] = "expire" => now[p] \in zset
  BY DEF Lasting, Adopted
<1> QED
  BY <1>1, <1>2, <1>3 DEF Granted, Granting

LEMMA BoundThere ==
  ASSUME AsReplicated, ReplicasIInv, NEW r \in Rules, NEW t \in 0..clock
  PROVE  BoundAt(r, t)
  BY DEF ReplicasIInv, Overshoot

\* Tick and ReadClock: a check that starts is later than t, and a key that is dropped
\* holds nothing that a check under way could count.
LEMMA TimeKeepsBound ==
  ASSUME AsReplicated, ReplicasIInv, Advance, UNCHANGED admitted,
         \A p \in Procs :
            \/ pc'[p] = pc[p] /\ now'[p] = now[p] /\ rule'[p] = rule[p]
            \/ pc[p] = "idle" /\ pc'[p] = "prune" /\ now'[p] = clock,
         NEW r \in Rules, NEW t \in 0..clock'
  PROVE  BoundAt(r, t)'
<1>0. /\ TypeOK /\ Lasting /\ clock' = clock + 1
      /\ \A p \in Procs : pc[p] # "idle" => clock' < now[p] + Second
      /\ \/ zset' = zset
         \/ /\ zset' = {}
            /\ \A p \in Procs : pc[p] # "expire"
            /\ \A s \in zset : s + Span(r) + Second <= clock
  BY AdvanceLasting DEF ReplicasIInv, Lasting
<1>1. /\ t \in Nat /\ clock \in Nat /\ (t <= clock \/ t = clock + 1)
      /\ Span(r) \in Nat /\ Second \in Nat \ {0}
  BY <1>0, ReplicaNumbers
<1>2. /\ \A label \in {"add", "expire"} : Granting(r, t, label)' = Granting(r, t, label)
      /\ Granted(r, t)' = Granted(r, t)
  <2>1. \A label \in {"add", "expire"} : Granting(r, t, label)' = Granting(r, t, label)
    BY DEF Granting, Within
  <2>2. \A p \in Granting(r, t, "expire") : now'[p] = now[p]
    BY DEF Granting
  <2> QED
    BY <2>1, <2>2 DEF Granted, Within
<1>3. CASE t = clock + 1
  <2>1. Granted(r, t) \subseteq Granted(r, clock)
    <3>1. \A s \in admitted[r] : s \in Nat /\ s < clock
      BY <1>0, ReplicaNumbers DEF Lasting, StampsDiffer
    <3>2. \A s \in admitted[r] : Within(r, t, s) => Within(r, clock, s)
      BY <1>1, <1>3, <3>1 DEF Within
    <3>3. Granting(r, t, "expire") \subseteq Granting(r, clock, "expire")
      BY <1>0, <1>1, <1>3, ReplicaNumbers DEF Lasting, StampsDiffer, OwnStamp, Granting, Within
    <3> QED
      BY <3>2, <3>3 DEF Granted
  <2>2. Granting(r, t, "add") \subseteq Granting(r, clock, "add")
    BY <1>0, <1>1, <1>3, ReplicaNumbers DEF Lasting, StampsDiffer, OwnStamp, Granting, Within
  <2>3. Granted(r, clock) \subseteq zset
    BY <1>0, NewestThere
  <2>4. Granted(r, t) \subseteq zset'
    <3>1. CASE zset' = zset
      BY <2>1, <2>3, <3>1
    <3>2. CASE zset' # zset
      <4>1. \A s \in zset : s \in Nat /\ s + Span(r) + Second <= clock
        BY <1>0, <3>2, ReplicaNumbers
      <4>2. \A s \in Granted(r, t) : s \in zset /\ s > t - Span(r)
        BY <2>1, <2>3 DEF Granted, Granting, Within
      <4>3. Granted(r, t) = {}
        BY <1>1, <1>3, <4>1, <4>2
      <4> QED
        BY <4>3
    <3> QED
      BY <3>1, <3>2
  <2>5. Cardinality(Granted(r, clock)) + Cardinality(Granting(r, clock, "add"))
          <= Limit[r] + Cardinality(Procs) - 1
    BY <1>1, <2>3, BoundThere DEF BoundAt
  <2>6. /\ Cardinality(Granted(r, t)) <= Cardinality(Granted(r, clock))
        /\ Cardinality(Granting(r, t, "add")) <= Cardinality(Granting(r, clock, "add"))
    BY <1>0, <1>1, <2>1, <2>2, Countable, FS_Subset
  <2>7. Cardinality(Granted(r, t)) + Cardinality(Granting(r, t, "add"))
          <= Limit[r] + Cardinality(Procs) - 1
    BY <1>0, <1>1, <2>5, <2>6, Countable
  <2> QED
    BY <1>2, <2>4, <2>7 DEF BoundAt
<1>4. CASE t <= clock
  <2>0. BoundAt(r, t)
    BY <1>1, <1>4, BoundThere
  <2>1. CASE Granted(r, t) \subseteq zset'
    <3>1. Granted(r, t) \subseteq zset
      BY <1>0, <2>1
    <3> QED
      BY <1>2, <2>0, <2>1, <3>1 DEF BoundAt
  <2>2. CASE ~(Granted(r, t) \subseteq zset)
    <3>1. t < clock
      BY <1>0, <1>1, <1>4, <2>2, NewestThere
    <3>2. Undecided(t)' = Undecided(t)
      BY <1>1, <3>1 DEF Undecided
    <3>3. ~(Granted(r, t) \subseteq zset')
      BY <1>0, <2>2
    <3> QED
      BY <1>2, <2>0, <2>2, <3>2, <3>3 DEF BoundAt
  <2>3. CASE Granted(r, t) \subseteq zset /\ ~(Granted(r, t) \subseteq zset')
    <3>1. PICK s \in Granted(r, t) : s \in zset /\ s \notin zset'
      BY <2>3
    <3>2. s \in Nat /\ s + Span(r) + Second <= clock /\ t - Span(r) < s
      BY <1>0, <3>1, ReplicaNumbers DEF Granted, Granting, Within
    <3>3. t + Second < clock
      BY <1>1, <3>2
    <3>4. \A p \in Procs : pc'[p] # "idle" => now'[p] > t
      BY <1>0, <1>1, <3>3, ReplicaNumbers
    <3>5. Undecided(t)' = {}
      BY <1>0, <1>1, <3>4, ReplicaNumbers DEF Undecided
    <3>6. Cardinality(Undecided(t)') = 0
      BY <3>5, FS_EmptySet
    <3>7. Cardinality(Granted(r, t)) + Cardinality(Granting(r, t, "add"))
            <= Limit[r] + Cardinality(Procs) - 1
      BY <2>0, <2>3 DEF BoundAt
    <3>8. Cardinality(Granted(r, t)) + Cardinality(Granting(r, t, "add"))
            + Cardinality(Undecided(t)') <= Limit[r] + Slack
      BY <1>0, <1>1, <3>6, <3>7, Countable
    <3> QED
      BY <1>2, <2>3, <3>8 DEF BoundAt, Slack
  <2> QED
    BY <2>1, <2>2, <2>3
<1> QED
  BY <1>1, <1>3, <1>4

\* A pruning that takes a stamp of the stretch is by a check later than the
\* stretch: the undecided ones are among the other processes.
LEMMA PruneKeepsBound ==
  ASSUME AsReplicated, ReplicasIInv, NEW p \in Procs, Prune(p),
         NEW r \in Rules, NEW t \in 0..clock
  PROVE  BoundAt(r, t)'
<1>0. /\ TypeOK /\ Lasting /\ zset' = InWindow(p) /\ zset' \subseteq zset
      /\ pc[p] = "prune" /\ pc' = [pc EXCEPT ![p] = "count"]
      /\ UNCHANGED <<clock, now, rule, admitted>>
  BY DEF ReplicasIInv, Lasting, Prune, Store, Goto, InWindow
<1>1. t \in Nat /\ now[p] \in Nat /\ Span(r) \in Nat
  BY <1>0, ReplicaNumbers
<1>2. /\ Granted(r, t)' = Granted(r, t)
      /\ Granting(r, t, "add")' = Granting(r, t, "add")
      /\ Undecided(t)' = Undecided(t)
  <2>1. \A label \in {"add", "expire"} : Granting(r, t, label)' = Granting(r, t, label)
    BY <1>0 DEF Granting, Within, TypeOK
  <2>2. Granted(r, t)' = Granted(r, t)
    BY <1>0, <2>1 DEF Granted, Within
  <2> QED
    BY <1>0, <2>1, <2>2 DEF Undecided, TypeOK
<1>3. BoundAt(r, t)
  BY BoundThere
<1>4. CASE Granted(r, t) \subseteq zset'
  BY <1>0, <1>2, <1>3, <1>4 DEF BoundAt
<1>5. CASE ~(Granted(r, t) \subseteq zset)
  BY <1>0, <1>2, <1>3, <1>5 DEF BoundAt
<1>6. CASE Granted(r, t) \subseteq zset /\ ~(Granted(r, t) \subseteq zset')
  <2>1. PICK s \in Granted(r, t) : s \in zset /\ s \notin zset'
    BY <1>6
  <2>2. s \in Nat /\ s <= now[p] - Span(r) /\ t - Span(r) < s
    BY <1>0, <1>1, <2>1, ReplicaNumbers DEF InWindow, Granted, Granting, Within
  <2>3. Undecided(t) \subseteq Procs \ {p}
    BY <1>1, <2>2 DEF Undecided
  <2>4. Cardinality(Undecided(t)) <= Cardinality(Procs) - 1
    <3>1. IsFiniteSet(Procs) /\ Cardinality(Procs) \in Nat
      BY <1>0, <1>1, Countable
    <3>2. IsFiniteSet(Procs \ {p}) /\ Cardinality(Procs \ {p}) = Cardinality(Procs) - 1
      BY <3>1, FS_RemoveElement
    <3>3. Cardinality(Undecided(t)) <= Cardinality(Procs \ {p})
      BY <2>3, <3>2, FS_Subset
    <3> QED
      BY <3>2, <3>3
  <2>5. Cardinality(Granted(r, t)) + Cardinality(Granting(r, t, "add"))
          <= Limit[r] + Cardinality(Procs) - 1
    BY <1>3, <1>6 DEF BoundAt
  <2>6. Cardinality(Granted(r, t)) + Cardinality(Granting(r, t, "add"))
          + Cardinality(Undecided(t)) <= Limit[r] + Slack
    BY <1>0, <1>1, <2>4, <2>5, Countable
  <2> QED
    BY <1>2, <1>6, <2>6 DEF BoundAt, Slack
<1> QED
  BY <1>4, <1>5, <1>6

\* A check that is let in has seen all stamps of the stretch, or is one of the
\* undecided.
LEMMA CountKeepsBound ==
  ASSUME AsReplicated, ReplicasIInv, NEW p \in Procs, Count(p),
         NEW r \in Rules, NEW t \in 0..clock
  PROVE  BoundAt(r, t)'
<1>0. /\ TypeOK /\ Lasting /\ pc[p] = "count"
      /\ pc' = [pc EXCEPT ![p] = IF HasRoom(p) THEN "add" ELSE "oldest"]
      /\ UNCHANGED <<clock, zset, now, rule, admitted>>
  BY DEF ReplicasIInv, Lasting, Count, Goto
<1>1. t \in Nat
  BY <1>0, ReplicaNumbers
<1>2. BoundAt(r, t)
  BY BoundThere
<1>3. Granted(r, t)' = Granted(r, t)
  <2>1. Granting(r, t, "expire")' = Granting(r, t, "expire")
    BY <1>0 DEF Granting, Within, TypeOK
  <2> QED
    BY <1>0, <2>1 DEF Granted, Within
<1>4. Undecided(t)' = Undecided(t) \ {p}
  BY <1>0 DEF Undecided, TypeOK
<1>5. CASE ~(HasRoom(p) /\ rule[p] = r /\ Within(r, t, now[p]))
  <2>1. Granting(r, t, "add")' = Granting(r, t, "add")
    BY <1>0, <1>5 DEF Granting, Within, TypeOK
  <2>2. /\ Cardinality(Undecided(t)') <= Cardinality(Undecided(t))
        /\ Cardinality(Undecided(t)') \in Nat
    BY <1>0, <1>1, <1>4, Countable, FS_Subset, FS_CardinalityType
  <2>3. CASE Granted(r, t) \subseteq zset
    BY <1>0, <1>2, <1>3, <2>1, <2>3 DEF BoundAt
  <2>4. CASE ~(Granted(r, t) \subseteq zset)
    <3>1. Cardinality(Granted(r, t)) + Cardinality(Granting(r, t, "add"))
            + Cardinality(Undecided(t)) <= Limit[r] + Slack
      BY <1>2, <2>4 DEF BoundAt
    <3>2. Cardinality(Granted(r, t)) + Cardinality(Granting(r, t, "add"))
            + Cardinality(Undecided(t)') <= Limit[r] + Slack
      BY <1>0, <1>1, <2>2, <3>1, Countable
    <3> QED
      BY <1>0, <1>3, <2>1, <2>4, <3>2 DEF BoundAt, Slack
  <2> QED
    BY <2>3, <2>4
<1>6. CASE HasRoom(p) /\ rule[p] = r /\ Within(r, t, now[p])
  <2>1. Granting(r, t, "add")' = Granting(r, t, "add") \cup {p} /\ p \notin Granting(r, t, "add")
    BY <1>0, <1>6 DEF Granting, Within, TypeOK
  <2>2. /\ Cardinality(Granting(r, t, "add")') = Cardinality(Granting(r, t, "add")) + 1
        /\ Cardinality(Granting(r, t, "add")') \in Nat
    BY <1>0, <1>1, <2>1, Countable, FS_AddElement, FS_CardinalityType
  <2>3. CASE Granted(r, t) \subseteq zset
    <3>1. Cardinality(Granted(r, t)) < Limit[r]
      <4>1. IsFiniteSet(zset)
        BY <1>0 DEF Lasting, FiniteHistory
      <4>2. Cardinality(Granted(r, t)) <= Cardinality(zset) /\ Cardinality(zset) \in Nat
        BY <2>3, <4>1, FS_Subset, FS_CardinalityType
      <4>3. Cardinality(zset) < Limit[r]
        BY <1>6 DEF HasRoom
      <4> QED
        BY <1>0, <1>1, <4>2, <4>3, Countable
    <3>2. Cardinality(Granting(r, t, "add")') <= Cardinality(Procs)
      <4>1. Granting(r, t, "add")' \subseteq Procs
        BY DEF Granting
      <4> QED
        BY <4>1, FS_Subset DEF AsReplicated
    <3>3. Cardinality(Granted(r, t)) + Cardinality(Granting(r, t, "add")')
            <= Limit[r] + Cardinality(Procs) - 1
      BY <1>0, <1>1, <2>2, <3>1, <3>2, Countable
    <3> QED
      BY <1>0, <1>3, <2>3, <3>3 DEF BoundAt
  <2>4. CASE ~(Granted(r, t) \subseteq zset)
    <3>1. p \in Undecided(t)
      BY <1>0, <1>6 DEF Undecided, Within
    <3>2. Cardinality(Undecided(t)') = Cardinality(Undecided(t)) - 1
      <4>1. IsFiniteSet(Undecided(t))
        BY <1>0, <1>1, Countable
      <4>2. Cardinality(Undecided(t) \ {p}) = Cardinality(Undecided(t)) - 1
        BY <3>1, <4>1, FS_RemoveElement
      <4> QED
        BY <1>4, <4>2
    <3>3. Cardinality(Granted(r, t)) + Cardinality(Granting(r, t, "add"))
            + Cardinality(Undecided(t)) <= Limit[r] + Slack
      BY <1>2, <2>4 DEF BoundAt
    <3>4. Cardinality(Granted(r, t)) + Cardinality(Granting(r, t, "add")')
            + Cardinality(Undecided(t)') <= Limit[r] + Slack
      BY <1>0, <1>1, <2>2, <3>2, <3>3, Countable
    <3> QED
      BY <1>0, <1>3, <2>4, <3>4 DEF BoundAt, Slack
  <2> QED
    BY <2>3, <2>4
<1> QED
  BY <1>5, <1>6

\* An addition counts where the decision to add did before.
LEMMA AddKeepsBound ==
  ASSUME AsReplicated, ReplicasIInv, NEW p \in Procs, Add(p),
         NEW r \in Rules, NEW t \in 0..clock
  PROVE  BoundAt(r, t)'
<1>0. /\ TypeOK /\ Lasting /\ zset' = zset \cup {now[p]}
      /\ pc[p] = "add" /\ pc' = [pc EXCEPT ![p] = "expire"]
      /\ UNCHANGED <<clock, now, rule, admitted>>
  BY DEF ReplicasIInv, Lasting, Add, Stamp, Goto
<1>1. t \in Nat
  BY <1>0, ReplicaNumbers
<1>2. BoundAt(r, t)
  BY BoundThere
<1>3. Undecided(t)' = Undecided(t)
  BY <1>0 DEF Undecided, TypeOK
<1>4. Granting(r, t, "add")' = Granting(r, t, "add") \ {p}
  BY <1>0 DEF Granting, Within, TypeOK
<1>5. now[p] \notin Granted(r, t)
  <2>1. \A s \in admitted[r] : s # now[p]
    BY <1>0 DEF Lasting, StampsDiffer
  <2>2. \A q \in Procs : pc[q] = "expire" => now[q] # now[p]
    BY <1>0 DEF Lasting, StampsDiffer, OwnStamp
  <2> QED
    BY <2>1, <2>2 DEF Granted, Granting
<1>6. CASE p \in Granting(r, t, "add")
  <2>1. Granted(r, t)' = Granted(r, t) \cup {now[p]}
    <3>1. Granting(r, t, "expire")' = Granting(r, t, "expire") \cup {p}
      BY <1>0, <1>6 DEF Granting, Within, TypeOK
    <3> QED
      BY <1>0, <3>1 DEF Granted, Within
  <2>2. Cardinality(Granted(r, t)') = Cardinality(Granted(r, t)) + 1
    BY <1>0, <1>1, <1>5, <2>1, Countable, FS_AddElement
  <2>3. Cardinality(Granting(r, t, "add")') = Cardinality(Granting(r, t, "add")) - 1
    <3>1. IsFiniteSet(Granting(r, t, "add"))
      BY <1>0, <1>1, Countable
    <3>2. Cardinality(Granting(r, t, "add") \ {p}) = Cardinality(Granting(r, t, "add")) - 1
      BY <1>6, <3>1, FS_RemoveElement
    <3> QED
      BY <1>4, <3>2
  <2>4. Cardinality(Granted(r, t)') + Cardinality(Granting(r, t, "add")')
          = Cardinality(Granted(r, t)) + Cardinality(Granting(r, t, "add"))
    BY <1>0, <1>1, <2>2, <2>3, Countable
  <2>5. Granted(r, t)' \subseteq zset' <=> Granted(r, t) \subseteq zset
    BY <1>0, <1>5, <2>1
  <2> QED
    BY <1>2, <1>3, <2>4, <2>5 DEF BoundAt, Slack
<1>7. CASE p \notin Granting(r, t, "add")
  <2>1. Granting(r, t, "add")' = Granting(r, t, "add")
    BY <1>4, <1>7
  <2>2. Granted(r, t)' = Granted(r, t)
    <3>1. Granting(r, t, "expire")' = Granting(r, t, "expire")
      BY <1>0, <1>7 DEF Granting, Within, TypeOK
    <3> QED
      BY <1>0, <3>1 DEF Granted, Within
  <2>3. Granted(r, t)' \subseteq zset' <=> Granted(r, t) \subseteq zset
    BY <1>0, <1>5, <2>2
  <2> QED
    BY <1>2, <1>3, <2>1, <2>2, <2>3 DEF BoundAt, Slack
<1> QED
  BY <1>6, <1>7

\* A check that ends keeps its stamp, or had none.
LEMMA EndKeepsBound ==
  ASSUME AsReplicated, ReplicasIInv, NEW p \in Procs, Expire(p) \/ Reject(p),
         NEW r \in Rules, NEW t \in 0..clock
  PROVE  BoundAt(r, t)'
<1>0. /\ TypeOK /\ pc[p] \in {"expire", "oldest"} /\ pc' = [pc EXCEPT ![p] = "idle"]
      /\ UNCHANGED <<clock, zset, now, rule>>
  BY DEF ReplicasIInv, Lasting, Expire, Reject, Goto
<1>1. BoundAt(r, t)
  BY BoundThere
<1>2. Granting(r, t, "add")' = Granting(r, t, "add") /\ Undecided(t)' = Undecided(t)
  BY <1>0 DEF Granting, Undecided, Within, TypeOK
<1>3. Granted(r, t)' = Granted(r, t)
  <2>1. CASE pc[p] = "oldest"
    <3>1. UNCHANGED admitted
      BY <2>1 DEF Expire, Reject
    <3>2. Granting(r, t, "expire")' = Granting(r, t, "expire")
      BY <1>0, <2>1 DEF Granting, Within, TypeOK
    <3> QED
      BY <1>0, <3>1, <3>2 DEF Granted, Within
  <2>2. CASE pc[p] = "expire"
    <3>1. admitted'[r] = IF r = rule[p] THEN admitted[r] \cup {now[p]} ELSE admitted[r]
      BY <1>0, <2>2 DEF Expire, Reject, TypeOK
    <3>2. Granting(r, t, "expire")' = Granting(r, t, "expire") \ {p}
      BY <1>0, <2>2 DEF Granting, Within, TypeOK
    <3>3. p \in Granting(r, t, "expire") <=> rule[p] = r /\ Within(r, t, now[p])
      BY <2>2 DEF Granting
    <3> QED
      BY <1>0, <3>1, <3>2, <3>3 DEF Granted, Within
  <2> QED
    BY <1>0, <2>1, <2>2
<1> QED
  BY <1>0, <1>1, <1>2, <1>3 DEF BoundAt, Slack

-----------------------------------------------------------------------------
\* The results.

LEMMA ReplicasStep ==
  ASSUME AsReplicated, ReplicasIInv, [Next]_vars  PROVE ReplicasIInv'
<1>0. Lasting' /\ TypeOK
  BY LastingStep DEF ReplicasIInv, Lasting
<1>1. SUFFICES ASSUME NEW r \in Rules, NEW t \in 0..clock' PROVE BoundAt(r, t)'
  BY <1>0 DEF ReplicasIInv, Overshoot
<1>2. CASE Tick
  <2>1. /\ Advance /\ UNCHANGED admitted
        /\ \A p \in Procs : pc'[p] = pc[p] /\ now'[p] = now[p] /\ rule'[p] = rule[p]
    BY <1>2 DEF Tick
  <2> QED
    BY <2>1, TimeKeepsBound
<1>3. ASSUME NEW p \in Procs, NEW q \in Rules, ReadClock(p, q) PROVE BoundAt(r, t)'
  <2>1. /\ Advance /\ UNCHANGED admitted
        /\ \A o \in Procs :
             \/ pc'[o] = pc[o] /\ now'[o] = now[o] /\ rule'[o] = rule[o]
             \/ pc[o] = "idle" /\ pc'[o] = "prune" /\ now'[o] = clock
    BY <1>0, <1>3 DEF ReadClock, Goto, AsReplicated, TypeOK
  <2> QED
    BY <2>1, TimeKeepsBound
<1>4. ASSUME NEW p \in Procs, Check(p) PROVE BoundAt(r, t)'
  <2>1. ~Fail(p)
    BY DEF Fail, AsReplicated
  <2>2. clock' = clock
    BY <1>4 DEF Check, Prune, Count, Add, Expire, Reject, Fail
  <2> QED
    BY <1>4, <2>1, <2>2, PruneKeepsBound, CountKeepsBound, AddKeepsBound, EndKeepsBound DEF Check
<1>5. CASE UNCHANGED vars
  <2>1. BoundAt(r, t)
    BY <1>5, BoundThere DEF vars
  <2> QED
    BY <1>5, <2>1 DEF vars, BoundAt, Granted, Granting, Undecided, Within
<1> QED
  BY <1>2, <1>3, <1>4, <1>5 DEF Next

\* Several processes that share the Redis server: the sorted set, its expiry, the checks
\* under way and those allowed fit together between any two calls of check.
THEOREM ReplicasInvariant == AsReplicated => (Spec => []ReplicasIInv)
<1> SUFFICES ASSUME AsReplicated PROVE Spec => []ReplicasIInv
  OBVIOUS
<1>1. Init => ReplicasIInv
  <2> SUFFICES ASSUME Init PROVE ReplicasIInv
    OBVIOUS
  <2>1. Lasting
    BY FS_EmptySet DEF Init, Lasting, TypeOK, NoTTL, FiniteHistory, StampsDiffer, OwnStamp,
       JustPruned, Adopted, AdmittedRemembered, KeyOutlives
  <2>2. ASSUME NEW r \in Rules, NEW t \in 0..clock PROVE BoundAt(r, t)
    <3>1. t \in Nat /\ Limit[r] \in Nat \ {0}
      BY ConstantsAssumption DEF Init
    <3>2. Granted(r, t) = {} /\ Granting(r, t, "add") = {}
      BY DEF Init, Granted, Granting
    <3>3. Cardinality({}) = 0
      BY FS_EmptySet
    <3>4. Cardinality(Procs) \in Nat \ {0}
      BY <2>1, <3>1, Countable
    <3>5. 0 + 0 <= Limit[r] + Cardinality(Procs) - 1
      BY <3>1, <3>4
    <3> QED
      BY <3>2, <3>3, <3>5 DEF BoundAt
  <2> QED
    BY <2>1, <2>2 DEF ReplicasIInv, Overshoot
<1>2. ReplicasIInv /\ [Next]_vars => ReplicasIInv'
  BY ReplicasStep
<1> QED
  BY <1>1, <1>2, PTL DEF Spec

\* Several processes overshoot a rule's limit by at most two checks for every process
\* beyond the first, in any stretch of a window's length, for every number of processes,
\* limit and window: one that counted too early, and one that was pruned too early.
THEOREM OvershootBounded == AsReplicated => (Spec => []WindowBound)
<1> SUFFICES ASSUME AsReplicated PROVE Spec => []WindowBound
  OBVIOUS
<1>1. ReplicasIInv => WindowBound
  <2> SUFFICES ASSUME ReplicasIInv, NEW r \in Rules, NEW t \in admitted[r]
               PROVE  Cardinality({s \in admitted[r] : t - Span(r) < s /\ s <= t})
                         <= Limit[r] + Slack
    BY DEF WindowBound, Bounded
  <2>0. Lasting /\ TypeOK
    BY DEF ReplicasIInv, Lasting
  <2>1. t \in Nat /\ t < clock /\ clock \in Nat
    BY <2>0, ReplicaNumbers DEF Lasting, StampsDiffer
  <2>2. BoundAt(r, t)
    BY <2>1, BoundThere
  <2> DEFINE allowed == {s \in admitted[r] : t - Span(r) < s /\ s <= t}
  <2>3. allowed \subseteq Granted(r, t)
    BY DEF Granted, Within
  <2>4. Cardinality(allowed) <= Cardinality(Granted(r, t)) /\ Cardinality(allowed) \in Nat
    BY <2>0, <2>1, <2>3, Countable, FS_Subset, FS_CardinalityType
  <2> HIDE DEF allowed
  <2>5. \/ Cardinality(Granted(r, t)) + Cardinality(Granting(r, t, "add"))
             <= Limit[r] + Cardinality(Procs) - 1
        \/ Cardinality(Granted(r, t)) + Cardinality(Granting(r, t, "add"))
             + Cardinality(Undecided(t)) <= Limit[r] + Slack
    BY <2>2 DEF BoundAt
  <2>6. Cardinality(allowed) <= Limit[r] + Slack
    BY <2>0, <2>1, <2>4, <2>5, Countable
  <2> QED
    BY <2>6 DEF allowed
<1> QED
  BY <1>1, ReplicasInvariant, PTL

\* Several processes: no allowed check is forgotten while its window lasts, whatever
\* the others prune, and although the key may be one that a check under way has yet
\* to keep alive.
THEOREM NothingForgottenByReplicas == AsReplicated => (Spec => []AdmittedRemembered)
<1> SUFFICES ASSUME AsReplicated PROVE Spec => []AdmittedRemembered
  OBVIOUS
<1>1. ReplicasIInv => AdmittedRemembered
  BY DEF ReplicasIInv, Lasting
<1> QED
  BY <1>1, ReplicasInvariant, PTL
=============================================================================
