---------------------------- MODULE RuleCacheProofs ----------------------------
(***************************************************************************)
(* Proofs about RuleCache for any set of rules, gateways and concurrent    *)
(* edits, with lost invalidations and crashes: what the cache serves was   *)
(* the active list at most _CACHE_TTL and one stall ago.                   *)
(***************************************************************************)
EXTENDS RuleCache, TLAPS

LEMMA ActiveType == Active \in Lists /\ Active' \in Lists
  BY DEF Active, Lists

\* A commit makes the list of its rules the youngest and ages none.
LEMMA CommitEffect ==
  ASSUME TypeOK, NEW r \in Rules, NEW s \in Status, Commit(r, s)
  PROVE  /\ table' \in [Rules -> Status]
         /\ age' \in [Lists -> 0..AgeCap]
         /\ age'[Active'] = 0
         /\ \A L \in Lists : age'[L] <= age[L]
<1>1. table' \in [Rules -> Status]
  BY DEF Commit, TypeOK
<1>2. 0 \in 0..AgeCap
  BY ConstantsAssumption DEF AgeCap, Oldest
<1>3. age' \in [Lists -> 0..AgeCap] /\ age'[Active'] = 0
  BY <1>2, ActiveType DEF Commit, TypeOK
<1>4. \A L \in Lists : age[L] \in 0..AgeCap /\ age'[L] = IF L = Active' THEN 0 ELSE age[L]
  BY ActiveType DEF Commit, TypeOK
<1> QED
  BY <1>1, <1>3, <1>4

\* A tick ages every list by at most one, and the active list not at all.
LEMMA TickEffect ==
  ASSUME TypeOK, Tick
  PROVE  /\ age' \in [Lists -> 0..AgeCap]
         /\ age'[Active'] = 0
         /\ \A L \in Lists : age'[L] <= age[L] + 1
<1> USE ConstantsAssumption
<1>0. AgeCap \in Nat
  BY DEF AgeCap, Oldest
<1>1. Active' = Active
  BY DEF Tick, Active
<1>2. age' = [L \in Lists |-> IF L = Active THEN 0
                              ELSE IF age[L] < AgeCap THEN age[L] + 1 ELSE AgeCap]
  BY DEF Tick
<1>3. \A L \in Lists : age[L] \in 0..AgeCap
  BY DEF TypeOK
<1> QED
  BY <1>0, <1>1, <1>2, <1>3, ActiveType

LEMMA TypeStep == TypeOK /\ [Next]_vars => TypeOK'
<1> SUFFICES ASSUME TypeOK, [Next]_vars PROVE TypeOK'
  OBVIOUS
<1> USE ConstantsAssumption DEF matching, editing
<1>1. CASE Tick
  <2>1. waited' \in [Gateways -> 0..MaxStall]
    BY <1>1 DEF Tick, TypeOK
  <2>2. ttl' \in 0..CacheTTL /\ cache' \in Lists
    BY <1>1 DEF Tick, Forget, TypeOK, Lists
  <2> QED
    BY <1>1, <2>1, <2>2, TickEffect DEF Tick, TypeOK
<1>2. ASSUME NEW g \in Gateways, MatchStart(g) \/ MatchFails(g) PROVE TypeOK'
  BY <1>2 DEF MatchStart, MatchFails, TypeOK
<1>3. ASSUME NEW g \in Gateways, Get(g) PROVE TypeOK'
  BY <1>3 DEF Get, TypeOK
<1>4. ASSUME NEW g \in Gateways, Select(g) PROVE TypeOK'
  BY <1>4, ActiveType DEF Select, Selected, TypeOK
<1>5. ASSUME NEW g \in Gateways, Setex(g) PROVE TypeOK'
  BY <1>5 DEF Setex, NewTTL, TypeOK
<1>6. ASSUME NEW e \in Editors, NEW r \in Rules, Create(e, r) PROVE TypeOK'
  <2>1. "active" \in Status /\ Commit(r, "active")
    BY <1>6 DEF Create, Status
  <2> QED
    BY <1>6, <2>1, CommitEffect DEF Create, Then, TypeOK
<1>7. ASSUME NEW e \in Editors, NEW r \in Rules, Find(e, r) PROVE TypeOK'
  BY <1>7 DEF Find, Then, TypeOK
<1>8. ASSUME NEW e \in Editors, Refresh(e) \/ EditorDies(e) PROVE TypeOK'
  BY <1>8 DEF Refresh, EditorDies, Then, TypeOK
<1>9. ASSUME NEW e \in Editors, Toggle(e) PROVE TypeOK'
  <2>1. CASE table[target[e]] = "deleted"
    BY <1>9, <2>1 DEF Toggle, Missing, Then, TypeOK
  <2>2. CASE table[target[e]] # "deleted"
    <3>1. PICK s \in Status : Commit(target[e], s)
      BY <1>9, <2>2 DEF Toggle, Missing, Status
    <3>2. target[e] \in Rules
      BY DEF TypeOK
    <3> QED
      BY <1>9, <2>2, <3>1, <3>2, CommitEffect DEF Toggle, Missing, Then, TypeOK
  <2> QED
    BY <2>1, <2>2
<1>10. ASSUME NEW e \in Editors, Delete(e) PROVE TypeOK'
  <2>1. "deleted" \in Status /\ target[e] \in Rules /\ Commit(target[e], "deleted")
    BY <1>10 DEF Delete, Status, TypeOK
  <2> QED
    BY <1>10, <2>1, CommitEffect DEF Delete, Then, TypeOK
<1>11. ASSUME NEW e \in Editors, Invalidate(e) PROVE TypeOK'
  <2>1. ttl' \in 0..CacheTTL /\ cache' \in Lists
    BY <1>11 DEF Invalidate, Forget, TypeOK, Lists
  <2> QED
    BY <1>11, <2>1 DEF Invalidate, Then, TypeOK
<1>12. CASE UNCHANGED vars
  BY <1>12 DEF vars, TypeOK
<1> QED
  BY <1>1, <1>2, <1>3, <1>4, <1>5, <1>6, <1>7, <1>8, <1>9, <1>10, <1>11,
     <1>12 DEF Next, Match, Edit, Finish

LEMMA InitType == Init => TypeOK
<1> SUFFICES ASSUME Init PROVE TypeOK
  OBVIOUS
<1>1. age \in [Lists -> 0..AgeCap]
  BY ConstantsAssumption DEF Init, AgeCap, Oldest
<1> QED
  BY <1>1, ConstantsAssumption DEF Init, TypeOK, Status, Lists

\* The table, the matches and the cache stay well typed for any constants.
THEOREM TypeCorrect == Spec => []TypeOK
  BY InitType, TypeStep, PTL DEF Spec

-----------------------------------------------------------------------------
\* The age of the cached list.

\* A step that ages no list, caches none and loads none keeps both bounds.
LEMMA NoOlder ==
  ASSUME IInv, TypeOK',
         \A L \in Lists : age'[L] <= age[L],
         \A g \in Gateways : match'[g] = "setex" => match[g] = "setex",
         UNCHANGED <<list, waited>>,
         UNCHANGED <<cache, ttl>> \/ ttl' = 0
  PROVE  InHand' /\ InCache'
<1> USE ConstantsAssumption
<1>1. /\ \A L \in Lists : age[L] \in Nat /\ age'[L] \in Nat
      /\ \A g \in Gateways : list[g] \in Lists /\ waited[g] \in Nat
      /\ cache \in Lists /\ ttl \in Nat
  BY DEF IInv, TypeOK
<1>2. InHand'
  BY <1>1 DEF IInv, InHand
<1>3. CASE UNCHANGED <<cache, ttl>>
  BY <1>1, <1>2, <1>3 DEF IInv, InCache, Cached
<1>4. CASE ttl' = 0
  BY <1>2, <1>4 DEF InCache, Cached
<1> QED
  BY <1>3, <1>4

\* The same for a step that leaves the table and its history alone.
LEMMA TableUntouched ==
  ASSUME IInv, TypeOK', UNCHANGED <<table, age>>,
         \A g \in Gateways : match'[g] = "setex" => match[g] = "setex",
         UNCHANGED <<list, waited>>,
         UNCHANGED <<cache, ttl>> \/ ttl' = 0
  PROVE  IInv'
<1>1. \A L \in Lists : age'[L] <= age[L]
  BY DEF IInv, TypeOK
<1>2. Active' = Active
  BY DEF Active
<1> QED
  BY <1>1, <1>2, NoOlder DEF IInv

\* The same for a step that commits a change to a rule.
LEMMA TableChanged ==
  ASSUME IInv, TypeOK', NEW r \in Rules, NEW s \in Status, Commit(r, s),
         UNCHANGED <<cache, ttl, match, list, waited>>
  PROVE  IInv'
<1>1. age'[Active'] = 0 /\ \A L \in Lists : age'[L] <= age[L]
  BY CommitEffect DEF IInv
<1> QED
  BY <1>1, NoOlder DEF IInv

LEMMA InductiveStep == IInv /\ [Next]_vars => IInv'
<1> SUFFICES ASSUME IInv, [Next]_vars PROVE IInv'
  OBVIOUS
<1> USE ConstantsAssumption DEF matching, editing
<1>0. TypeOK /\ TypeOK'
  BY TypeStep DEF IInv
<1>1. CASE Tick
  <2>0. /\ age'[Active'] = 0
        /\ \A L \in Lists : age[L] \in Nat /\ age'[L] \in Nat /\ age'[L] <= age[L] + 1
    BY <1>0, <1>1, TickEffect DEF TypeOK
  <2>1. InHand'
    <3> SUFFICES ASSUME NEW g \in Gateways, match[g] = "setex"
                 PROVE  age'[list[g]] <= waited'[g]
      BY <1>1 DEF InHand, Tick
    <3>1. waited'[g] = waited[g] + 1 /\ waited[g] \in Nat /\ list[g] \in Lists
      BY <1>0, <1>1 DEF Tick, TypeOK
    <3>2. age[list[g]] <= waited[g]
      BY DEF IInv, InHand
    <3> QED
      BY <2>0, <3>1, <3>2
  <2>2. InCache'
    <3> SUFFICES ASSUME Cached' PROVE age'[cache'] <= MaxStall + (CacheTTL - ttl')
      BY DEF InCache
    <3>1. ttl > 1 /\ ttl' = ttl - 1 /\ cache' = cache /\ ttl \in Nat /\ cache \in Lists
      BY <1>0, <1>1 DEF Tick, Forget, Cached, TypeOK
    <3>2. age[cache] <= MaxStall + (CacheTTL - ttl)
      BY <3>1 DEF IInv, InCache, Cached
    <3> QED
      BY <2>0, <3>1, <3>2
  <2> QED
    BY <1>0, <2>0, <2>1, <2>2 DEF IInv
<1>2. ASSUME NEW g \in Gateways, MatchStart(g) \/ MatchFails(g) PROVE IInv'
  BY <1>0, <1>2, TableUntouched DEF MatchStart, MatchFails, TypeOK
<1>3. ASSUME NEW g \in Gateways, Get(g) PROVE IInv'
  <2>1. /\ UNCHANGED <<table, cache, ttl, waited, age>>
        /\ match'[g] # "setex"
        /\ \A h \in Gateways \ {g} : match'[h] = match[h] /\ list'[h] = list[h]
    BY <1>0, <1>3 DEF Get, TypeOK
  <2>2. InHand'
    BY <2>1 DEF IInv, InHand
  <2> QED
    BY <1>0, <2>1, <2>2 DEF IInv, InCache, Cached, Active
<1>4. ASSUME NEW g \in Gateways, Select(g) PROVE IInv'
  <2>1. /\ UNCHANGED <<table, cache, ttl, age>>
        /\ list'[g] = Active /\ waited'[g] = 0
        /\ \A h \in Gateways \ {g} : /\ match'[h] = match[h]
                                     /\ list'[h] = list[h]
                                     /\ waited'[h] = waited[h]
    BY <1>0, <1>4 DEF Select, Selected, TypeOK
  <2>2. InHand'
    BY <2>1 DEF IInv, InHand
  <2> QED
    BY <1>0, <2>1, <2>2 DEF IInv, InCache, Cached, Active
<1>5. ASSUME NEW g \in Gateways, Setex(g) PROVE IInv'
  <2>1. /\ UNCHANGED <<table, list, waited, age>>
        /\ match[g] = "setex" /\ cache' = list[g] /\ ttl' = CacheTTL
        /\ \A h \in Gateways : match'[h] = "setex" => match[h] = "setex"
    BY <1>0, <1>5 DEF Setex, NewTTL, TypeOK
  <2>2. InHand'
    BY <2>1 DEF IInv, InHand
  <2>3. age[list[g]] <= waited[g] /\ waited[g] <= MaxStall
    BY <1>0, <2>1 DEF IInv, InHand, TypeOK
  <2>4. age[list[g]] \in Nat /\ waited[g] \in Nat
    BY <1>0 DEF TypeOK
  <2>5. InCache'
    BY <2>1, <2>3, <2>4 DEF InCache
  <2> QED
    BY <1>0, <2>1, <2>2, <2>5 DEF IInv, Active
<1>6. ASSUME NEW e \in Editors, NEW r \in Rules, Create(e, r) PROVE IInv'
  BY <1>0, <1>6, TableChanged DEF Create, Status
<1>7. ASSUME NEW e \in Editors, NEW r \in Rules, Find(e, r) PROVE IInv'
  BY <1>0, <1>7, TableUntouched DEF Find
<1>8. ASSUME NEW e \in Editors, Refresh(e) \/ EditorDies(e) PROVE IInv'
  BY <1>0, <1>8, TableUntouched DEF Refresh, EditorDies
<1>9. ASSUME NEW e \in Editors, Toggle(e) PROVE IInv'
  <2>1. CASE table[target[e]] = "deleted"
    BY <1>0, <1>9, <2>1, TableUntouched DEF Toggle, Missing
  <2>2. CASE table[target[e]] # "deleted"
    <3>1. PICK s \in Status : Commit(target[e], s)
      BY <1>9, <2>2 DEF Toggle, Missing, Status
    <3>2. target[e] \in Rules
      BY <1>0 DEF TypeOK
    <3> QED
      BY <1>0, <1>9, <3>1, <3>2, TableChanged DEF Toggle, Missing
  <2> QED
    BY <2>1, <2>2
<1>10. ASSUME NEW e \in Editors, Delete(e) PROVE IInv'
  <2>1. "deleted" \in Status /\ target[e] \in Rules
    BY <1>0 DEF Status, TypeOK
  <2> QED
    BY <1>0, <1>10, <2>1, TableChanged DEF Delete
<1>11. ASSUME NEW e \in Editors, Invalidate(e) PROVE IInv'
  BY <1>0, <1>11, TableUntouched DEF Invalidate, Forget
<1>12. CASE UNCHANGED vars
  BY <1>0, <1>12, TableUntouched DEF vars
<1> QED
  BY <1>1, <1>2, <1>3, <1>4, <1>5, <1>6, <1>7, <1>8, <1>9, <1>10, <1>11,
     <1>12 DEF Next, Match, Edit, Finish

\* However edits and matches interleave and whatever is lost: a list on its way to
\* the cache is no older than its SELECT, and one in the cache no older than its
\* stall and the part of the expiry that has passed.
THEOREM InductiveInvariant == Spec => []IInv
<1>1. Init => IInv
  <2> SUFFICES ASSUME Init PROVE IInv
    OBVIOUS
  <2>1. Active = {} /\ {} \in Lists
    BY DEF Init, Active, Lists
  <2>2. age[Active] = 0
    BY <2>1 DEF Init
  <2> QED
    BY <2>2, InitType DEF Init, IInv, InHand, InCache, Cached
<1> QED
  BY <1>1, InductiveStep, PTL DEF Spec

\* For any number of gateways and concurrent edits, with lost invalidations
\* and crashes anywhere, a cached list was the active list at most
\* _CACHE_TTL and one stall ago.
THEOREM CacheRecent == Spec => []CacheIsRecent
<1>1. IInv => CacheIsRecent
  <2> SUFFICES ASSUME IInv, Cached PROVE age[cache] <= Oldest
    BY DEF CacheIsRecent
  <2>1. age[cache] <= MaxStall + (CacheTTL - ttl)
    BY DEF IInv, InCache
  <2>2. ttl \in Nat /\ age[cache] \in Nat
    BY DEF IInv, TypeOK
  <2> QED
    BY <2>1, <2>2, ConstantsAssumption DEF Oldest
<1> QED
  BY <1>1, InductiveInvariant, PTL

\* A deleted rule never returns, whatever edits it races with.
THEOREM DeletedForGood == Spec => DeletedStaysDeleted
<1>1. TypeOK /\ [Next]_vars =>
        [\A r \in Rules : table[r] = "deleted" => table'[r] = "deleted"]_vars
  <2> SUFFICES ASSUME TypeOK, [Next]_vars, NEW r \in Rules, table[r] = "deleted"
               PROVE  table'[r] = "deleted"
    OBVIOUS
  <2> USE DEF matching, editing
  <2>1. CASE Tick \/ UNCHANGED vars
    BY <2>1 DEF Tick, vars
  <2>2. ASSUME NEW g \in Gateways, Match(g) \/ MatchFails(g) PROVE table'[r] = "deleted"
    BY <2>2 DEF Match, MatchStart, Get, Select, Setex, MatchFails
  <2>3. ASSUME NEW e \in Editors, Edit(e) PROVE table'[r] = "deleted"
    BY <2>3 DEF Edit, Finish, Refresh, Toggle, Missing, Delete, Invalidate, EditorDies,
        Create, Find, Commit, TypeOK
  <2> QED
    BY <2>1, <2>2, <2>3 DEF Next
<1> QED
  BY <1>1, InitType, TypeStep, PTL DEF Spec, DeletedStaysDeleted
=============================================================================
