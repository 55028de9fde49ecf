------------------------------- MODULE RuleCache -------------------------------
(***************************************************************************)
(* RuleRepository: the rules table, its copy in the Redis key              *)
(* "rg:rules:all", the matches that read it on the event loop and the      *)
(* /rules handlers that change it from threads of their own.               *)
(*                                                                         *)
(* One action is one SQL statement with its commit, or one Redis command.  *)
(* A rule's pattern, limit and window never change after its creation, so  *)
(* a list of rules is the set of the rules that are in it.                 *)
(***************************************************************************)
EXTENDS Integers, FiniteSets

CONSTANTS
    Rules,      \* every rule that will ever be created
    Gateways,   \* gateway processes; each matches one path at a time
    Editors,    \* concurrent requests to /rules
    CacheTTL,   \* _CACHE_TTL, in ticks
    MaxStall,   \* ticks a match may spend between its SELECT and its SETEX
    Faults      \* which of FaultKinds may happen

FaultKinds == {"redis", "crash"}

ASSUME ConstantsAssumption ==
    /\ CacheTTL \in Nat \ {0}
    /\ MaxStall \in Nat
    /\ Faults \subseteq FaultKinds

VARIABLES
    table,      \* table[r]: what the rules table says of r
    cache,      \* the cached list, if there is one
    ttl,        \* ticks the key has left; 0: the key is not there
    match,      \* match[g]: the next command of the match on g's event loop
    list,       \* list[g]: the rules that match has loaded
    waited,     \* waited[g]: ticks since it loaded them from the table
    edit,       \* edit[e]: the next command of the /rules request e
    target,     \* target[e]: the rule it is about
    turnOn,     \* turnOn[e]: the "not rule.active" it computed
    age         \* history: age[L] is the ticks since L was the active list

vars == <<table, cache, ttl, match, list, waited, edit, target, turnOn, age>>

Status == {"future", "active", "inactive", "deleted"}
Lists == SUBSET Rules
Active == {r \in Rules : table[r] = "active"}

\* The oldest list the cache can serve, and where the history stops counting.
Oldest == CacheTTL + MaxStall
AgeCap == Oldest + 1

TypeOK ==
    /\ table \in [Rules -> Status]
    /\ cache \in Lists
    /\ ttl \in 0..CacheTTL
    /\ match \in [Gateways -> {"idle", "get", "select", "setex"}]
    /\ list \in [Gateways -> Lists]
    /\ waited \in [Gateways -> 0..MaxStall]
    /\ edit \in [Editors -> {"idle", "refresh", "toggle", "delete", "invalidate"}]
    /\ target \in [Editors -> Rules]
    /\ turnOn \in [Editors -> BOOLEAN]
    /\ age \in [Lists -> 0..AgeCap]

Init ==
    /\ table = [r \in Rules |-> "future"]
    /\ cache = {}
    /\ ttl = 0
    /\ match = [g \in Gateways |-> "idle"]
    /\ list = [g \in Gateways |-> {}]
    /\ waited = [g \in Gateways |-> 0]
    /\ edit = [e \in Editors |-> "idle"]
    /\ target \in [Editors -> Rules]
    /\ turnOn = [e \in Editors |-> FALSE]
    /\ age = [L \in Lists |-> IF L = {} THEN 0 ELSE AgeCap]

matching == <<match, list, waited>>
editing == <<edit, target, turnOn>>

-----------------------------------------------------------------------------
\* Time and the table.

Cached == ttl > 0
Forget == cache' = {} /\ ttl' = 0

\* One tick: the cached list expires, the lists that were ever active age.
Tick ==
    /\ \A g \in Gateways : match[g] = "setex" => waited[g] < MaxStall
    /\ waited' = [g \in Gateways |->
                    IF match[g] = "setex" THEN waited[g] + 1 ELSE waited[g]]
    /\ IF ttl > 1 THEN ttl' = ttl - 1 /\ UNCHANGED cache ELSE Forget
    /\ age' = [L \in Lists |-> IF L = Active THEN 0
                               ELSE IF age[L] < AgeCap THEN age[L] + 1
                               ELSE AgeCap]
    /\ UNCHANGED <<table, match, list, editing>>

\* A statement and its commit: r has the status s from now on.
Commit(r, s) ==
    /\ table' = [table EXCEPT ![r] = s]
    /\ age' = [age EXCEPT ![Active'] = 0]

-----------------------------------------------------------------------------
\* RuleRepository.match, on the event loop.

MatchStart(g) ==
    /\ match[g] = "idle"
    /\ match' = [match EXCEPT ![g] = "get"]
    /\ UNCHANGED <<table, cache, ttl, list, waited, editing, age>>

\* _load_from_cache: a hit is matched at once; an empty list is a hit too.
Get(g) ==
    /\ match[g] = "get"
    /\ IF Cached
          THEN /\ list' = [list EXCEPT ![g] = cache]
               /\ match' = [match EXCEPT ![g] = "idle"]
          ELSE /\ match' = [match EXCEPT ![g] = "select"]
               /\ UNCHANGED list
    /\ UNCHANGED <<table, cache, ttl, waited, editing, age>>

\* Mutated form of Selected: the filter on "active" dropped.
SelectedAll == {r \in Rules : table[r] \in {"active", "inactive"}}

\* The rows of the query.
Selected == Active

\* _load_into_cache: SELECT the active rules ...
Select(g) ==
    /\ match[g] = "select"
    /\ list' = [list EXCEPT ![g] = Selected]
    /\ waited' = [waited EXCEPT ![g] = 0]
    /\ match' = [match EXCEPT ![g] = "setex"]
    /\ UNCHANGED <<table, cache, ttl, editing, age>>

\* Mutated form of NewTTL: the expiry in a wrong unit.
NewTTLLong == 2 * CacheTTL

NewTTL == CacheTTL

\* ... and cache them for _CACHE_TTL, whatever has been committed since.
Setex(g) ==
    /\ match[g] = "setex"
    /\ cache' = list[g]
    /\ ttl' = NewTTL
    /\ match' = [match EXCEPT ![g] = "idle"]
    /\ UNCHANGED <<table, list, waited, editing, age>>

\* A Redis error or a crash ends the match.
MatchFails(g) ==
    /\ Faults # {}
    /\ match[g] # "idle"
    /\ match' = [match EXCEPT ![g] = "idle"]
    /\ UNCHANGED <<table, cache, ttl, list, waited, editing, age>>

-----------------------------------------------------------------------------
\* The /rules handlers.

Then(e, next) == edit' = [edit EXCEPT ![e] = next]

\* POST /rules: INSERT.  New rules are active; an id is used once.
Create(e, r) ==
    /\ edit[e] = "idle"
    /\ table[r] = "future"
    /\ Commit(r, "active")
    /\ target' = [target EXCEPT ![e] = r]
    /\ Then(e, "refresh")
    /\ UNCHANGED <<cache, ttl, matching, turnOn>>

\* db.refresh(rule): raises when the rule has been deleted meanwhile, and
\* then the cache is not invalidated.
Refresh(e) ==
    /\ edit[e] = "refresh"
    /\ Then(e, IF table[target[e]] = "deleted" THEN "idle" ELSE "invalidate")
    /\ UNCHANGED <<table, cache, ttl, matching, target, turnOn, age>>

\* PATCH /rules/{id}/toggle and DELETE /rules/{id}: get_by_id, or 404.
Find(e, r) ==
    /\ edit[e] = "idle"
    /\ table[r] \in {"active", "inactive"}
    /\ target' = [target EXCEPT ![e] = r]
    /\ \/ Then(e, "toggle") /\ turnOn' = [turnOn EXCEPT ![e] = table[r] # "active"]
       \/ Then(e, "delete") /\ UNCHANGED turnOn
    /\ UNCHANGED <<table, cache, ttl, matching, age>>

\* Mutated form of Missing: an upsert instead of the UPDATE.
MissingNever(r) == FALSE

\* The row an UPDATE is for is not there any more.
Missing(r) == table[r] = "deleted"

\* set_active: UPDATE with the value read before; a row that is gone makes
\* the flush raise (StaleDataError) and the handler end with 500.
Toggle(e) ==
    /\ edit[e] = "toggle"
    /\ IF Missing(target[e])
          THEN Then(e, "idle") /\ UNCHANGED <<table, age>>
          ELSE /\ Commit(target[e], IF turnOn[e] THEN "active" ELSE "inactive")
               /\ Then(e, "invalidate")
    /\ UNCHANGED <<cache, ttl, matching, target, turnOn>>

\* delete: DELETE; that it finds no row is only a warning.
Delete(e) ==
    /\ edit[e] = "delete"
    /\ Commit(target[e], "deleted")
    /\ Then(e, "invalidate")
    /\ UNCHANGED <<cache, ttl, matching, target, turnOn>>

\* _invalidate_cache: DEL; what it raises is logged and forgotten.
Invalidate(e) ==
    /\ edit[e] = "invalidate"
    /\ \/ Forget
       \/ "redis" \in Faults /\ UNCHANGED <<cache, ttl>>
    /\ Then(e, "idle")
    /\ UNCHANGED <<table, matching, target, turnOn, age>>

\* The process dies between the commit and the DEL.
EditorDies(e) ==
    /\ "crash" \in Faults
    /\ edit[e] # "idle"
    /\ Then(e, "idle")
    /\ UNCHANGED <<table, cache, ttl, matching, target, turnOn, age>>

Match(g) == MatchStart(g) \/ Get(g) \/ Select(g) \/ Setex(g)
Finish(e) == Refresh(e) \/ Toggle(e) \/ Delete(e) \/ Invalidate(e)
Edit(e) == Finish(e) \/ EditorDies(e) \/ \E r \in Rules : Create(e, r) \/ Find(e, r)

Next ==
    \/ Tick
    \/ \E g \in Gateways : Match(g) \/ MatchFails(g)
    \/ \E e \in Editors : Edit(e)

Spec == Init /\ [][Next]_vars

\* Time passes, a match that runs on the event loop runs to its end, a
\* handler that has a thread does too; nobody has to start one.
Fairness ==
    /\ WF_vars(Tick)
    /\ \A g \in Gateways : WF_vars(Get(g) \/ Select(g) \/ Setex(g))
    /\ \A e \in Editors : WF_vars(Finish(e))

FairSpec == Spec /\ Fairness

-----------------------------------------------------------------------------
\* Properties.

\* However fills race with commits, and whatever invalidations are lost, a
\* cached list was the active list at most _CACHE_TTL and one stall ago: no
\* match enforces a rule switched off longer ago than that.
CacheIsRecent == Cached => age[cache] <= Oldest

\* Once nobody edits the rules any more, the cache ends up with the active
\* rules, or without a list, and stays so.
ChangesTakeEffect ==
    <>[](\A e \in Editors : edit[e] = "idle") => <>[](Cached => cache = Active)

\* A rule that was deleted never comes back: a toggle that lost its race against
\* a delete is refused.
DeletedStaysDeleted ==
    [][\A r \in Rules : table[r] = "deleted" => table'[r] = "deleted"]_vars

-----------------------------------------------------------------------------
\* Why the cached list is recent: its age, and that of a list about to be
\* cached, is bounded by the time that has passed since the SELECT.

InHand == \A g \in Gateways : match[g] = "setex" => age[list[g]] <= waited[g]

InCache == Cached => age[cache] <= MaxStall + (CacheTTL - ttl)

IInv ==
    /\ TypeOK
    /\ age[Active] = 0
    /\ InHand
    /\ InCache
=============================================================================
