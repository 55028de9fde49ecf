----------------------------- MODULE RateLimiter -----------------------------
(***************************************************************************)
(* SlidingWindowRateLimiter.check, one action per Redis round trip.        *)
(*                                                                         *)
(* The module follows ONE Redis key "rg:rl:<client>": the limiter derives  *)
(* the key from the client only, so every rule that applies to a client    *)
(* works on the same sorted set.  Time is a count of clock ticks, Second   *)
(* of them to the second, because the code mixes float time stamps with    *)
(* whole-second quantities (EXPIRE, reset_in).                             *)
(***************************************************************************)
EXTENDS Integers, FiniteSets

CONSTANTS
    Procs,        \* gateway processes that share the Redis server
    Rules,        \* the rules whose checks meet on this key
    Limit,        \* Limit[r]: rule.limit
    Window,       \* Window[r]: rule.window_seconds
    Second,       \* clock ticks in a second
    MaxStall,     \* ticks within which a started check has finished
    CoarseClock,  \* TRUE: two readings of time.time() may return one value
    Failures      \* TRUE: a Redis call may raise, or the process may die

ASSUME ConstantsAssumption ==
    /\ Limit \in [Rules -> Nat \ {0}]     \* RuleCreate: limit >= 1
    /\ Window \in [Rules -> Nat \ {0}]    \* RuleCreate: window_seconds >= 1
    /\ Second \in Nat \ {0}
    /\ MaxStall \in Nat
    /\ CoarseClock \in BOOLEAN
    /\ Failures \in BOOLEAN

VARIABLES
    clock,     \* the time of day, in ticks
    zset,      \* the sorted set: its members are the time stamps themselves
    ttl,       \* the tick at which Redis drops the key, or NoTTL
    pc,        \* pc[p]: the next Redis call of the check p is executing
    now,       \* now[p]: what that check read from time.time()
    rule,      \* rule[p]: the rule that check applies
    admitted   \* history: admitted[r] is the stamps of the allowed checks of r

vars == <<clock, zset, ttl, pc, now, rule, admitted>>

NoTTL == -1                       \* what Redis itself reports for "no expiry"
Span(r) == Window[r] * Second     \* window_seconds, in ticks

TypeOK ==
    /\ clock \in Nat
    /\ zset \in SUBSET Nat
    /\ ttl \in Nat \cup {NoTTL}
    /\ pc \in [Procs -> {"idle", "prune", "count", "add", "expire", "oldest"}]
    /\ now \in [Procs -> Nat]
    /\ rule \in [Procs -> Rules]
    /\ admitted \in [Rules -> SUBSET Nat]

Init ==
    /\ clock = 0
    /\ zset = {}
    /\ ttl = NoTTL
    /\ pc = [p \in Procs |-> "idle"]
    /\ now = [p \in Procs |-> 0]
    /\ rule \in [Procs -> Rules]
    /\ admitted = [r \in Rules |-> {}]

-----------------------------------------------------------------------------
\* Redis and the clock.

\* A sorted set that becomes empty is a deleted key: its expiry goes with it.
Store(members) ==
    /\ zset' = members
    /\ ttl' = IF members = {} THEN NoTTL ELSE ttl

\* One tick.  Redis drops the key when its expiry is reached.
Advance ==
    /\ \A p \in Procs : pc[p] # "idle" => clock + 1 - now[p] < MaxStall
    /\ clock' = clock + 1
    /\ IF ttl # NoTTL /\ ttl <= clock + 1
          THEN zset' = {} /\ ttl' = NoTTL
          ELSE UNCHANGED <<zset, ttl>>

Tick ==
    /\ Advance
    /\ UNCHANGED <<pc, now, rule, admitted>>

-----------------------------------------------------------------------------
\* check(key, limit, window_seconds).

Goto(p, label) == pc' = [pc EXCEPT ![p] = label]

\* now = time.time().  A fine clock never returns a value twice.
ReadClock(p, r) ==
    /\ pc[p] = "idle"
    /\ now' = [now EXCEPT ![p] = clock]
    /\ rule' = [rule EXCEPT ![p] = r]
    /\ Goto(p, "prune")
    /\ \/ Advance
       \/ CoarseClock /\ UNCHANGED <<clock, zset, ttl>>
    /\ UNCHANGED admitted

\* Mutated form of InWindow: the window taken a second too short.
InWindowShort(p) == {s \in zset : s > now[p] - Span(rule[p]) + Second}

\* What zremrangebyscore(key, "-inf", now - window_seconds) leaves.
InWindow(p) == {s \in zset : s > now[p] - Span(rule[p])}

\* The MULTI/EXEC pipeline; the ZCARD it also queues is thrown away.
Prune(p) ==
    /\ pc[p] = "prune"
    /\ Store(InWindow(p))
    /\ Goto(p, "count")
    /\ UNCHANGED <<clock, now, rule, admitted>>

\* Mutated forms of HasRoom: off by one in either direction.
HasRoomInclusive(p) == Cardinality(zset) <= Limit[rule[p]]
HasRoomLate(p) == Cardinality(zset) < Limit[rule[p]] - 1

\* current_count < limit, on the ZCARD of a second round trip.
HasRoom(p) == Cardinality(zset) < Limit[rule[p]]

Count(p) ==
    /\ pc[p] = "count"
    /\ Goto(p, IF HasRoom(p) THEN "add" ELSE "oldest")
    /\ UNCHANGED <<clock, zset, ttl, now, rule, admitted>>

\* Mutated form of Stamp: the start of the window.
StampStart(p) == now[p] - Span(rule[p])

\* The member zadd adds, which is its score.
Stamp(p) == now[p]

\* zadd(key, {str(now): now}).
Add(p) ==
    /\ pc[p] = "add"
    /\ zset' = zset \cup {Stamp(p)}
    /\ Goto(p, "expire")
    /\ UNCHANGED <<clock, ttl, now, rule, admitted>>

\* Mutated form of Expiry: no slack on top of the window.
ExpiryShort(r) == Span(r)

\* window_seconds + 1, in ticks: EXPIRE counts it from the present time.
Expiry(r) == Span(r) + Second

\* expire(key, window_seconds + 1), a no-op on a key that is gone; allowed.
Expire(p) ==
    /\ pc[p] = "expire"
    /\ ttl' = IF zset = {} THEN NoTTL ELSE clock + Expiry(rule[p])
    /\ admitted' = [admitted EXCEPT ![rule[p]] = @ \cup {now[p]}]
    /\ Goto(p, "idle")
    /\ UNCHANGED <<clock, zset, now, rule>>

\* Ticks until s leaves the window of the check p makes.
Remaining(p, s) == Span(rule[p]) - (now[p] - s)

\* Mutated form of WholeSeconds: rounded up.
WholeSecondsUp(t) == IF t > 0 THEN (t + Second - 1) \div Second ELSE 0

\* max(int(t), 0), in seconds.
WholeSeconds(t) == IF t > 0 THEN t \div Second ELSE 0

\* reset_in of a rejection, which the client gets as Retry-After.
Oldest == CHOOSE s \in zset : \A t \in zset : s <= t
ResetIn(p) == IF zset = {} THEN Window[rule[p]] ELSE WholeSeconds(Remaining(p, Oldest))

\* zrange(key, 0, 0): read the oldest entry and answer "rejected".
Reject(p) ==
    /\ pc[p] = "oldest"
    /\ Goto(p, "idle")
    /\ UNCHANGED <<clock, zset, ttl, now, rule, admitted>>

\* A Redis call raises or the process dies: the calls after it never happen.
Fail(p) ==
    /\ Failures
    /\ pc[p] # "idle"
    /\ Goto(p, "idle")
    /\ UNCHANGED <<clock, zset, ttl, now, rule, admitted>>

Check(p) == Prune(p) \/ Count(p) \/ Add(p) \/ Expire(p) \/ Reject(p) \/ Fail(p)

Next ==
    \/ Tick
    \/ \E p \in Procs : Check(p) \/ \E r \in Rules : ReadClock(p, r)

Spec == Init /\ [][Next]_vars

-----------------------------------------------------------------------------
\* Properties.

Slack == 2 * (Cardinality(Procs) - 1)

\* At most Limit[r] checks of r are allowed in any stretch of Span(r) ticks
\* (it is enough to look at the stretches that end in an allowed check).
Bounded(r) ==
    \A t \in admitted[r] :
        Cardinality({s \in admitted[r] : t - Span(r) < s /\ s <= t})
            <= Limit[r] + Slack

Shortest(r) == \A q \in Rules : Span(r) <= Span(q)

\* One process enforces the limit of every rule that no other rule on the key
\* undercuts exactly.  Several processes, whose rules share their window,
\* overshoot it by at most two checks for every process beyond the first: one
\* in a race between ZCARD and ZADD, one by a pruning that came too early.
WindowBound == \A r \in Rules : Shortest(r) => Bounded(r)

\* README, request flow: "429 if over limit", for every rule on the key, whatever
\* other rules prune there.
EveryRuleBounded == \A r \in Rules : Bounded(r)

\* An allowed check of a shortest rule is still in the sorted set while it is
\* inside the window: neither pruning nor the expiry of the key forgets it.
\* (Among several processes only if the rules share their window: the key may
\* otherwise live on under the expiry of an entry that a longer rule left and a
\* shorter one pruned, and expire between ZADD and EXPIRE.)
AdmittedRemembered ==
    \A r \in Rules : Shortest(r) =>
        \A s \in admitted[r] : s > clock - Span(r) => s \in zset

\* A rejection is never spurious: the check that is rejected has as many
\* entries as its limit inside its own window.
Rejects(p) == pc[p] = "count" /\ pc'[p] = "oldest"
RejectsOnlyWhenFull ==
    [][\A p \in Procs : Rejects(p) =>
          Cardinality(InWindow(p)) >= Limit[rule[p]]]_vars

\* A rejected client is sent away for no longer than its window, although other
\* processes add and prune between the ZCARD and the ZRANGE; and a second more
\* than it was told is enough for the entry it waits for to leave the window.
Rejected(p) == pc[p] = "oldest" /\ pc'[p] = "idle"
RetryAfterHonest ==
    [][\A p \in Procs : Rejected(p) =>
          /\ ResetIn(p) <= Window[rule[p]]
          /\ zset # {} => (ResetIn(p) + 1) * Second > Remaining(p, Oldest)]_vars

\* In one process the four calls are as good as one: every behaviour is one of a
\* limiter that decides atomically from all the checks it ever allowed, although
\* the sorted set is pruned by every rule on the key and expires as a whole.
Only == CHOOSE p \in Procs : TRUE
Verdict(label) ==
    CASE label = "idle" -> "none"
      [] label \in {"prune", "count"} -> "due"
      [] label \in {"add", "expire"} -> "allowed"
      [] label = "oldest" -> "rejected"

Ideal == INSTANCE SlidingWindow WITH
    Exact <- {r \in Rules : Shortest(r)},
    now <- now[Only], rule <- rule[Only], verdict <- Verdict(pc[Only])
ImplementsSlidingWindow == Ideal!Spec

-----------------------------------------------------------------------------
\* Why the bound holds for one process: the strengthening of WindowBound that
\* every step preserves.  AsDeployed is what it needs of the constants: one
\* process, a clock that moves between readings, Redis calls that succeed,
\* and checks shorter than the second of slack in the expiry.

AsDeployed ==
    /\ \E p : Procs = {p}
    /\ ~CoarseClock
    /\ ~Failures
    /\ MaxStall <= Second

\* Every stamp is in the past of the clock and of the check under way, but
\* the one that check has just added.
StampsArePast ==
    /\ \A s \in zset : s < clock
    /\ \A r \in Rules : \A s \in admitted[r] : s < clock
    /\ \A p \in Procs : pc[p] # "idle" =>
          /\ now[p] < clock /\ clock <= now[p] + Second
          /\ \A s \in zset : s < now[p] \/ (pc[p] = "expire" /\ s = now[p])
          /\ \A r \in Rules : \A s \in admitted[r] : s < now[p]

FiniteHistory ==
    /\ IsFiniteSet(zset)
    /\ \A r \in Rules : IsFiniteSet(admitted[r])

Pending(s) == \E p \in Procs : pc[p] = "expire" /\ s = now[p]

\* Whatever is counted was, or is about to be, allowed.
OnlyAdmitted == \A s \in zset : Pending(s) \/ \E r \in Rules : s \in admitted[r]

\* What a check counts is inside its window.
JustPruned ==
    \A p \in Procs : pc[p] \in {"count", "add"} =>
        \A s \in zset : s > now[p] - Span(rule[p])

\* The key outlives each of its entries' windows by more than a second.
KeyOutlives(r) ==
    \A s \in zset : Pending(s) \/ ttl = NoTTL \/ ttl > s + Span(r) + Second

\* The end of the latest window anybody can ask about.
Present(p) == IF pc[p] = "idle" THEN clock ELSE now[p]

StillStored(r) ==
    \A p \in Procs : \A s \in admitted[r] : s > Present(p) - Span(r) => s \in zset

\* What a check of r knows between its steps.
Midway(p, r) ==
    /\ pc[p] = "expire" =>
          /\ now[p] \in zset
          /\ ttl = NoTTL \/ ttl > now[p] + Second
    /\ pc[p] \in {"add", "expire"} =>
          Cardinality({s \in admitted[r] : s > now[p] - Span(r)}) < Limit[r]

Enforced(r) ==
    /\ KeyOutlives(r)
    /\ StillStored(r)
    /\ \A p \in Procs : rule[p] = r => Midway(p, r)
    /\ Bounded(r)

IInv ==
    /\ TypeOK
    /\ zset = {} => ttl = NoTTL
    /\ StampsArePast
    /\ FiniteHistory
    /\ OnlyAdmitted
    /\ JustPruned
    /\ \A r \in Rules : Shortest(r) => Enforced(r)

-----------------------------------------------------------------------------
\* What every step preserves for any number of processes, whatever fails and
\* even if the clock stands still between two readings.

\* A check is over while the window it counts in lasts; it takes no more than
\* the second that a reset_in is rounded by.
WithinWindow == \A r \in Rules : 1 < Span(r) /\ MaxStall <= Span(r)
WithinSecond == 1 < Second /\ MaxStall <= Second

\* No stamp and no check under way is ahead of the clock, or far behind it.
OnTime ==
    /\ \A s \in zset : s <= clock
    /\ \A p \in Procs : pc[p] # "idle" =>
          /\ now[p] <= clock
          /\ clock <= now[p] + 1 \/ clock < now[p] + MaxStall

\* What ZCARD counts is inside the window, late additions of others included.
CountsWindow ==
    \A p \in Procs : pc[p] = "count" => \A s \in zset : s > now[p] - Span(rule[p])

RacesIInv == TypeOK /\ IsFiniteSet(zset) /\ OnTime /\ CountsWindow

\* With a fine clock a stamp is nobody else's and not in the set beforehand.
OwnStamp ==
    /\ \A s \in zset : s < clock
    /\ \A p \in Procs : pc[p] # "idle" =>
          /\ now[p] < clock
          /\ pc[p] \in {"prune", "count", "add"} => now[p] \notin zset
          /\ \A q \in Procs \ {p} : pc[q] # "idle" => now[q] # now[p]

-----------------------------------------------------------------------------
\* Why the bound holds with its slack for several processes.  AsReplicated is
\* what it needs of the constants: Redis calls that succeed, a clock and checks
\* as in AsDeployed, and rules that share their window, if there are several.

AsReplicated ==
    /\ Procs # {} /\ IsFiniteSet(Procs)
    /\ ~CoarseClock
    /\ ~Failures
    /\ MaxStall <= Second
    /\ \A r \in Rules : Shortest(r)

\* A stamp under way is its process's own: it is neither allowed yet, nor far
\* from the clock.
StampsDiffer ==
    /\ OwnStamp
    /\ \A p \in Procs : pc[p] # "idle" => clock <= now[p] + Second
    /\ \A r \in Rules : \A s \in admitted[r] :
          s < clock /\ \A p \in Procs : pc[p] # "idle" => s # now[p]

\* Between ZADD and EXPIRE a stamp is in the set, and the key outlasts at
\* least one of the checks that are about to extend its life.
Adopted ==
    /\ \A p \in Procs : pc[p] = "expire" => now[p] \in zset
    /\ (\E p \in Procs : pc[p] = "expire") =>
          \/ ttl = NoTTL
          \/ \E p \in Procs : pc[p] = "expire" /\ ttl > now[p] + Second

\* In the stretch of a window that ends in t: the stamps added to the set, and
\* the checks that may still add theirs, because they have counted already or
\* have yet to count.
Within(r, t, s) == t - Span(r) < s /\ s <= t
Granting(r, t, label) ==
    {p \in Procs : pc[p] = label /\ rule[p] = r /\ Within(r, t, now[p])}
Granted(r, t) ==
    {s \in admitted[r] : Within(r, t, s)} \cup {now[p] : p \in Granting(r, t, "expire")}
Undecided(t) == {p \in Procs : pc[p] \in {"prune", "count"} /\ now[p] <= t}

\* As long as the set holds them all, whoever counts sees them, and each process
\* can have one check in hand that counted too early.  Once a later check has
\* pruned one of them, nobody but the undecided of the other processes can add.
BoundAt(r, t) ==
    LET sure == Cardinality(Granted(r, t)) + Cardinality(Granting(r, t, "add"))
    IN  IF Granted(r, t) \subseteq zset
           THEN sure <= Limit[r] + Cardinality(Procs) - 1
           ELSE sure + Cardinality(Undecided(t)) <= Limit[r] + Slack

Overshoot(r) == \A t \in 0..clock : BoundAt(r, t)

\* What keeps the stamps in the set, and what follows for the number of them.
Lasting ==
    /\ TypeOK
    /\ zset = {} => ttl = NoTTL
    /\ FiniteHistory
    /\ StampsDiffer
    /\ JustPruned
    /\ Adopted
    /\ AdmittedRemembered
    /\ \A r \in Rules : KeyOutlives(r)

ReplicasIInv == Lasting /\ \A r \in Rules : Overshoot(r)
=============================================================================
