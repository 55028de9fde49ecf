----------------------------- MODULE SlidingWindow -----------------------------
(***************************************************************************)
(* What RateLimiterBase.check promises for the rules that meet on one key: *)
(* a limiter that decides in one step, serves one check at a time and      *)
(* remembers every check it has ever allowed.  RateLimiter shows how near  *)
(* four Redis calls on a set that is pruned and expires come to it.        *)
(***************************************************************************)
EXTENDS Integers, FiniteSets

CONSTANTS
    Rules,    \* the rules whose checks meet on this key
    Limit,    \* Limit[r]: rule.limit
    Window,   \* Window[r]: rule.window_seconds
    Second,   \* clock ticks in a second
    Exact     \* the rules whose limit is kept

VARIABLES
    clock,     \* the time of day, in ticks
    now,       \* when the check under way was made
    rule,      \* the rule it applies
    verdict,   \* what is known of its RateLimitResult.allowed
    admitted   \* admitted[r]: the time stamps of all allowed checks of r

vars == <<clock, now, rule, verdict, admitted>>

Start(r) == now - Window[r] * Second

Init ==
    /\ clock = 0
    /\ now = 0
    /\ rule \in Rules
    /\ verdict = "none"
    /\ admitted = [r \in Rules |-> {}]

Tick ==
    /\ clock' = clock + 1
    /\ UNCHANGED <<now, rule, verdict, admitted>>

\* A check is made; no two are made at the same time.
Ask(r) ==
    /\ verdict = "none"
    /\ now' = clock
    /\ rule' = r
    /\ verdict' = "due"
    /\ clock' = clock + 1
    /\ UNCHANGED admitted

\* The window's allowed checks: of the rule itself, and of any rule on the key.
Own == {s \in admitted[rule] : s > Start(rule)}
Anyones == {s \in UNION {admitted[r] : r \in Rules} : s > Start(rule)}

\* "If count < limit: ... allow."
Allow ==
    /\ verdict = "due"
    /\ rule \in Exact => Cardinality(Own) < Limit[rule]
    /\ verdict' = "allowed"
    /\ UNCHANGED <<clock, now, rule, admitted>>

\* "If count >= limit: reject": the checks counted were allowed, all of them.
Reject ==
    /\ verdict = "due"
    /\ Cardinality(Anyones) >= Limit[rule]
    /\ verdict' = "rejected"
    /\ UNCHANGED <<clock, now, rule, admitted>>

\* "a rejected call must NOT consume quota"; an allowed one does.
Answer ==
    /\ \/ verdict = "allowed" /\ admitted' = [admitted EXCEPT ![rule] = @ \cup {now}]
       \/ verdict = "rejected" /\ UNCHANGED admitted
    /\ verdict' = "none"
    /\ UNCHANGED <<clock, now, rule>>

Next == Tick \/ Allow \/ Reject \/ Answer \/ \E r \in Rules : Ask(r)

Spec == Init /\ [][Next]_vars
=============================================================================
