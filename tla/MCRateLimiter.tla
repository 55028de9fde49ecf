---------------------------- MODULE MCRateLimiter ----------------------------
(***************************************************************************)
(* Small instances of RateLimiter.  Limits and windows of the rules are    *)
(* given here because a .cfg cannot write a function; the rest is in each  *)
(* .cfg.  MaxClock bounds every run: it lets the window slide past its own *)
(* length and the key expire after the last allowed check.                 *)
(***************************************************************************)
EXTENDS RateLimiter

CONSTANTS p1, p2, short, long, MaxClock

\* short: 2 requests a second.  long: 3 requests in two seconds.
RuleLimit == [r \in Rules |-> IF r = short THEN 2 ELSE 3]
RuleWindow == [r \in Rules |-> IF r = short THEN 1 ELSE 2]

OneRequest == [r \in Rules |-> 1]

ClockBound == clock <= MaxClock
=============================================================================
