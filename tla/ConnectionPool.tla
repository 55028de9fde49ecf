---------------------------- MODULE ConnectionPool ----------------------------
(***************************************************************************)
(* The engine's connection pool in one process, and everyone who takes a   *)
(* connection from it: gateway requests that miss the rules' cache, the    *)
(* dashboard page and the log writes, which wait for a connection on the   *)
(* event loop and so stop it; and the handlers that FastAPI runs in        *)
(* threads.  A session keeps its connection until get_db closes it, and    *)
(* that is for the loop to start.                                          *)
(***************************************************************************)
EXTENDS Integers, FiniteSets

CONSTANTS
    Gateways,   \* slots for requests to /proxy
    Pages,      \* slots for requests to the page at /
    Threads,    \* slots for requests to /rules, /dashboard and /logs
    Writer,     \* the session of the log write that is under way
    NoOne,      \* no log write is
    Size,       \* pool_size and max_overflow together
    MaxLosses   \* how far the model counts the times the cached rules are missing

Handlers == Gateways \cup Pages \cup Threads
OnTheLoop == Gateways \cup Pages
Sessions == Handlers \cup {Writer}

ASSUME ConstantsAssumption ==
    /\ IsFiniteSet(Gateways) /\ IsFiniteSet(Pages) /\ IsFiniteSet(Threads)
    /\ Gateways \cap Pages = {} /\ OnTheLoop \cap Threads = {}
    /\ Writer \notin Handlers /\ NoOne \notin Gateways
    /\ Size \in Nat \ {0}
    /\ MaxLosses \in Nat \ {0}

VARIABLES
    pc,        \* pc[h]: where the handler in slot h stands
    held,      \* the sessions that have a connection
    writes,    \* the gateway requests whose log write is scheduled or under way
    writing,   \* the one whose write is under way
    cached,    \* are the rules in Redis?
    losses     \* history: how often they were missing, or could not be put there,
               \*   since no gateway request had a connection

vars == <<pc, held, writes, writing, cached, losses>>

\* "checkout" and "refresh" wait for a connection; at "returned" the handler has
\* its result and at "closing" a thread closes the session.
Places == {"idle", "checkout", "upstream", "work", "refresh", "returned", "closing"}

Missing == IF cached THEN 0 ELSE 1

TypeOK ==
    /\ pc \in [Handlers -> Places]
    /\ held \subseteq Sessions
    /\ Cardinality(held) <= Size
    /\ writes \subseteq Gateways
    /\ writing \in writes \cup {NoOne}
    /\ cached \in BOOLEAN
    /\ losses \in 0..MaxLosses

Init ==
    /\ pc = [h \in Handlers |-> "idle"]
    /\ held = {}
    /\ writes = {}
    /\ writing = NoOne
    /\ cached \in BOOLEAN
    /\ losses = Missing

-----------------------------------------------------------------------------
\* The loop and the pool.

\* Whoever waits for a connection on the loop keeps it.
LoopFree == writing = NoOne /\ \A h \in OnTheLoop : pc[h] # "checkout"

Goto(h, place) == pc' = [pc EXCEPT ![h] = place]

Available == Cardinality(held) < Size

\* Mutated form of Expires: a pool that waits without a timeout.
ExpiresNever == FALSE

\* pool_timeout: a wait ends when it has lasted too long.
Expires == ~Available

\* A handler's wait ends in an exception, hence in a bare 500.
Timeout(h) ==
    /\ pc[h] \in {"checkout", "refresh"}
    /\ Expires
    /\ Goto(h, "returned")
    /\ UNCHANGED <<held, writes, writing, cached, losses>>

-----------------------------------------------------------------------------
\* A request to /proxy.

\* Expiry of the cached rules, or an editor's invalidation.
Lose ==
    /\ cached /\ losses < MaxLosses
    /\ cached' = FALSE
    /\ losses' = losses + 1
    /\ UNCHANGED <<pc, held, writes, writing>>

\* The handler ends with an event, whose log write is scheduled, or by raising.
Finish(g) ==
    /\ Goto(g, "returned")
    /\ writes' = writes \cup {g} \/ UNCHANGED writes

\* The steps that follow match: an early answer, or on to the upstream.
Proceed(g) == Finish(g) \/ (Goto(g, "upstream") /\ UNCHANGED writes)

\* A hit, a miss, or a Redis error.
Arrive(g) ==
    /\ pc[g] = "idle" /\ g \notin writes
    /\ LoopFree
    /\ \/ cached /\ Proceed(g)
       \/ ~cached /\ Goto(g, "checkout") /\ UNCHANGED writes
       \/ Goto(g, "returned") /\ UNCHANGED writes
    /\ UNCHANGED <<held, writing, cached, losses>>

\* Mutated form of Filled: _load_into_cache without its SETEX.
FilledNot == cached

Filled == TRUE

\* The missing rules are read from the database, and put into Redis unless that fails.
Load(g) ==
    /\ pc[g] = "checkout"
    /\ Available
    /\ held' = held \cup {g}
    /\ \/ cached' = Filled /\ Proceed(g) /\ UNCHANGED losses
       \/ /\ losses < MaxLosses
          /\ losses' = losses + 1
          /\ Goto(g, "returned")
          /\ UNCHANGED <<cached, writes>>
    /\ UNCHANGED writing

\* The upstream answers or fails; the connection has been kept all the while.
UpstreamAnswers(g) ==
    /\ pc[g] = "upstream"
    /\ LoopFree
    /\ Finish(g)
    /\ UNCHANGED <<held, writing, cached, losses>>

-----------------------------------------------------------------------------
\* LogService._write: a session of its own, all of it on the loop.

WriteStart(g) ==
    /\ g \in writes
    /\ LoopFree
    /\ writing' = g
    /\ UNCHANGED <<pc, held, writes, cached, losses>>

WriteCheckout ==
    /\ writing # NoOne /\ Writer \notin held
    /\ Available
    /\ held' = held \cup {Writer}
    /\ UNCHANGED <<pc, writes, writing, cached, losses>>

\* The row is not written; the error goes to the console.
WriteTimeout ==
    /\ writing # NoOne /\ Writer \notin held
    /\ Expires
    /\ writes' = writes \ {writing}
    /\ writing' = NoOne
    /\ UNCHANGED <<pc, held, cached, losses>>

\* Mutated form of AfterWrite: the session is not closed.
AfterWriteOpen == held

AfterWrite == held \ {Writer}

\* INSERT and COMMIT, or what they raise; then the session is closed.
WriteEnd ==
    /\ writing # NoOne /\ Writer \in held
    /\ held' = AfterWrite
    /\ writes' = writes \ {writing}
    /\ writing' = NoOne
    /\ UNCHANGED <<pc, cached, losses>>

-----------------------------------------------------------------------------
\* The page at /, whose SELECTs run on the loop, and the handlers in threads.

Visit(d) ==
    /\ pc[d] = "idle"
    /\ LoopFree
    /\ Goto(d, "checkout")
    /\ UNCHANGED <<held, writes, writing, cached, losses>>

Render(d) ==
    /\ pc[d] = "checkout"
    /\ Available
    /\ held' = held \cup {d}
    /\ Goto(d, "returned")
    /\ UNCHANGED <<writes, writing, cached, losses>>

\* The first statement of the session, and one that follows a COMMIT.
Checkout(t) ==
    /\ pc[t] \in {"checkout", "refresh"}
    /\ Available
    /\ held' = held \cup {t}
    /\ Goto(t, IF pc[t] = "checkout" THEN "work" ELSE "returned")
    /\ UNCHANGED <<writes, writing, cached, losses>>

\* A reader keeps its connection; a COMMIT gives it back, and all but a DELETE
\* read the row again.
Work(t) ==
    /\ pc[t] = "work"
    /\ \/ Goto(t, "returned") /\ UNCHANGED held
       \/ held' = held \ {t} /\ (Goto(t, "refresh") \/ Goto(t, "returned"))
    /\ UNCHANGED <<writes, writing, cached, losses>>

-----------------------------------------------------------------------------
\* The exit of get_db: the loop hands db.close() to a thread.

Dispatch(h) ==
    /\ pc[h] = "returned"
    /\ LoopFree
    /\ Goto(h, "closing")
    /\ UNCHANGED <<held, writes, writing, cached, losses>>

Close(h) ==
    /\ pc[h] = "closing"
    /\ held' = held \ {h}
    /\ Goto(h, "idle")
    /\ losses' = IF held' \cap Gateways = {} THEN Missing ELSE losses
    /\ UNCHANGED <<writes, writing, cached>>

Write == WriteCheckout \/ WriteTimeout \/ WriteEnd

\* What waits for its turn on the loop, and what does not.
Turn(h) == Dispatch(h) \/ (h \in Gateways /\ UpstreamAnswers(h))

Runs(h) ==
    \/ h \in Gateways /\ Load(h)
    \/ h \in Pages /\ Render(h)
    \/ h \in Threads /\ (Checkout(h) \/ Work(h))
    \/ Timeout(h) \/ Close(h)

Next ==
    \/ Lose \/ Write
    \/ \E g \in Gateways : Arrive(g) \/ WriteStart(g)
    \/ \E h \in Pages \cup Threads : Visit(h)
    \/ \E h \in Handlers : Turn(h) \/ Runs(h)

Spec == Init /\ [][Next]_vars

\* Threads run, a wait for a connection ends one way or the other, and the loop,
\* when it is free, passes over no callback, answer or task for ever.
Fairness ==
    /\ WF_vars(Write)
    /\ \A g \in Gateways : SF_vars(WriteStart(g))
    /\ \A h \in Handlers : SF_vars(Turn(h)) /\ WF_vars(Runs(h))

FairSpec == Spec /\ Fairness

-----------------------------------------------------------------------------
\* Properties.

\* A connection is held only by a request that is still there or by the write
\* that is under way: no path, errors and timeouts included, leaks one.
NoLeak ==
    \A s \in held : IF s = Writer THEN writing # NoOne ELSE pc[s] # "idle"

\* A gateway request keeps a connection through the whole exchange with its
\* upstream only if it found the rules missing, and each time they are missing
\* only one request does: the one that puts them back.  Between two moments at
\* which the gateway has no connection it never has more than such times.
MissesNeedLosses == Cardinality(held \cap Gateways) <= losses

\* Nobody waits until the pool's timeout, and no log write is lost to it, unless
\* the caches missed lately and the other handlers together are as many as the
\* connections.
Waits(h) == pc[h] \in {"checkout", "refresh"}
SomebodyWaits ==
    (\E h \in Handlers : Waits(h)) \/ (writing # NoOne /\ Writer \notin held)
TimeoutsNeedCrowd ==
    SomebodyWaits /\ ~Available =>
        losses + Cardinality(Pages) + Cardinality(Threads) >= Size

\* The pool may be empty with everyone who holds a connection waiting for the
\* loop, and the loop waiting for a connection; every request and every log
\* write ends all the same.
Busy(h) == pc[h] # "idle" \/ h \in writes
EveryoneEnds == \A h \in Handlers : Busy(h) ~> ~Busy(h)

-----------------------------------------------------------------------------
\* Why the missed caches bound what the gateway holds: the invariant that every
\* step preserves.

\* Only one waits on the loop at a time, and only threads come to a COMMIT.
OneWaits ==
    /\ \A h, k \in OnTheLoop : pc[h] = "checkout" /\ pc[k] = "checkout" => h = k
    /\ writing # NoOne => \A h \in OnTheLoop : pc[h] # "checkout"
    /\ \A h \in OnTheLoop : pc[h] \notin {"work", "refresh"}

\* Whoever waits has nothing; the write that is over has given back what it had.
EmptyHanded ==
    /\ \A h \in Handlers : pc[h] \in {"idle", "checkout", "refresh"} => h \notin held
    /\ Writer \in held => writing # NoOne

\* Nobody puts the rules back while a request waits to do it.
StillMissing == \A g \in Gateways : pc[g] = "checkout" => ~cached

\* The loss that no request has made good yet counts too.
LossesCover ==
    Cardinality(held \cap Gateways) + Missing <= losses

IInv ==
    /\ TypeOK
    /\ OneWaits
    /\ EmptyHanded
    /\ StillMissing
    /\ LossesCover
=============================================================================
