-------------------------- MODULE MCCircuitBreaker --------------------------
(***************************************************************************)
(* Small instances of CircuitBreaker: who serves which request is given    *)
(* here, the rest in each .cfg.                                            *)
(***************************************************************************)
EXTENDS CircuitBreaker

CONSTANTS p1, p2, q1

\* Every request on one process; one on p1 and the others on p2.
OneHome == [q \in Requests |-> p1]
TwoHomes == [q \in Requests |-> IF q = q1 THEN p1 ELSE p2]
=============================================================================
