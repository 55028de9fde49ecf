-------------------------- MODULE MCBreakerMethods --------------------------
(***************************************************************************)
(* A small instance of BreakerMethods: one process serves every request.   *)
(***************************************************************************)
EXTENDS BreakerMethods

CONSTANT p1

OneHome == [q \in Requests |-> p1]
=============================================================================
