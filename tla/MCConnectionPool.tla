-------------------------- MODULE MCConnectionPool --------------------------
(***************************************************************************)
(* Small instances of ConnectionPool: the slots and the size of the pool   *)
(* are given in each .cfg.                                                 *)
(***************************************************************************)
EXTENDS ConnectionPool
=============================================================================
