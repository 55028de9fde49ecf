----------------------------- MODULE MCRequestLog -----------------------------
(***************************************************************************)
(* Small instances of RequestLog.  Nothing tells two rows apart.           *)
(***************************************************************************)
EXTENDS RequestLog, TLC

Alike == Permutations(Rows)
=============================================================================
