----------------------------- MODULE MCRuleCache -----------------------------
(***************************************************************************)
(* Small instances of RuleCache.  Editors and gateways are not declared    *)
(* symmetric: the runs check liveness.                                     *)
(***************************************************************************)
EXTENDS RuleCache
=============================================================================
