----------------------------- MODULE MCRuleSync -----------------------------
(***************************************************************************)
(* Small instances of RuleSync.                                            *)
(***************************************************************************)
EXTENDS RuleSync
=============================================================================
