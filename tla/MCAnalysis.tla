---------------------------- MODULE MCAnalysis ------------------------------
(***************************************************************************)
(* Small instances of Analysis.                                            *)
(***************************************************************************)
EXTENDS Analysis

CONSTANT s1

\* The logs of a family are the same as before, or there are none.
MCSigs == [f \in Families |-> {s1}]
=============================================================================
