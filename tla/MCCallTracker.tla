--------------------------- MODULE MCCallTracker ----------------------------
(***************************************************************************)
(* Small instances of CallTracker.                                         *)
(***************************************************************************)
EXTENDS CallTracker, TLC

\* Numbers differ in nothing.
Symmetry == Permutations(Numbers)
=============================================================================
