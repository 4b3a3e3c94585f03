------------------------------ MODULE MCFamily ------------------------------
(***************************************************************************)
(* Small instances of Family.  Users, ids and request slots are model      *)
(* values that nothing orders, so that their permutations are symmetries.  *)
(***************************************************************************)
EXTENDS Family, TLC

Symmetry == Permutations(Users) \cup Permutations(Families)
            \cup Permutations(Invites) \cup Permutations(Reqs)

\* Bound: behaviours are followed while at most one user has been raced for or has
\* unread notifications.
FewMarked == Cardinality(raced) + Cardinality(unread) <= 1
=============================================================================
