------------------------------ MODULE MCMarks -------------------------------
(***************************************************************************)
(* Small instances of Marks.                                               *)
(***************************************************************************)
EXTENDS Marks

CONSTANTS u1, u2

\* One user has two calls and two marks, the other one of each.
MCUsers == {u1, u2}
MCMax == [u \in MCUsers |-> IF u = u1 THEN 2 ELSE 1]
=============================================================================
