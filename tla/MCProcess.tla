----------------------------- MODULE MCProcess -----------------------------
(* Process on a small instance.  The ids of regions are interchangeable.   *)
EXTENDS Process, TLC

Symmetry == Permutations(Rgids)

\* A number that is taken for area 0, and an area there is not.
AreaNumbers == {-1, 1}
=============================================================================
