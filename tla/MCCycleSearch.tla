--------------------------- MODULE MCCycleSearch ---------------------------
(* A finite instance of CycleSearch for TLC. *)
EXTENDS CycleSearch, TLC

CONSTANTS n1, n2, n3

Symmetry == Permutations({n1, n2, n3})
=============================================================================
