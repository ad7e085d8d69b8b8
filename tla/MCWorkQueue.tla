---------------------------- MODULE MCWorkQueue ----------------------------
(* Finite instances of WorkQueue for TLC. *)
EXTENDS WorkQueue

CONSTANTS p1, p2, w1, w2

Symmetry == Permutations({p1, p2}) \cup Permutations({w1, w2})
=============================================================================
