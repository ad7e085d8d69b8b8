-------------------------- MODULE MCApprovalLocks --------------------------
(* Finite instances of ApprovalLocks for TLC. *)
EXTENDS ApprovalLocks, TLC

CONSTANTS a1, a2, x1, x2, x3

Symmetry == Permutations({a1, a2}) \cup Permutations({x1, x2, x3})
=============================================================================
