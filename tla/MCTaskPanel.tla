---------------------------- MODULE MCTaskPanel -----------------------------
(* Finite instances of TaskPanel for TLC. *)
EXTENDS TaskPanel, TLC

CONSTANTS a, b, c0, c1, r1, r2

Symmetry == Permutations({a, b}) \cup Permutations({r1, r2})

(* Behaviours are followed up to the second kind of late answer: behind it  *)
(* nothing is claimed of the comments.                                      *)
OneIncident == \A i, j \in 1..3 : i # j => ~(history[i] /\ history[j])
=============================================================================
