----------------------------- MODULE TaskGraph -----------------------------
(***************************************************************************)
(* The dependency graph of a board: what the request handlers ask about it *)
(* (TaskBoard) and what the depth-first search decides (CycleSearch).      *)
(***************************************************************************)

CONSTANT Task   \* task ids of the board

(* A dependency graph has a cycle iff in some nonempty set of tasks every   *)
(* task depends on a task of the set.                                       *)
Acyclic(E) ==
  \A S \in SUBSET Task : S # {} => \E x \in S : \A y \in S : <<x, y>> \notin E
=============================================================================
