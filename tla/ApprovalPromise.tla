-------------------------- MODULE ApprovalPromise --------------------------
(***************************************************************************)
(* What the approval gate of a board promises, with no transactions: a     *)
(* task has at most one pending approval, and while it has one its status  *)
(* does not change ("Each task can have only one pending approval.",       *)
(* "Task status cannot be changed while a linked approval is pending.").   *)
(***************************************************************************)
CONSTANTS Task, Approval, Status

VARIABLES
  status,   \* status of each task
  pending   \* approvals that are pending on each task

vars == <<status, pending>>

Init == status \in [Task -> Status] /\ pending = [t \in Task |-> {}]

Open(a, T) ==
  /\ \A t \in T : pending[t] = {}
  /\ pending' = [t \in Task |-> IF t \in T THEN {a} ELSE pending[t]]
  /\ UNCHANGED status

Resolve(a) ==
  /\ pending' = [t \in Task |-> pending[t] \ {a}]
  /\ UNCHANGED status

Move(t, to) ==
  /\ pending[t] = {}
  /\ status' = [status EXCEPT ![t] = to]
  /\ UNCHANGED pending

Next ==
  \/ \E a \in Approval, T \in SUBSET Task : Open(a, T)
  \/ \E a \in Approval : Resolve(a)
  \/ \E t \in Task, to \in Status : Move(t, to)

Spec == Init /\ [][Next]_vars
=============================================================================
