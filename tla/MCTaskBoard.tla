---------------------------- MODULE MCTaskBoard ----------------------------
(* Finite instances of TaskBoard for TLC. *)
EXTENDS TaskBoard, TLC

CONSTANTS t1, t2, w1, w2, a1, a2, s1, s2

StrictRules == [approvalForDone |-> TRUE, reviewBeforeDone |-> TRUE,
                blockOnPending |-> TRUE, onlyLead |-> FALSE]
OpenRules == [approvalForDone |-> FALSE, reviewBeforeDone |-> FALSE,
              blockOnPending |-> FALSE, onlyLead |-> FALSE]
LeadRules == [StrictRules EXCEPT !.onlyLead = TRUE]

OneOpen == {OpenRules}
StrictAndLead == {StrictRules, LeadRules}

(* Approvals do not read the columns of tasks: one task at a time is given   *)
(* columns other than those of a new row, the rest stays unbounded.          *)
OneTaskMoved == Cardinality({t \in Task : row[t] # NewRow}) <= 1

(* Interchangeable ids of each safety run. *)
TasksAndApprovals == Permutations({t1, t2}) \cup Permutations({a1, a2})
Tasks == Permutations({t1, t2})
Slots == Permutations({s1, s2})
=============================================================================
