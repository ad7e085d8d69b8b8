SPECIFICATION Spec
CONSTANTS
  t1 = t1  t2 = t2  w1 = w1  w2 = w2  a1 = a1  a2 = a2  s1 = s1  s2 = s2
  Lead = lead
  NoOne = nobody
  Keep = keep
  NoTask = notask
  Task = {t1, t2}
  Worker = {}
  Approval = {a1, a2}
  Slot = {s1}
  RuleSet <- OneOpen
  BoardSocket = TRUE
SYMMETRY TasksAndApprovals
CONSTRAINT OneTaskMoved
INVARIANTS LinksIntact OnePendingPerTask

