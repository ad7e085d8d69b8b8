SPECIFICATION Spec
CONSTANTS
  t1 = t1  t2 = t2  w1 = w1  w2 = w2  a1 = a1  a2 = a2  s1 = s1  s2 = s2
  Lead = lead
  NoOne = nobody
  Keep = keep
  NoTask = notask
  Task = {t1}
  Worker = {w1}
  Approval = {a1}
  Slot = {s1, s2}
  RuleSet <- StrictAndLead
  BoardSocket = FALSE
SYMMETRY Slots
PROPERTIES DoneNeedsApproval PendingFreezes
