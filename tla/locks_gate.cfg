SPECIFICATION Spec
CONSTANTS
  a1 = a1  a2 = a2  x1 = x1  x2 = x2  x3 = x3
  Task = {1, 2}
  Approval = {a1, a2}
  Txn = {x1, x2}
  Free = free
  Nil = nil
SYMMETRY Symmetry
INVARIANTS GateInv NoWaitCycle
PROPERTIES PromiseKept
