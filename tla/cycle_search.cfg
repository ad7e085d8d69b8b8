SPECIFICATION SearchSpec
CONSTANTS
  n1 = n1  n2 = n2  n3 = n3
  Task = {n1, n2, n3}
SYMMETRY Symmetry
INVARIANTS SearchInv AnswersRightly
CHECK_DEADLOCK FALSE
