SPECIFICATION Spec
CONSTANTS
  a = a  b = b  c0 = c0  c1 = c1  r1 = r1  r2 = r2
  None = none
  Idle = idle
  Task = {a, b}
  Comment = {c0, c1}
  Old = {c0}
  PageSize = 1
  Request = {r1, r2}
CONSTRAINT OneIncident
SYMMETRY Symmetry
INVARIANTS TypeOK CommentsBelong CommentsComplete PanelMatchesUrl LoadingEnds
PROPERTY OpensOnRequest
CHECK_DEADLOCK FALSE
