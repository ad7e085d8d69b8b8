SPECIFICATION Spec
CONSTANTS
  c1 = c1  c2 = c2  c3 = c3  m1 = m1  m2 = m2
  Conn = {c1, c2, c3}
  Message = {m1, m2}
  None = none
  MaxReports = 1
  MaxFaults = 1
INVARIANTS NoDeadEntry QuietMeansOffline
SYMMETRY Symmetry
CHECK_DEADLOCK FALSE
