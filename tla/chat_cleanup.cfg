SPECIFICATION Spec
CONSTANTS
  s1 = s1  s2 = s2  s3 = s3  m1 = m1  k1 = k1  k2 = k2  k3 = k3
  None = none
  Socket = {s1, s2, s3}
  Message = {m1}
  Token = {k1, k2, k3}
  Expired = {k3}
  FirstToken = {k1, none}
  MaxRekeys = 1
  MaxFaults = 1
INVARIANT CleansUp
CHECK_DEADLOCK FALSE
