SPECIFICATION Spec
CONSTANTS
  p1 = p1  p2 = p2  w1 = w1  w2 = w2
  Payload = {p1, p2}
  Worker = {w1, w2}
  MaxRetries = 1
  BatchSize = 1
  MaxFaults = 1
  IngestFaults = TRUE
  Never = never
INVARIANTS TypeOK OneLossPerFault
PROPERTIES Settles
CHECK_DEADLOCK FALSE
