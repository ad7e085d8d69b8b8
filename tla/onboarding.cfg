SPECIFICATION Spec
CONSTANTS
  MaxPolls = 1
  MaxMounts = 2
  MaxAsks = 3
  MaxUnasked = 1
  MaxFaults = 1
INVARIANTS TypeOK ConfirmsDraft
CONSTRAINT FewIncidents
PROPERTIES AnswersFit WaitEnds
CHECK_DEADLOCK FALSE
