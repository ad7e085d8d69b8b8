SPECIFICATION Spec
CONSTANTS
  a = a  b = b
  None = none
  Item = {a, b}
  MaxClock = 3
  MaxNews = 2
  PageSize = 1
  MaxAsks = 1
INVARIANTS TypeOK NothingLost UniqueCards ChatInOrder MovesSettle
CONSTRAINT UntilRace
PROPERTY CatchesUp
CHECK_DEADLOCK FALSE
