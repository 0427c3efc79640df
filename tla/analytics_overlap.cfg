\* Aggregations that overlap, after a first one: what a dashboard counts then.
SPECIFICATION Spec
CONSTANTS
  Users = {}
  s1 = s1
  s2 = s2
  SessionIds = {s1}
  EventIds = {1}
  Batches <- MCOneBatch
  Ranges <- MCOneRange
  Cutoffs = {3}
  Kinds = {"batch", "refresh", "dashboard"}
  MaxCalls = 4
  MaxClock = 3
  HourTicks = 2
  FirstState = 0
  PageSize = 1
  None = None
INVARIANTS
  CountedOnce
CHECK_DEADLOCK FALSE
