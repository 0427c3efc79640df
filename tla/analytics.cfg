SPECIFICATION FairSpec
CONSTANTS
  Users = {u1}
  s1 = s1
  s2 = s2
  SessionIds = {s1, s2}
  EventIds = {1, 2}
  Batches <- MCBatches
  Ranges <- MCRanges
  Cutoffs = {2, 3}
  Kinds = {"batch", "account", "refresh", "dashboard", "paging"}
  MaxCalls = 3
  MaxClock = 3
  HourTicks = 2
  FirstState = None
  PageSize = 1
  None = None
INVARIANTS
  SessionsMatchEvents
  AcceptedIsStored
  DashboardExact
  PagesShowEachOnce
PROPERTIES
  EveryCallEnds
CHECK_DEADLOCK FALSE
