SPECIFICATION FairSpec
CONSTANTS
  RequestIds = {r1, r2}
  Keywords = {k1, k2}
  MaxSeeds = 2
  MaxAttempts = 2
INVARIANTS
  MetricsConsistent
  EveryKeywordFound
PROPERTIES
  CollectionEnds
CHECK_DEADLOCK FALSE
