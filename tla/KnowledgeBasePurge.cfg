SPECIFICATION FairSpec
CONSTANTS
  Workers = {w1, w2}
  Generations = {g1, g2}
  Established = {g2}
  MaxCreators = 2
  Documents = {d1}
  MaxAttempts = 2
  Interruptions = 2
  Outages = 1
CHECK_DEADLOCK FALSE
INVARIANTS
  PurgeInOrder
PROPERTIES
  DeletionSettles
  NothingRemains
