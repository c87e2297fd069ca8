SPECIFICATION FairSpec
CONSTANTS
  Keys = {k1, k2}
  Sagas = {s1, s2}
  Reconcilers = {r1}
  None = None
  MaxRevision = 1
  Interruptions = 1
CHECK_DEADLOCK FALSE
INVARIANTS
  GenerationsConsistent
PROPERTIES
  NothingUndone
  OrphansCollected
