SPECIFICATION FairSpec
CONSTANTS
  Docs = {1, 2}
  Existing = {{1}}
  Chunks <- MCChunks
  Generations = {1, 2, 3}
  MaxAttempts = 1
  MaxFaults = 1
  MaxLosses = 1
  MaxRevision = 6
CHECK_DEADLOCK FALSE
INVARIANTS
  RebuildSafe
PROPERTIES
  RebuiltIsComplete
  RebuildEnds
