SPECIFICATION FairSpec
CONSTANTS
  Workers = {w1, w2}
  JobIds = {1, 2}
  MaxAttempts = 2
  ChunkCount = 3
  BatchSize = 2
CHECK_DEADLOCK FALSE
INVARIANTS
  ProgressConsistent
  OnlyLateCleanupLoses
PROPERTIES
  DocumentSettles
