SPECIFICATION ProcessSpec
CONSTANTS
  RunnerSlots = {"s1", "s2"}
  Resources = {"store", "qdrant"}
CHECK_DEADLOCK FALSE
INVARIANTS
  ProcessConsistent
PROPERTIES
  NothingLate
  ProcessResponds
