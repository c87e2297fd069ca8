SPECIFICATION FairSpec
CONSTANTS
  Jobs = {1, 2}
  Handled = {1}
  Slots = {s1, s2}
  OwnerOf <- MCOwnerOf
  MaxAttempts = 2
  LastStage = 1
  MaxBacklog = 1
  MaxFaults = 1
CHECK_DEADLOCK FALSE
INVARIANTS
  LeaseSafety
  AttemptsWithinBudget
  CancelNeverSucceeds
PROPERTIES
  ImplementsLifecycle
  EveryJobSettles
