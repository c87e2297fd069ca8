SPECIFICATION FairSpec
CONSTANTS
  Requests = {r1, r2, r3}
  Providers = {p1, p2}
  States = {s1, s2}
  Limits = {1, 2}
  Rates = {1}
  MaxStates = 1
  Grain = 2
  None = None
INVARIANTS
  LimitsRespected
PROPERTIES
  EveryRequestEnds
