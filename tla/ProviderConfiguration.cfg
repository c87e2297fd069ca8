SPECIFICATION FairSpec
CONSTANTS
  r1 = r1
  r2 = r2
  Requests = {r1, r2}
  Admins = {31, 32}
  Creds = {21}
  Configs = {1, 2}
  Profiles = {11, 12}
  Generations = {41}
  ConfigPatches <- MCConfigPatches
  ProfilePatches <- MCProfilePatches
  AdminOf <- MCAdminOf
  NewProfile <- MCNewProfile
  InitConfigs <- MCInitConfigs
  InitProfiles <- MCInitProfiles
  InitGenerations <- MCInitGenerations
  None = None
CHECK_DEADLOCK FALSE
INVARIANTS
  ConfigurationFrozen
PROPERTIES
  CommittedPatchesAreCurrent
  LocksResolve
