SPECIFICATION Spec
CONSTANTS
  Requests = {r1, r2}
  Agents = {11, 12}
  Issued = {11}
  Admins = {21, 22}
  Ids = {1, 2, 3, 4, 5, 6}
  IdemKeys = {"k"}
  Fingerprints = {"f", "g"}
  PageLimit = 1
  Existing <- MCExisting
  None = None
SYMMETRY RequestSymmetry
CHECK_DEADLOCK FALSE
INVARIANTS
  RequestsConsistent
  ListedExactlyOnce
PROPERTIES
  CommitsAreAuthorized
  GrantsSound
