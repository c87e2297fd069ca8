SPECIFICATION FairSpec
CONSTANTS
  r1 = r1
  r2 = r2
  k = k
  c1 = c1
  c2 = c2
  f1 = f1
  f2 = f2
  Requests = {r1, r2}
  Keys = {k}
  Contents = {c1, c2}
  Forms = {f1, f2}
  Uploads <- MCUploads
  MaxConfig = 1
  None = None
  QueueSize = 2
  MaxPieces = 2
CHECK_DEADLOCK FALSE
INVARIANTS
  RepeatsAnswerAlike
  SourcesWhole
PROPERTIES
  NothingLeftBehind
