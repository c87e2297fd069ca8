SPECIFICATION StoreFairSpec

CONSTANTS
    o1 = o1
    o2 = o2
    Ops = {o1, o2}
    Starts <- MCStarts
    Payloads = {"a", "b"}
    MaxWorkers = 2
    Capacity = 1
    MaxBytes = 2
    ChunkSizes = {2}
    Limit = 1
    ScanFactor = 3
    MaxScan = 2
INVARIANTS
  StoreAccounts
  ObjectsSound
PROPERTIES
  FinalImmutable
  StoreProgress
