SPECIFICATION SearchSpec
CONSTANTS
  Generations = {1, 2}
  Indexes = {1, 2}
  Preparers = {c1, c2}
  Docs = {1, 2}
  Chunks <- MCChunks
  MaxFaults = 2
  Searches = {s1, s2}
  Requests <- MCRequests
  Schema <- MCSchema
  Factor = 2
  Floor = 2
  Ceiling = 3
  MaxRerank = 1
  MaxObservers = 1
  Plans <- MCPlans
CHECK_DEADLOCK FALSE
INVARIANTS
  AnswersSound
  SearchesRecorded
PROPERTIES
  CollectionsOwned
  SearchEnds
