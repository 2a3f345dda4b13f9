SPECIFICATION FairSpec
CONSTANTS
  c1 = c1
  c2 = c2
  Nobody = Nobody
  Gone = Gone
  Writers = {1, 2}
  Contents = {1, 2}
  Legacy = {1}
  Collectors = {c1, c2}
  Scenarios <- ScenariosOf
  PageLimit = 1
  OrphanAge = 1
  WriteTime = 1
  QueryTime = 0
  MaxTroubles = 1
CHECK_DEADLOCK FALSE
INVARIANTS
  CollectionTypeOK
  NothingNeededIsCollected
PROPERTIES
  PagesFormAChain
  GarbageGoes
