SPECIFICATION FairSpec
CONSTANTS
  r1 = r1
  r2 = r2
  r3 = r3
  r4 = r4
  b1 = b1
  b2 = b2
  k = k
  NoRequest = NoRequest
  Gone = Gone
  NoBytes = NoBytes
  AdHoc = AdHoc
  Requests = {r1, r2, r3, r4}
  Scenarios <- ScenariosOf
  Parts = {1}
  Bytes = {b1, b2}
  Declared = b1
  Keys = {k}
  MaxTroubles = 2
CHECK_DEADLOCK FALSE
INVARIANTS
  UploadsTypeOK
  ToldIsTrue
  CommittedBytesAvailable
PROPERTIES
  TransitionsAreLegal
  Settles
