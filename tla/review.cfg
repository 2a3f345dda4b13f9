SPECIFICATION Spec
CONSTANTS
  p1 = p1
  p2 = p2
  a = a
  b = b
  k1 = k1
  r1 = r1
  r2 = r2
  r3 = r3
  w1 = w1
  w2 = w2
  Tombstone = Tombstone
  NoKey = NoKey
  NoRequest = NoRequest
  NoHash = NoHash
  Paths = {p1, p2}
  Contents = {a, b}
  Keys = {k1}
  Hashes = {NoHash}
  Requests = {r1, r2, r3}
  CommitIds = {r1, r2, r3, w1, w2}
  Calls <- ReviewCallsOf
  Writes <- WritesOf
  TimeToLive = 1
  Retention = 1
  MaxEntries = 2
  MaxClock = 2
  MaxLifecycle = 1
  MaxFaults = 1
CHECK_DEADLOCK FALSE
INVARIANTS
  SetsTypeOK
  AppliedByOneCommit
  AppliedAsReviewed
  FenceOutlivesReview
  AnswersStayTrue
  KeyNamesOneSet
  InternalOnlyAfterFault
PROPERTIES
  DecisionIsFinal
