SPECIFICATION Spec
CONSTANTS
  p1 = p1
  p2 = p2
  a = a
  b = b
  k1 = k1
  r1 = r1
  r2 = r2
  r3 = r3
  w1 = w1
  w2 = w2
  Tombstone = Tombstone
  NoKey = NoKey
  NoRequest = NoRequest
  NoHash = NoHash
  Paths = {p1, p2}
  Contents = {a, b}
  Keys = {k1}
  Hashes = {NoHash}
  Requests = {r1, r2, r3}
  CommitIds = {r1, r2, r3, w1, w2}
  Calls <- PrefixCallsOf
  Writes <- WritesOf
  TimeToLive = 1
  Retention = 1
  MaxEntries = 2
  MaxClock = 0
  MaxLifecycle = 2
  MaxFaults = 0
CHECK_DEADLOCK FALSE
INVARIANTS
  PrefixConflictIsReal
