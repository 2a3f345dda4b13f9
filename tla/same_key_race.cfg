SPECIFICATION Spec
CONSTANTS
  p1 = p1
  p2 = p2
  a = a
  b = b
  k1 = k1
  k2 = k2
  r1 = r1
  r2 = r2
  r3 = r3
  r4 = r4
  Tombstone = Tombstone
  NoKey = NoKey
  NoRequest = NoRequest
  Paths = {p1}
  Contents = {a, b}
  Keys = {k1, k2}
  Requests = {r1, r2, r3}
  CommitIds = {r1, r2, r3}
  Calls <- SingleCallsOf
  Hashes <- SingleHashes
  MaxEntries = 2
  MaxLifecycle = 0
  MaxForeign = 0
  MaxFaults = 0
  LedgerExpires = FALSE
CHECK_DEADLOCK FALSE
INVARIANT SameKeyConverges
