SPECIFICATION Spec
CONSTANTS
  p1 = p1
  p2 = p2
  a = a
  b = b
  k1 = k1
  k2 = k2
  r1 = r1
  r2 = r2
  r3 = r3
  r4 = r4
  Tombstone = Tombstone
  NoKey = NoKey
  NoRequest = NoRequest
  Paths = {p1, p2}
  Contents = {a, b}
  Keys = {k1, k2}
  Requests = {r1, r2, r3}
  CommitIds = {r1, r2, r3}
  Calls <- CommitCallsOf
  Hashes <- CommitHashes
  MaxEntries = 2
  MaxLifecycle = 2
  MaxForeign = 1
  MaxFaults = 1
  LedgerExpires = TRUE
SYMMETRY SomeRequest
CHECK_DEADLOCK FALSE
INVARIANTS
  CommitsWhole
  FencesHeld
  GateImpliesSeal
  AmbiguousBatchRecovers
