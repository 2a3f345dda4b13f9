SPECIFICATION Spec
CONSTANTS
  Texts = {t1, t2}
  Empty = Empty
  Gone = Gone
  NoText = NoText
  NoDraft = NoDraft
  NoAttempt = NoAttempt
  NoReply = NoReply
  NoCheck = NoCheck
  Scenarios <- ScenariosOf
  MaxVersions = 4
  MaxSaves = 2
  MaxVisits = 2
  MaxTroubles = 2
SYMMETRY TextsAlike
CHECK_DEADLOCK FALSE
INVARIANTS
  NothingOverwrittenUnseen
  
