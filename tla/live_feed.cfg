SPECIFICATION FairSpec
CONSTANTS
  MaxChanges = 3
  Scenarios <- ScenariosOf
  Own = {2}
  PageSize = 1
  MaxReplayPages = 1
  LiveLimit = 1
  QueueCapacity = 1
  PollAfter = 1
  NoMark = NoMark
  NoTask = NoTask
  MaxTroubles = 1
CHECK_DEADLOCK FALSE
INVARIANTS
  NothingSkipped
  RestIsCurrent
PROPERTY
  CatchesUp
