CONSTANTS
  W = 3
  H = 3
  NotVisited = NotVisited
  None = None
  MaxBlocked = 3
SPECIFICATION FairSpec
INVARIANTS
  PathTypeOK
  NothingFails
  EdgesBothWays
  NothingForgotten
  AnswerIsExact
  PathIsWalk
PROPERTIES
  Ends
CHECK_DEADLOCK FALSE
