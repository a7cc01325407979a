SPECIFICATION FairSpec
CONSTANTS
  Group = {g1, g2}
  None = None
  KIND = {"article", "list", "group", "post", "noop", "quit"}
  HasUsername = TRUE
  XFeature = TRUE
  SURPRISES = {"noposting"}
  MaxRequests = 5
INVARIANTS
  ReturnedClean
  OwnLines
  Lockstep
  ArticleInItsGroup
PROPERTIES
  EveryRequestEnds
CHECK_DEADLOCK FALSE
