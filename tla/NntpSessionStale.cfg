SPECIFICATION Spec
CONSTANTS
  Group = {g1, g2}
  None = None
  KIND = {"article"}
  HasUsername = FALSE
  XFeature = FALSE
  SURPRISES = {"refusal"}
  MaxRequests = 6
INVARIANTS
  OwnLines
CHECK_DEADLOCK FALSE
