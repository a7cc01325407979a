CONSTANTS
  show = show
  save = save
  None = None
  MID = {1, 2, 3}
  TASK = {show, save}
  Parts <- PartsShared
  COPY = {3}
  Size <- Sizes
  max_bytes = 2
  FAULTS = {"full", "restart"}
  MaxTwice = 1
  MaxNow = 2
SPECIFICATION Spec
INVARIANTS
  LocksMatch
  PartsPresent
PROPERTIES
  HoldsToLimit
