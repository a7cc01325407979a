CONSTANTS
  s1 = s1  s2 = s2  a = a  b = b  c = c  None = None
  SERVER = {s1, s2}
  CONN = {a, b, c}
  ServerOf <- Connections
  TASK = {1, 2}
  MaxQueued = 1
  MODES <- AllFirst
  Sample = 2
  OLD <- Misdated
  CORRUPT <- Incomplete
  LONG <- TooLong
  COMPRESSED = {s2}
  INCREMENT = 1
  Last0 <- OneAndTwo
  ARRIVING = {s1}
  FAULTS = {"lost", "refused", "garbled", "crash"}
  USER = {"show", "remove", "mark other groups"}
CHECK_DEADLOCK FALSE
SPECIFICATION FairSpec
INVARIANTS
  SkippedOnlyByFaults
  EndsComplete
PROPERTIES
  EveryTaskEnds
