CONSTANTS
  f1 = f1  f2 = f2  m = m  None = None
  FILE = {f1, f2}
  MASTER = {m}
  Basename <- OwnNames
  Total <- TwoAndOne
  SELECTED <- WholeFiles
  ANSWERS = {"posted", "duplicate", "refused", "lost"}
  FAULTS = {"open", "encode"}
  USER = {"save", "stop", "remove", "master"}
  TOUCHED = {f1}
  MaxStops = 1
CHECK_DEADLOCK FALSE
SPECIFICATION FairSpec
INVARIANTS
  NeededInCache
  PostedAsAnnounced
  PartsAccounted
  SuccessIsTrue
  ListenerOutlivesTasks
  NzbComplete
PROPERTIES
  EveryUploadEnds
  WindowCloses
