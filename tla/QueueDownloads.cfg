CONSTANTS
  s1 = s1
  s2 = s2
  None = None
  SAVE = {a}
  BODIES = {}
  UPLOAD = {}
  POST = {p}
  SERVER = {s1, s2}
  ServersOf <- Articles2
  Limit <- LimitOne
  MaxParts = 2
  USER = {"add", "insert", "stop", "remove", "move", "online"}
  FAILURES = {"ERR_NETWORK", "ERR_COMMAND", "ERR_NOSPACE", "ERR_LOCAL"}
SPECIFICATION Spec
INVARIANTS
  NoDanglingTask
PROPERTIES
  StoppedGetNothing
  OfflineIsQuiet
