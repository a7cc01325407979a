CONSTANTS
  s1 = s1  s2 = s2  None = None
  SAVE = {a}  BODIES = {b}  UPLOAD = {u}  POST = {}
  SERVER = {s1, s2}
  ServersOf <- Articles2
  Limit <- LimitOne
  MaxParts = 1
  USER = {"add"}
  FAILURES = {"ERR_NETWORK", "ERR_COMMAND", "lockout"}
SPECIFICATION FairSpec
PROPERTIES EveryTaskEnds
