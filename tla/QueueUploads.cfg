CONSTANTS
  s1 = s1  s2 = s2  None = None
  SAVE = {a}  BODIES = {}  UPLOAD = {u, v, w}  POST = {}
  SERVER = {s1}
  ServersOf <- OneServer
  Limit <- LimitTwo
  MaxParts = 1
  USER = {"add", "stop", "remove"}
  FAILURES = {"ERR_NETWORK", "encoding"}
SYMMETRY SymmetricUploads
SPECIFICATION Spec
INVARIANTS CoderNeverIdle UploadsKeepGoing
