SPECIFICATION FairSpec
CONSTANTS
  NNTP = {n1, n2, n3}
  LIMITS = {1, 2, 3}
  MAX_IDLE_SECS = 1
  HUP_IDLE_SECS = 3
  LOCKOUT_SECS = 2
INVARIANTS
  CountsMatch
  UsersHoldLiveConnections
PROPERTIES
  ImplementsLedger
  PoolRefills
  IdleIsRefreshed
