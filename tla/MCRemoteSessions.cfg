CONSTANTS
  k1 = k1
  k2 = k2
  k3 = k3
  NoKey = NoKey
  Keys <- MCKeys
  Timestamps <- MCTimestamps
  DefaultAcl <- MCDefaultAcl
  MAX_REMOTE_LOGINS = 2
  REMOTE_LOGIN_TTL_MS = 1
  MaxTime = 3
SPECIFICATION Spec
SYMMETRY Symmetry
INVARIANT OneSessionPerKey
INVARIANT SessionsFollowAcl
PROPERTY KeepsPromise
CHECK_DEADLOCK FALSE
