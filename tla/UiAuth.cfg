SPECIFICATION Spec
CONSTANTS
  a = a
  b = b
  Nil = Nil
  Cred = {a, b}
  Client = {c1, c2}
  Stores <- MCStores
  MaxCount = 1
  SESSION_TTL = 2
  CHALLENGE_TTL = 1
  SSE_MAX_LIFETIME = 1
  MAX_CHALLENGES = 2
  MAX_SESSIONS = 2
  MaxClock = 3
  MaxTokens = 3
  MaxOps = 2
  MaxStreams = 2
SYMMETRY MCSymmetry
INVARIANTS NotLockedOut NothingReused
PROPERTIES CredentialsDecide
CHECK_DEADLOCK FALSE
