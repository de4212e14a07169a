SPECIFICATION MCSpec
CONSTANTS
  a = a
  b = b
  r = r
  x = x
  y = y
  in = in
  out = out
  dark = dark
  Nil = Nil
  Chat = Chat
  Conn = {c1, c2}
  Identity = {a, b, r}
  Code = {x, y}
  Message <- MCMessage
  Routes <- MCRoutes
  Requests <- MCRequests
  Size <- MCSize
  Settings <- MCSettings
  Minute = 1
  Hour = 2
  LINK_CODE_MAX_GUESSES = 2
  LINK_CODE_WINDOW = 1
  LINK_CODE_MAP_MAX = 2
  ChallengeTtl = 1
  MaxClock = 2
  MaxSends = 3
  MaxOps = 2
SYMMETRY MCSymmetry
INVARIANTS GatesHold 
PROPERTIES EffectsEarned
CHECK_DEADLOCK FALSE
