SPECIFICATION MCSpec
CONSTANTS
  m1 = m1 m2 = m2 b1 = b1 b2 = b2 b3 = b3
  Messages = {m1, m2}
  Blobs = {b1, b2, b3}
  Atts <- Shared
  Size <- Sizes
  Budget = 1
  Writers = 2
  StoreFaults = FALSE
  StopBound = 1
  c1 = c1 c2 = c2 c3 = c3
  Configs = {c1, c2, c3}
  Clients = {p, q}
  History = 2
  Boot <- MCBoot
  Pinned <- MCPinned
  DataDir <- MCDataDir
  None = None Torn = Torn
  IoFaults = FALSE
  CrashBound = 2
SYMMETRY MCSymmetry
PROPERTIES StrayTmpHarmless
