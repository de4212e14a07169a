SPECIFICATION Spec
CONSTANTS
  Nil = Nil
  Proc = {p1, p2}
  Conn = {c1, c2}
  LIVENESS_TIMEOUT = 2
  CONNECT_TIMEOUT = 1
  HELLO_TIMEOUT = 1
  HEALTHY_RUN = 1
  ALERT_THROTTLE = 2
  EventCap = 1
  RunLimit = 1
  Backoffs <- MCBackoffs
SYMMETRY MCSymmetry
INVARIANTS SupervisionSound
PROPERTIES KillsSound
