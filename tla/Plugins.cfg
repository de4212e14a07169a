SPECIFICATION MCSpec
CONSTANTS
  Nil = Nil
  Corr = {c1, c2}
  ReqCap = 2
  EventCap = 3
  AckCap = 1
  Pkid = {1, 2}
  Resumed = {FALSE}
  Job = {j1, j2, j3}
  SEND_QUEUE_MAX = 2
  InboxCap = 2
  WireCap = 3
  MaxEvents = 1
  
PROPERTIES PingAnswered
