SPECIFICATION Spec
CONSTANTS
  a = a
  b = b
  c = c
  r = r
  s = s
  Node = {a, b, c}
  Route = {r, s}
  Nil = Nil
  Local = Local
  Short = Short
  Source = a
  SourceRoute = r
  Destinations <- MCDestinations
  IngressRoutes <- MCIngressRoutes
  Sealed <- MCSealed
  Decrypts <- MCDecrypts
  Pseudonymous = {a, b}
  AcceptChoices <- MCAcceptChoices
  MaxHops <- MCMaxHops
  MaxTtl <- MCMaxTtl
  Retention <- MCRetention
  Ttl = 3
  MaxAttempts = 2
  Cap = 1
  Clock = {0, 1, 2}
  TroubleBound = 1
INVARIANTS HonestChains LoopFree OncePerPeer DeliveredWasAccepted
CHECK_DEADLOCK FALSE
