SPECIFICATION MCSpec
CONSTANTS
  a = a
  b = b
  s = s
  Node = {a, b, s}
  Listens = {a, b, s}
  Public = {}
  Peers <- MCPeers
  Reaches <- MCReaches
  Trust <- MCTrust
  MAX_INBOUND_CONNS = 1
  DEAD_AFTER = 2
  SEND_TIMEOUT = 2
  MaxConns = 2
  MaxCrashes = 2
  p = p
  q = q
  Nil = Nil
  Remote = {p, q}
  Configs <- MCConfigs
  Ttls = {1, 4}
  ADVERT_MAX_FUTURE = 2
  MAX_SEEN_TRUST_ROWS = 1
  MAX_PEER_ADVERTS = 1
  MaxClock = 3
  MaxKeys = 2
  MaxBoots = 2
INVARIANTS RegistrySound GoneIsNoticed 
PROPERTIES StrangersBounded
CHECK_DEADLOCK FALSE
