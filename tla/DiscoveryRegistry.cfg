CONSTANTS
  root = root c1 = c1 c2 = c2 r1 = r1 r2 = r2 d = d k1 = k1 k2 = k2
  NoAddr = NoAddr ZeroKey = ZeroKey Off = Off
  RAddr <- MCRAddr
  ServerKeys <- SignedKeys
  Protocols <- MCProtocols
  DiscoveryAddrs <- MCQueries
  Servers = {root, c1}
  Clients = {r1}
  Stoppable = {root, c1, r1}
  Discoverers = {}
  Keys = {k1}
  Skew <- MCSkew
  HeartbeatAddrs <- MCHeartbeat
  HeartbeatPeriod = 1
  BeaconPeriod = 2
  PeerTimeout = 1
  MapTimeout = 2
  Window = 1
  Word = 8
  PageSize = 1
  Duplicates = TRUE
  MaxDelay = 3
  MaxMishaps = 1
  MaxTime = 5
SPECIFICATION Spec
CHECK_DEADLOCK FALSE
INVARIANTS StoppedIsForgotten
